---- MODULE RaptorProofs ----
(***************************************************************************)
(* Lemmas about the overlay and RAPTOR's rounds (Overlay, Raptor,          *)
(* Journeys): what messages make of an overlay, what labels say of how and *)
(* when the rider came, for every timetable, every query and whatever the  *)
(* overlay.  PlannerProofs concludes from them.                            *)
(***************************************************************************)
EXTENDS Journeys, FiniteSetTheorems, WellFoundedInduction, TLAPS

\* The network served is one that was loaded.
Loaded == net \in Networks

-----------------------------------------------------------------------------
(* Sequences, and what is in them                                          *)

IsSeq(s) == s \in Seq(ToSet(s))

\* A member of Seq(S) is a list, and what is in it is in S.
LEMMA SeqIs ==
  ASSUME NEW S, NEW s \in Seq(S)
  PROVE  IsSeq(s) /\ ToSet(s) \in SUBSET S /\ DOMAIN s = 1..Len(s) /\ Len(s) \in Nat
<1>1. DOMAIN s = 1..Len(s) /\ Len(s) \in Nat /\ \A i \in 1..Len(s) : s[i] \in S
  OBVIOUS
<1>2. s \in [1..Len(s) -> ToSet(s)]
  <2>1. s = [i \in 1..Len(s) |-> s[i]]
    OBVIOUS
  <2>2. \A i \in 1..Len(s) : s[i] \in ToSet(s)
    BY <1>1 DEF ToSet
  <2> QED BY <2>1, <2>2
<1>3. s \in Seq(ToSet(s))
  BY <1>1, <1>2
<1> QED BY <1>1, <1>3 DEF IsSeq, ToSet

\* A list of members of S is a member of Seq(S).
LEMMA InSeq ==
  ASSUME NEW S, NEW s, IsSeq(s), ToSet(s) \in SUBSET S
  PROVE  s \in Seq(S)
BY DEF IsSeq

\* A list is indexed from one to its length.
LEMMA IsSeqHas ==
  ASSUME NEW s, IsSeq(s)
  PROVE  DOMAIN s = 1..Len(s) /\ Len(s) \in Nat /\ \A i \in 1..Len(s) : s[i] \in ToSet(s)
BY DEF IsSeq

\* The list of nothing.
LEMMA NoneIs == IsSeq(<<>>) /\ ToSet(<<>>) = {} /\ Len(<<>>) = 0
BY DEF IsSeq, ToSet

\* The list of one.
LEMMA OneIs ==
  ASSUME NEW x
  PROVE  IsSeq(<<x>>) /\ ToSet(<<x>>) = {x}
<1>1. <<x>> \in Seq({x})
  OBVIOUS
<1>2. ToSet(<<x>>) = {x}
  BY DEF ToSet
<1> QED BY <1>1, <1>2 DEF IsSeq

\* What is in a list with one more at its end.
LEMMA AppendIs ==
  ASSUME NEW s, IsSeq(s), NEW x
  PROVE  IsSeq(Append(s, x)) /\ ToSet(Append(s, x)) = ToSet(s) \cup {x}
<1>1. /\ DOMAIN s = 1..Len(s) /\ Len(s) \in Nat
      /\ Append(s, x) \in Seq(ToSet(s) \cup {x}) /\ Len(Append(s, x)) = Len(s) + 1
      /\ DOMAIN Append(s, x) = 1..(Len(s) + 1)
      /\ \A i \in 1..Len(s) : Append(s, x)[i] = s[i]
      /\ Append(s, x)[Len(s) + 1] = x
  <2>1. s \in Seq(ToSet(s) \cup {x})
    BY DEF IsSeq
  <2> QED BY <2>1
<1>2. ToSet(Append(s, x)) = ToSet(s) \cup {x}
  BY <1>1 DEF ToSet
<1> QED BY <1>1, <1>2 DEF IsSeq

\* What is in two lists, one after the other.
LEMMA ConcatIs ==
  ASSUME NEW s, IsSeq(s), NEW t, IsSeq(t)
  PROVE  IsSeq(s \o t) /\ ToSet(s \o t) = ToSet(s) \cup ToSet(t) /\ Len(s \o t) = Len(s) + Len(t)
<1> DEFINE m == Len(s)
           n == Len(t)
<1>1. s \in Seq(ToSet(s) \cup ToSet(t)) /\ t \in Seq(ToSet(s) \cup ToSet(t))
  BY DEF IsSeq
<1>2. /\ DOMAIN s = 1..m /\ m \in Nat /\ DOMAIN t = 1..n /\ n \in Nat
      /\ s \o t \in Seq(ToSet(s) \cup ToSet(t)) /\ Len(s \o t) = m + n
      /\ DOMAIN (s \o t) = 1..(m + n)
      /\ \A i \in 1..m : (s \o t)[i] = s[i]
  BY <1>1
<1>3. \A i \in 1..(m + n) : ~(i <= m) => (s \o t)[i] = t[i - m]
  BY <1>1
<1>4. \A i \in 1..n : i + m \in 1..(m + n) /\ ~(i + m <= m) /\ (i + m) - m = i
  BY <1>2
<1>5. \A i \in 1..n : (s \o t)[i + m] = t[i]
  BY <1>3, <1>4
<1>6. ToSet(s) \in SUBSET ToSet(s \o t)
  <2>1. \A i \in 1..m : i \in 1..(m + n)
    BY <1>2
  <2> QED BY <1>2, <2>1 DEF ToSet
<1>7. ToSet(t) \in SUBSET ToSet(s \o t)
  BY <1>2, <1>4, <1>5 DEF ToSet
<1>8. ToSet(s \o t) \in SUBSET (ToSet(s) \cup ToSet(t))
  BY <1>2 DEF ToSet
<1>9. ToSet(s \o t) = ToSet(s) \cup ToSet(t)
  BY <1>6, <1>7, <1>8
<1> QED BY <1>2, <1>9 DEF IsSeq

\* A set that holds 0, and with a number its successor, holds all the naturals.
LEMMA NatsFrom == \A S \in SUBSET Nat : (0 \in S /\ \A k \in S : k + 1 \in S) => S = Nat
<1> SUFFICES ASSUME NEW S \in SUBSET Nat, 0 \in S, \A k \in S : k + 1 \in S, S # Nat
             PROVE  FALSE
  OBVIOUS
<1> DEFINE T == Nat \ S
<1>1. PICK x \in T : \A y \in T : ~(<<y, x>> \in OpToRel(<, Nat))
  BY Zenon, NatLessThanWellFounded, WFMin
<1>2. \A y \in T : ~(y < x)
  BY <1>1 DEF OpToRel
<1>3. x \in Nat /\ x # 0 /\ x \notin S
  OBVIOUS
<1>4. x - 1 \in Nat /\ x - 1 \notin S
  BY <1>3
<1> QED
  BY <1>2, <1>4

-----------------------------------------------------------------------------
\* Among: a fold
SiftStep(S, kept, x) == IF x \in S THEN Append(kept, x) ELSE kept
SiftGood(h, k, kept) == IsSeq(kept) /\ ToSet(kept) = {h.seq[i] : i \in 1..k} \cap h.in
Sift == INSTANCE FoldLaws WITH Step <- SiftStep, Good <- SiftGood

\* Among filters: what is in the list and in the set.
LEMMA AmongIs ==
  ASSUME NEW seq, IsSeq(seq), NEW S
  PROVE  IsSeq(Among(seq, S)) /\ ToSet(Among(seq, S)) = ToSet(seq) \cap S
<1> DEFINE h == [seq |-> seq, in |-> S]
           n == Len(seq)
<1>0. DOMAIN seq = 1..n /\ n \in Nat /\ h.seq = seq /\ h.in = S
  BY IsSeqHas
<1> HIDE DEF h, n
<1>1. SiftGood(h, 0, <<>>)
  BY NoneIs DEF SiftGood
<1>2. ASSUME NEW k \in 1..n, NEW kept, SiftGood(h, k - 1, kept)
      PROVE  SiftGood(h, k, SiftStep(S, kept, seq[k]))
  <2>1. {seq[i] : i \in 1..k} = {seq[i] : i \in 1..(k - 1)} \cup {seq[k]}
    <3>1. \A i : i \in 1..k <=> i \in 1..(k - 1) \/ i = k
      BY <1>0
    <3> QED BY <3>1
  <2>2. IsSeq(kept) /\ ToSet(kept) = {seq[i] : i \in 1..(k - 1)} \cap S
    BY <1>0, <1>2 DEF SiftGood
  <2>3. CASE seq[k] \in S
    <3>1. IsSeq(Append(kept, seq[k])) /\ ToSet(Append(kept, seq[k])) = ToSet(kept) \cup {seq[k]}
      BY <2>2, AppendIs
    <3> QED BY <1>0, <2>1, <2>2, <2>3, <3>1 DEF SiftGood, SiftStep
  <2>4. CASE seq[k] \notin S
    BY <1>0, <2>1, <2>2, <2>4 DEF SiftGood, SiftStep
  <2> QED BY <2>3, <2>4
<1>3. SiftGood(h, n, Sift!Folded(S, <<>>, seq))
  BY <1>0, <1>1, <1>2, Sift!FoldKeeps, NatsFrom
<1>4. Among(seq, S) = Sift!Folded(S, <<>>, seq)
  BY DEF Among, SiftStep, Sift!Folded,
         FoldLeft, MapThenFoldSet, Max, Sift!Largest
<1>5. ToSet(seq) = {seq[i] : i \in 1..n}
  BY <1>0 DEF ToSet
<1> QED BY <1>0, <1>3, <1>4, <1>5 DEF SiftGood

\* Ascending
LEMMA AscendingIs ==
  ASSUME NEW n \in Nat
  PROVE  IsSeq(Ascending(n)) /\ ToSet(Ascending(n)) = 1..n /\ Len(Ascending(n)) = n /\ DOMAIN Ascending(n) = 1..n
         /\ \A i \in 1..n : Ascending(n)[i] = i
<1>1. Ascending(n) \in [1..n -> 1..n]
  BY DEF Ascending
<1>2. Ascending(n) \in Seq(1..n) /\ Len(Ascending(n)) = n /\ DOMAIN Ascending(n) = 1..n
  BY <1>1
<1>3. \A i \in 1..n : Ascending(n)[i] = i
  BY DEF Ascending
<1>4. ToSet(Ascending(n)) = 1..n
  BY <1>2, <1>3 DEF ToSet
<1> QED BY <1>2, <1>3, <1>4, SeqIs

\* AscendingIn: the numbers up to n that are in the set.
LEMMA AscendingInIs ==
  ASSUME NEW n \in Nat, NEW S
  PROVE  IsSeq(AscendingIn(n, S)) /\ ToSet(AscendingIn(n, S)) = (1..n) \cap S
BY AscendingIs, AmongIs DEF AscendingIn

\* Only: the list of x, or nothing.
LEMMA OnlyIs ==
  ASSUME NEW x, NEW holds \in BOOLEAN
  PROVE  IsSeq(Only(x, holds)) /\ ToSet(Only(x, holds)) = IF holds THEN {x} ELSE {}
BY OneIs, NoneIs DEF Only

\* Joined: a fold
JoinStep(p, all, s) == all \o s
JoinGood(p, k, all) == IsSeq(all) /\ ToSet(all) = UNION {ToSet(p[i]) : i \in 1..k}
Join == INSTANCE FoldLaws WITH Step <- JoinStep, Good <- JoinGood

\* Joined: what is in any of the lists.
LEMMA JoinedIs ==
  ASSUME NEW seqs, NEW n \in Nat, DOMAIN seqs = 1..n, \A i \in 1..n : IsSeq(seqs[i])
  PROVE  IsSeq(Joined(seqs)) /\ ToSet(Joined(seqs)) = UNION {ToSet(seqs[i]) : i \in 1..n}
<1>1. JoinGood(seqs, 0, <<>>)
  BY NoneIs DEF JoinGood
<1>2. ASSUME NEW k \in 1..n, NEW all, JoinGood(seqs, k - 1, all)
      PROVE  JoinGood(seqs, k, JoinStep(seqs, all, seqs[k]))
  <2>1. IsSeq(all \o seqs[k]) /\ ToSet(all \o seqs[k]) = ToSet(all) \cup ToSet(seqs[k])
    BY <1>2, ConcatIs DEF JoinGood
  <2>2. UNION {ToSet(seqs[i]) : i \in 1..k} = (UNION {ToSet(seqs[i]) : i \in 1..(k - 1)}) \cup ToSet(seqs[k])
    <3>1. \A i : i \in 1..k <=> i \in 1..(k - 1) \/ i = k
      OBVIOUS
    <3> QED BY <3>1
  <2> QED BY <1>2, <2>1, <2>2 DEF JoinGood, JoinStep
<1>3. JoinGood(seqs, n, Join!Folded(seqs, <<>>, seqs))
  BY <1>1, <1>2, Join!FoldKeeps, NatsFrom
<1>4. Joined(seqs) = Join!Folded(seqs, <<>>, seqs)
  BY DEF Joined, JoinStep, Join!Folded,
         FoldLeft, MapThenFoldSet, Max, Join!Largest
<1> QED BY <1>3, <1>4 DEF JoinGood

\* Minimum of naturals
LEMMA LeastExists ==
  ASSUME NEW S \in SUBSET Nat, S # {}
  PROVE  \E x \in S : \A y \in S : x <= y
<1>1. PICK x \in S : \A y \in S : ~(<<y, x>> \in OpToRel(<, Nat))
  BY Zenon, NatLessThanWellFounded, WFMin
<1>2. \A y \in S : ~(y < x)
  BY <1>1 DEF OpToRel
<1> QED BY <1>2

\* The least of a set of numbers is one of them.
LEMMA MinIs ==
  ASSUME NEW S \in SUBSET Nat, S # {}
  PROVE  Min(S) \in S /\ \A y \in S : Min(S) <= y
BY LeastExists DEF Min

\* Inserting brings in nothing else.
LEMMA InsertIs ==
  ASSUME NEW s, IsSeq(s), NEW i \in 1..Len(s), NEW x
  PROVE  IsSeq(InsertAt(s, i, x)) /\ ToSet(InsertAt(s, i, x)) \in SUBSET (ToSet(s) \cup {x})
<1>1. s \in Seq(ToSet(s)) /\ Len(s) \in Nat /\ 1 \in Int /\ i - 1 \in Int /\ i \in Int
  BY IsSeqHas DEF IsSeq
<1>2. SubSeq(s, 1, i - 1) \in Seq(ToSet(s)) /\ SubSeq(s, i, Len(s)) \in Seq(ToSet(s))
  BY <1>1
<1>3. InsertAt(s, i, x) \in Seq(ToSet(s) \cup {x})
  BY <1>2 DEF InsertAt
<1> QED BY <1>3, SeqIs

\* A function on 1..n is a list.
LEMMA ListIs ==
  ASSUME NEW s, NEW n \in Nat, s = [i \in 1..n |-> s[i]]
  PROVE  IsSeq(s) /\ Len(s) = n /\ DOMAIN s = 1..n /\ ToSet(s) = {s[i] : i \in 1..n}
<1>1. DOMAIN s = 1..n
  OBVIOUS
<1>2. ToSet(s) = {s[i] : i \in 1..n}
  BY <1>1 DEF ToSet
<1>3. s \in [1..n -> ToSet(s)]
  BY <1>2
<1>4. s \in Seq(ToSet(s)) /\ Len(s) = n
  BY <1>3
<1> QED BY <1>1, <1>2, <1>4 DEF IsSeq

-----------------------------------------------------------------------------
(* The overlay                                                             *)

\* Delays at every position, the shape of a projected update.
DelaysAre(d, n) ==
  DOMAIN d = 1..n /\ \A i \in 1..n : DOMAIN d[i] = {"arr", "dep", "skip"} /\ d[i].arr \in Int /\ d[i].dep \in Int

\* What a trip update is applied to, and what it makes of that.
ApplyIs(acc, n) ==
  /\ DOMAIN acc = {"delta", "prop", "cursor", "passed"} /\ DelaysAre(acc.delta, n)
  /\ acc.prop \in Int /\ acc.cursor \in Nat \ {0}

\* The lengths of a trip's lists agree.
LEMMA TripIs ==
  ASSUME Loaded, NEW t \in 1..Len(tt.trips)
  PROVE  LET trip == tt.trips[t]
         IN  /\ Len(trip.stops) \in Nat /\ TripLen(tt, t) = Len(trip.stops) /\ Len(trip.seq) = Len(trip.stops)
             /\ \A i \in 1..Len(trip.stops) : trip.arr[i] \in Nat /\ trip.dep[i] \in Nat
<1> DEFINE trip == tt.trips[t]
           n == Len(trip.stops)
<1>1. /\ trip.stops \in Seq(1..tt.nstops) /\ {trip.arr, trip.dep} \in SUBSET [1..n -> Nat]
      /\ trip.seq \in [1..n -> Int]
  BY TimetablesAssumption DEF Loaded, tt, IsCompiled
<1>2. n \in Nat
  BY <1>1
<1>3. trip.arr \in [1..n -> Nat] /\ trip.dep \in [1..n -> Nat]
  BY <1>1
<1>4. trip.arr = [i \in 1..n |-> trip.arr[i]] /\ trip.seq = [i \in 1..n |-> trip.seq[i]]
  BY <1>1, <1>3
<1> HIDE DEF n
<1>5. Len(trip.arr) = n /\ Len(trip.seq) = n
  BY <1>2, <1>4, ListIs
<1>6. \A i \in 1..n : trip.arr[i] \in Nat /\ trip.dep[i] \in Nat
  BY <1>3
<1> QED BY <1>2, <1>5, <1>6 DEF n, TripLen

\* matchSTU finds a position of the trip, or none.
LEMMA MatchIs ==
  ASSUME Loaded, NEW t \in 1..Len(tt.trips), NEW stu, NEW cursor \in Nat \ {0}, MatchSTU(tt, t, stu, cursor) # 0
  PROVE  MatchSTU(tt, t, stu, cursor) \in 1..TripLen(tt, t)
<1> DEFINE at == {p \in cursor..TripLen(tt, t) : PatternStops(tt, t)[p] = stu.stop}
           I == {i \in 1..Len(tt.trips[t].seq) : tt.trips[t].seq[i] = stu.seq}
<1>1. TripLen(tt, t) \in Nat /\ Len(tt.trips[t].seq) = TripLen(tt, t)
  BY TripIs
<1>2. TripSeqPos(tt, t, stu.seq) = IF I # {} THEN Min(I) ELSE 0
  BY DEF TripSeqPos, SelectInSeq
<1>3. at \in SUBSET (1..TripLen(tt, t)) /\ I \in SUBSET (1..TripLen(tt, t))
  BY <1>1
<1>4. at \in SUBSET Nat /\ I \in SUBSET Nat
  BY <1>1
<1>5. MatchSTU(tt, t, stu, cursor) = IF stu.seq # Absent /\ TripSeqPos(tt, t, stu.seq) # 0 THEN TripSeqPos(tt, t, stu.seq)
                                     ELSE IF at = {} THEN 0 ELSE CHOOSE p \in at : \A x \in at : p <= x
  BY DEF MatchSTU
<1> HIDE DEF at, I
<1>6. I # {} => Min(I) \in I
  BY <1>4, MinIs
<1>7. at # {} => (CHOOSE p \in at : \A x \in at : p <= x) \in at
  BY <1>4, LeastExists
<1> QED BY <1>2, <1>3, <1>5, <1>6, <1>7

\* Running delays keep the shape.
LEMMA FillIs ==
  ASSUME NEW n \in Nat, NEW acc, ApplyIs(acc, n), NEW pos
  PROVE  ApplyIs(FillTo(acc, pos), n)
<1> DEFINE d == [i \in DOMAIN acc.delta |-> IF i \in acc.cursor..(pos - 1)
                                            THEN [acc.delta[i] EXCEPT !.arr = acc.prop, !.dep = acc.prop]
                                            ELSE acc.delta[i]]
<1>1. FillTo(acc, pos) = [acc EXCEPT !.delta = d]
  BY DEF FillTo
<1>2. DelaysAre(d, n)
  <2>1. DOMAIN d = 1..n
    BY DEF ApplyIs, DelaysAre
  <2>2. ASSUME NEW i \in 1..n PROVE DOMAIN d[i] = {"arr", "dep", "skip"} /\ d[i].arr \in Int /\ d[i].dep \in Int
    BY DEF ApplyIs, DelaysAre
  <2> QED BY Zenon, <2>1, <2>2 DEF DelaysAre
<1> HIDE DEF d
<1> QED BY <1>1, <1>2 DEF ApplyIs

\* Delays are numbers.
LEMMA StuDeltaIs ==
  ASSUME NEW delay \in Int, NEW time \in Int, NEW scheduled \in Int
  PROVE  StuDelta(delay, time, scheduled) \in Int
BY DEF StuDelta

\* Either of two.
LEMMA OrIs ==
  ASSUME NEW d \in Int, NEW other \in Int
  PROVE  Or(d, other) \in Int
BY DEF Or

\* One stop time update.
LEMMA ApplyOne ==
  ASSUME Loaded, NEW t \in 1..Len(tt.trips), NEW acc, ApplyIs(acc, TripLen(tt, t)), NEW base \in Int, NEW now,
         NEW stu, {stu.arrDelay, stu.depDelay, stu.arrTime, stu.depTime} \in SUBSET Int
  PROVE  ApplyIs(ApplySTU(tt, t, acc, stu, base, now), TripLen(tt, t))
<1> DEFINE pos == MatchSTU(tt, t, stu, acc.cursor)
           full == FillTo(acc, pos)
           arr == Or(StuDelta(stu.arrDelay, stu.arrTime, base + tt.trips[t].arr[pos]), full.prop)
           dep == Or(StuDelta(stu.depDelay, stu.depTime, base + tt.trips[t].dep[pos]), arr)
           evt == EventTime(tt, t, pos, stu, dep, base)
           n == TripLen(tt, t)
<1>1. n \in Nat /\ \A i \in 1..n : tt.trips[t].arr[i] \in Nat /\ tt.trips[t].dep[i] \in Nat
  BY TripIs
<1>2. CASE pos = 0
  BY <1>2 DEF ApplySTU
<1>3. CASE pos # 0
  <2>1. ApplySTU(tt, t, acc, stu, base, now) = SetAt(full, pos, stu, arr, dep, evt, now)
    BY <1>3 DEF ApplySTU
  <2>2. pos \in 1..n
    BY <1>3, MatchIs DEF ApplyIs
  <2>3. ApplyIs(full, n)
    BY <1>1, FillIs
  <2>4. full.prop \in Int /\ tt.trips[t].arr[pos] \in Nat /\ tt.trips[t].dep[pos] \in Nat
    BY <1>1, <2>2, <2>3 DEF ApplyIs
  <2>5. arr \in Int /\ dep \in Int
    <3> DEFINE sa == tt.trips[t].arr[pos]
               sd == tt.trips[t].dep[pos]
               ad == StuDelta(stu.arrDelay, stu.arrTime, base + sa)
               dd == StuDelta(stu.depDelay, stu.depTime, base + sd)
    <3>1. stu.arrDelay \in Int /\ stu.depDelay \in Int /\ stu.arrTime \in Int /\ stu.depTime \in Int
      OBVIOUS
    <3>2. sa \in Nat /\ sd \in Nat
      BY <2>4
    <3> HIDE DEF pos, full, sa, sd
    <3>3. base + sa \in Int /\ base + sd \in Int
      BY <3>2
    <3>4. ad \in Int /\ dd \in Int
      BY <3>1, <3>3, StuDeltaIs
    <3> HIDE DEF ad, dd
    <3>5. Or(ad, full.prop) \in Int
      BY <2>4, <3>4, OrIs
    <3>6. Or(dd, Or(ad, full.prop)) \in Int
      BY <3>4, <3>5, OrIs
    <3> QED BY <3>5, <3>6 DEF ad, dd, sa, sd
  <2>6. dep \in Int
    BY <2>5
  <2> HIDE DEF full, pos, arr, dep, evt, n
  <2> DEFINE after == SetAt(full, pos, stu, arr, dep, evt, now)
             one == [arr |-> arr, dep |-> dep, skip |-> full.delta[pos].skip \/ stu.skipped]
  <2>7. /\ DOMAIN after = DOMAIN full /\ after.prop = dep /\ after.cursor = pos + 1
        /\ after.delta = [full.delta EXCEPT ![pos] = one]
    BY <2>3 DEF SetAt, ApplyIs
  <2>8. DelaysAre(after.delta, n)
    <3>1. DOMAIN after.delta = 1..n /\ after.delta[pos] = one /\ \A i \in 1..n : i # pos => after.delta[i] = full.delta[i]
      <4> HIDE DEF one, after
      <4> QED BY <2>2, <2>3, <2>7 DEF ApplyIs, DelaysAre
    <3>2. DOMAIN one = {"arr", "dep", "skip"} /\ one.arr \in Int /\ one.dep \in Int
      BY <2>5, <2>6
    <3> HIDE DEF one, after
    <3> QED BY <2>2, <2>3, <3>1, <3>2 DEF ApplyIs, DelaysAre
  <2> HIDE DEF after
  <2>9. ApplyIs(after, n)
    BY <2>2, <2>3, <2>6, <2>7, <2>8, <1>1 DEF ApplyIs
  <2> QED BY <2>1, <2>9 DEF after, n
<1> QED BY <1>2, <1>3

ApplyStep(p, a, stu) == ApplySTU(tt, p.t, a, stu, ServiceBase(p.tu.startDay, net.now), net.now)
ApplyGood(h, k, a) == ApplyIs(a, h)
Applying == INSTANCE FoldLaws WITH Step <- ApplyStep, Good <- ApplyGood

\* applyTripUpdate states a delay for every position.
LEMMA UpdateIs ==
  ASSUME Loaded, NEW p, p.t \in 1..Len(tt.trips), IsUpdate(p.tu), NEW passed
  PROVE  DelaysAre(ApplyTripUpdate(tt, p.t, p.tu, passed, net.now).delta, TripLen(tt, p.t))
<1> DEFINE none == [arr |-> 0, dep |-> 0, skip |-> FALSE]
           n == TripLen(tt, p.t)
           base == [delta |-> [i \in 1..TripLen(tt, p.t) |-> none], prop |-> Or(p.tu.delay, 0), cursor |-> 1, passed |-> passed]
           stus == p.tu.stus
           day == ServiceBase(p.tu.startDay, net.now)
           applied == Applying!Folded(p, base, stus)
<1>1. n \in Nat /\ Len(stus) \in Nat /\ DOMAIN stus = 1..Len(stus)
  BY TripIs DEF IsUpdate, Listed
<1>2. day \in Int
  <2>1. net.now \in Int /\ DaySec \in Nat \ {0} /\ p.tu.startDay \in Int
    BY MessagesAssumption, TimesAssumption DEF Loaded, IsUpdate
  <2>2. net.now \div DaySec \in Int
    BY <2>1
  <2>3. \A a, b \in Int : a * b \in Int
    OBVIOUS
  <2> QED BY <2>1, <2>2, <2>3 DEF ServiceBase
<1>3. ApplyGood(n, 0, base)
  <2>1. p.tu.delay \in Int
    BY DEF IsUpdate
  <2> QED BY <2>1, AbsentAssumption DEF ApplyGood, ApplyIs, DelaysAre, Or
<1>4. ASSUME NEW k \in 1..Len(stus), NEW a, ApplyGood(n, k - 1, a)
      PROVE  ApplyGood(n, k, ApplyStep(p, a, stus[k]))
  <2> DEFINE stu == stus[k]
  <2>1. {stu.arrDelay, stu.depDelay, stu.arrTime, stu.depTime} \in SUBSET Int
    BY DEF IsUpdate
  <2> HIDE DEF stu, day
  <2>2. ApplyIs(ApplySTU(tt, p.t, a, stu, day, net.now), n)
    BY <1>2, <1>4, <2>1, ApplyOne DEF ApplyGood
  <2> QED BY <2>2 DEF ApplyStep, ApplyGood, stu, day
<1>5. ApplyIs(applied, n)
  <2> HIDE DEF base, n, stus
  <2>1. ApplyGood(n, Len(stus), Applying!Folded(p, base, stus))
    BY <1>1, <1>3, <1>4, Applying!FoldKeeps, NatsFrom
  <2> QED BY <2>1 DEF ApplyGood
<1>6. ApplyTripUpdate(tt, p.t, p.tu, passed, net.now) = FillTo(applied, TripLen(tt, p.t) + 1)
  BY DEF ApplyTripUpdate, ApplyStep, Applying!Folded,
         FoldLeft, MapThenFoldSet, Max, Applying!Largest
<1> HIDE DEF applied, n
<1>7. ApplyIs(FillTo(applied, TripLen(tt, p.t) + 1), n)
  BY <1>1, <1>5, FillIs
<1> QED BY <1>6, <1>7 DEF ApplyIs, n

\* An overlay states for every trip nothing, or delays at all its positions.
OverlayFields == {"delta", "skip", "hasRT", "passed", "vehPos", "vehTime"}
OverlayIs(o) ==
  /\ DOMAIN o = OverlayFields /\ DOMAIN o.delta = 1..Len(tt.trips)
  /\ \A t \in 1..Len(tt.trips) : o.delta[t] = <<>> \/ DelaysAre(o.delta[t], TripLen(tt, t))

\* TripIdx finds a trip, or none.
LEMMA TripIdxIs ==
  ASSUME Loaded, NEW key, TripIdx(tt, key) # 0
  PROVE  TripIdx(tt, key) \in 1..Len(tt.trips)
<1> DEFINE I == {i \in 1..Len(tt.trips) : tt.trips[i].key = key}
<1>1. TripIdx(tt, key) = IF I # {} THEN Min(I) ELSE 0
  BY DEF TripIdx, SelectInSeq
<1>2. Len(tt.trips) \in Nat
  BY TimetablesAssumption DEF Loaded, tt, IsCompiled
<1>3. I \in SUBSET Nat /\ I \in SUBSET (1..Len(tt.trips))
  BY <1>2
<1> HIDE DEF I
<1> QED BY <1>1, <1>3, MinIs

\* One trip update, one vehicle.
LEMMA AddTripIs ==
  ASSUME Loaded, NEW o, OverlayIs(o), NEW msg, NEW tu, IsUpdate(tu)
  PROVE  OverlayIs(AddTrip(tt, o, msg, tu, net.now))
<1> DEFINE t == TripIdx(tt, <<msg.feed, tu.trip>>)
           p == [t |-> t, tu |-> tu]
           applied == ApplyTripUpdate(tt, p.t, p.tu, o.passed[t], net.now)
<1>1. AddTrip(tt, o, msg, tu, net.now) =
        IF t = 0 THEN o
        ELSE IF tu.cancelled THEN [o EXCEPT !.hasRT[t] = TRUE, !.skip[t] = TRUE]
        ELSE IF o.delta[t] # <<>> THEN [o EXCEPT !.hasRT[t] = TRUE]
        ELSE Deltas(o, t, applied)
  BY DEF AddTrip
<1>2. t # 0 => t \in 1..Len(tt.trips)
  BY TripIdxIs
<1>3. t # 0 => DelaysAre(applied.delta, TripLen(tt, t))
  <2> SUFFICES ASSUME t # 0 PROVE DelaysAre(applied.delta, TripLen(tt, t))
    OBVIOUS
  <2>1. p.t = t /\ p.tu = tu
    OBVIOUS
  <2> HIDE DEF p, t
  <2>2. DelaysAre(applied.delta, TripLen(tt, p.t))
    BY <1>2, <2>1, UpdateIs
  <2> QED BY <2>1, <2>2
<1> HIDE DEF applied, t, p
<1>4. OverlayIs([o EXCEPT !.hasRT[t] = TRUE, !.skip[t] = TRUE]) /\ OverlayIs([o EXCEPT !.hasRT[t] = TRUE])
  BY DEF OverlayIs, OverlayFields
<1>5. t # 0 => OverlayIs(Deltas(o, t, applied))
  <2> SUFFICES ASSUME t # 0 PROVE OverlayIs(Deltas(o, t, applied))
    OBVIOUS
  <2> DEFINE after == Deltas(o, t, applied)
  <2>1. DOMAIN after = OverlayFields /\ after.delta = [o.delta EXCEPT ![t] = applied.delta]
    BY DEF Deltas, OverlayIs, OverlayFields
  <2> HIDE DEF after
  <2>2. OverlayIs(after)
    BY <1>2, <1>3, <2>1 DEF OverlayIs
  <2> QED BY <2>2 DEF after
<1> QED BY <1>1, <1>4, <1>5

\* A vehicle states no delays.
LEMMA AddVehicleIs ==
  ASSUME NEW o, OverlayIs(o), NEW msg, NEW v
  PROVE  OverlayIs(AddVehicle(tt, o, msg, v))
<1> DEFINE a == AddVehicle(tt, o, msg, v)
<1>1. DOMAIN a = DOMAIN o /\ a.delta = o.delta
  BY DEF AddVehicle, OverlayIs, OverlayFields
<1> HIDE DEF a
<1>2. OverlayIs(a)
  BY <1>1 DEF OverlayIs
<1> QED BY <1>2 DEF a

TripsStep(p, o, tu) == AddTrip(tt, o, p, tu, net.now)
VehiclesStep(p, o, v) == AddVehicle(tt, o, p, v)
OverlayGood(h, k, o) == OverlayIs(o)
TripByTrip == INSTANCE FoldLaws WITH Step <- TripsStep, Good <- OverlayGood
VehicleByVehicle == INSTANCE FoldLaws WITH Step <- VehiclesStep, Good <- OverlayGood

TripsAdded(msg, o) == FoldLeft(LAMBDA x, tu : AddTrip(tt, x, msg, tu, net.now), o, msg.trips)
VehiclesAdded(msg, o) == FoldLeft(LAMBDA x, v : AddVehicle(tt, x, msg, v), o, msg.vehicles)
MessageStep(p, o, msg) == 
  FoldLeft(LAMBDA x, v : AddVehicle(tt, x, msg, v),
           FoldLeft(LAMBDA x, tu : AddTrip(tt, x, msg, tu, net.now), o, msg.trips), msg.vehicles)
MessageByMessage == INSTANCE FoldLaws WITH Step <- MessageStep, Good <- OverlayGood

\* All trip updates of a message, all its vehicles.
LEMMA TripsAre ==
  ASSUME Loaded, NEW o, OverlayIs(o), NEW msg, Listed(msg.trips), \A i \in 1..Len(msg.trips) : IsUpdate(msg.trips[i])
  PROVE  OverlayIs(TripsAdded(msg, o))
<1>1. OverlayGood(0, 0, o)
  BY DEF OverlayGood
<1>2. ASSUME NEW k \in 1..Len(msg.trips), NEW x, OverlayGood(0, k - 1, x)
      PROVE  OverlayGood(0, k, TripsStep(msg, x, msg.trips[k]))
  BY <1>2, AddTripIs DEF OverlayGood, TripsStep
<1>3. OverlayGood(0, Len(msg.trips), TripByTrip!Folded(msg, o, msg.trips))
  BY <1>1, <1>2, TripByTrip!FoldKeeps, NatsFrom DEF Listed
<1>4. TripsAdded(msg, o) = TripByTrip!Folded(msg, o, msg.trips)
  BY DEF TripsAdded, TripsStep, TripByTrip!Folded,
         FoldLeft, MapThenFoldSet, Max, TripByTrip!Largest
<1> QED BY <1>3, <1>4 DEF OverlayGood

\* The vehicles leave the delays as they are.
LEMMA VehiclesAre ==
  ASSUME NEW o, OverlayIs(o), NEW msg, Listed(msg.vehicles)
  PROVE  OverlayIs(VehiclesAdded(msg, o))
<1>1. OverlayGood(0, 0, o)
  BY DEF OverlayGood
<1>2. ASSUME NEW k \in 1..Len(msg.vehicles), NEW x, OverlayGood(0, k - 1, x)
      PROVE  OverlayGood(0, k, VehiclesStep(msg, x, msg.vehicles[k]))
  BY <1>2, AddVehicleIs DEF OverlayGood, VehiclesStep
<1>3. OverlayGood(0, Len(msg.vehicles), VehicleByVehicle!Folded(msg, o, msg.vehicles))
  BY <1>1, <1>2, VehicleByVehicle!FoldKeeps, NatsFrom DEF Listed
<1>4. VehiclesAdded(msg, o) = VehicleByVehicle!Folded(msg, o, msg.vehicles)
  BY DEF VehiclesAdded, VehiclesStep, VehicleByVehicle!Folded,
         FoldLeft, MapThenFoldSet, Max, VehicleByVehicle!Largest
<1> QED BY <1>3, <1>4 DEF OverlayGood

\* The whole projection.
LEMMA BuiltIs ==
  ASSUME Loaded, NEW messages \in net.messages
  PROVE  OverlayIs(BuildOverlay(tt, messages, net.now))
<1>1. AreMessages(messages)
  BY MessagesAssumption DEF Loaded
<1>2. OverlayGood(0, 0, NoOverlay(tt))
  BY DEF OverlayGood, OverlayIs, OverlayFields, NoOverlay
<1>3. ASSUME NEW k \in 1..Len(messages), NEW x, OverlayGood(0, k - 1, x)
      PROVE  OverlayGood(0, k, MessageStep(0, x, messages[k]))
  <2> DEFINE msg == messages[k]
  <2>1. Listed(msg.trips) /\ Listed(msg.vehicles) /\ \A i \in 1..Len(msg.trips) : IsUpdate(msg.trips[i])
    BY <1>1 DEF AreMessages
  <2> HIDE DEF msg
  <2>2. OverlayIs(TripsAdded(msg, x))
    BY <1>3, <2>1, TripsAre DEF OverlayGood
  <2>3. OverlayIs(VehiclesAdded(msg, TripsAdded(msg, x)))
    BY <2>1, <2>2, VehiclesAre
  <2>4. MessageStep(0, x, msg) = VehiclesAdded(msg, TripsAdded(msg, x))
    BY DEF MessageStep, VehiclesAdded, TripsAdded
  <2> QED BY <2>3, <2>4 DEF OverlayGood, msg
<1>4. OverlayGood(0, Len(messages), MessageByMessage!Folded(0, NoOverlay(tt), messages))
  BY <1>1, <1>2, <1>3, MessageByMessage!FoldKeeps, NatsFrom DEF AreMessages, Listed
<1>5. BuildOverlay(tt, messages, net.now) = MessageByMessage!Folded(0, NoOverlay(tt), messages)
  BY DEF BuildOverlay, MessageStep, MessageByMessage!Folded,
         FoldLeft, MapThenFoldSet, Max, MessageByMessage!Largest
<1> QED BY <1>4, <1>5 DEF OverlayGood

-----------------------------------------------------------------------------
(* The overlay says what was heard                                         *)

\* The positions after one that a stop time update may name.
LaterNamed(t, stu, after) ==
  {p \in (after + 1)..TripLen(tt, t) : IF stu.seq # Absent THEN tt.trips[t].seq[p] = stu.seq
                                       ELSE tt.trips[t].stops[p] = stu.stop}

NameStep(p, after, i) ==
  LET later == LaterNamed(p.t, p.stus[i], after)
  IN  IF (i > 1 /\ after = 0) \/ later = {} THEN 0 ELSE CHOOSE x \in later : \A y \in later : x <= y
NameGood(h, k, x) == x \in Nat
Naming == INSTANCE FoldLaws WITH Step <- NameStep, Good <- NameGood

\* Updates in order name the next position each.
LEMMA NamedIs ==
  ASSUME Loaded, NEW p, p.t \in 1..Len(tt.trips), Listed(p.stus), InOrder(tt, p.t, p.stus),
         NEW k \in 1..Len(p.stus)
  PROVE  LET at    == Named(tt, p.t, p.stus)
             later == LaterNamed(p.t, p.stus[k], IF k = 1 THEN 0 ELSE at[k - 1])
         IN  at[k] \in later /\ \A x \in later : at[k] <= x
<1> DEFINE n == Len(p.stus)
           F == Naming!Path(p, 0, n)
           at == Named(tt, p.t, p.stus)
<1>1. n \in Nat
  BY DEF Listed
<1>2. at = [i \in 1..n |-> F[i]]
  BY DEF Named, Naming!Path, NameStep, LaterNamed
<1>3. \A i \in 0..n : F[i] = IF i = 0 THEN 0 ELSE NameStep(p, F[i - 1], i)
  <2> HIDE DEF n
  <2> QED BY <1>1, Naming!PathIs, NatsFrom DEF Naming!Induction
<1>4. at[k] # 0
  BY DEF InOrder
<1> HIDE DEF F, at
<1> DEFINE prev == F[k - 1]
           later == LaterNamed(p.t, p.stus[k], prev)
<1>5. at[k] = F[k] /\ prev = (IF k = 1 THEN 0 ELSE at[k - 1])
  <2>1. k \in 1..n /\ k \in 0..n /\ (k # 1 => k - 1 \in 1..n)
    BY <1>1
  <2>2. F[0] = 0
    <3>1. 0 \in 0..n
      BY <1>1
    <3> QED BY <1>3, <3>1
  <2> HIDE DEF n
  <2> QED BY <1>2, <2>1, <2>2
<1>6. F[k] = NameStep(p, prev, k)
  <2>1. k \in 0..n /\ k # 0
    BY <1>1
  <2> HIDE DEF n
  <2> QED BY <1>3, <2>1
<1>7. later # {} /\ F[k] = CHOOSE x \in later : \A y \in later : x <= y
  <2> HIDE DEF prev, n
  <2> QED BY <1>4, <1>5, <1>6 DEF NameStep
<1>8. later \in SUBSET Nat
  <2>1. ASSUME NEW i \in 1..n, NEW after, NameGood(0, i - 1, after) PROVE NameGood(0, i, NameStep(p, after, i))
    <3> DEFINE ahead == LaterNamed(p.t, p.stus[i], after)
    <3>1. ahead \in SUBSET Nat
      BY <2>1 DEF LaterNamed, NameGood
    <3>2. ahead # {} => (CHOOSE x \in ahead : \A y \in ahead : x <= y) \in Nat
      <4> HIDE DEF ahead
      <4> QED BY <3>1, LeastExists
    <3> QED BY <3>2 DEF NameStep, NameGood
  <2>2. NameGood(0, 0, 0)
    BY DEF NameGood
  <2>3. \A i \in 0..n : NameGood(0, i, Naming!Path(p, 0, n)[i])
    <3> HIDE DEF n
    <3> QED BY <1>1, <2>1, <2>2, Naming!PathKeeps, NatsFrom
  <2>4. prev \in Nat
    <3>1. k - 1 \in 0..n
      BY <1>1
    <3> QED BY <2>3, <3>1 DEF NameGood, F
  <2> HIDE DEF prev
  <2> QED BY <2>4 DEF LaterNamed
<1>9. F[k] \in later /\ \A x \in later : F[k] <= x
  <2> HIDE DEF later
  <2> QED BY <1>7, <1>8, LeastExists
<1> HIDE DEF later
<1> QED BY <1>5, <1>9 DEF later, at

\* The position named is the one matched, when matching goes on after the last one.
LEMMA MatchNamed ==
  ASSUME Loaded, NEW t \in 1..Len(tt.trips), NEW stu, NEW after \in Nat,
         NEW pos \in LaterNamed(t, stu, after), \A x \in LaterNamed(t, stu, after) : pos <= x
  PROVE  /\ MatchSTU(tt, t, stu, after + 1) = pos /\ pos \in 1..TripLen(tt, t) /\ pos > after
<1> DEFINE trip == tt.trips[t]
           n == TripLen(tt, t)
           I == {i \in 1..Len(trip.seq) : trip.seq[i] = stu.seq}
           at == {p \in (after + 1)..n : PatternStops(tt, t)[p] = stu.stop}
<1>1. n \in Nat /\ Len(trip.seq) = n /\ Len(trip.stops) = n
  BY TripIs
<1>2. /\ \A i, j \in 1..Len(trip.stops) : trip.seq[i] = trip.seq[j] => i = j
      /\ PatternStops(tt, t) = trip.stops
  <2>1. IsCompiled(tt)
    BY TimetablesAssumption DEF Loaded, tt
  <2>2. \A i, j \in 1..Len(trip.stops) : trip.seq[i] = trip.seq[j] => i = j
    BY <2>1 DEF IsCompiled
  <2>3. \E p \in 1..Len(tt.pats) : t \in tt.pats[p].lo..tt.pats[p].hi
    BY <2>1 DEF IsCompiled
  <2>4. PatternOfTrip(tt, t) \in 1..Len(tt.pats) /\ t \in tt.pats[PatternOfTrip(tt, t)].lo..tt.pats[PatternOfTrip(tt, t)].hi
    BY <2>3 DEF PatternOfTrip
  <2>5. tt.trips[t].stops = tt.pats[PatternOfTrip(tt, t)].stops
    BY <2>1, <2>4 DEF IsCompiled
  <2> QED BY <2>2, <2>5 DEF PatternStops
<1>3. TripSeqPos(tt, t, stu.seq) = IF I # {} THEN Min(I) ELSE 0
  BY DEF TripSeqPos, SelectInSeq
<1>4. pos \in 1..n /\ pos > after
  BY <1>1 DEF LaterNamed
<1>5. MatchSTU(tt, t, stu, after + 1) = IF stu.seq # Absent /\ TripSeqPos(tt, t, stu.seq) # 0 THEN TripSeqPos(tt, t, stu.seq)
                                        ELSE IF at = {} THEN 0 ELSE CHOOSE p \in at : \A x \in at : p <= x
  BY DEF MatchSTU
<1>6. CASE stu.seq # Absent
  <2>1. pos \in I
    BY <1>1, <1>4, <1>6 DEF LaterNamed
  <2>2. \A i \in I : i = pos
    BY <1>1, <1>2, <2>1
  <2>3. I \in SUBSET Nat
    BY <1>1
  <2> HIDE DEF I
  <2>4. Min(I) = pos
    BY <2>1, <2>2, <2>3, MinIs
  <2> QED BY <1>3, <1>4, <1>5, <1>6, <2>1, <2>4
<1>7. CASE stu.seq = Absent
  <2>1. at = LaterNamed(t, stu, after)
    BY <1>2, <1>7 DEF LaterNamed
  <2>2. at \in SUBSET Nat
    BY <1>1
  <2> HIDE DEF at
  <2>3. pos \in at /\ \A x \in at : pos <= x
    BY <2>1
  <2>4. \A x \in at : (\A y \in at : x <= y) => x = pos
    BY <2>2, <2>3
  <2>5. (CHOOSE p \in at : \A x \in at : p <= x) = pos
    BY <2>3, <2>4
  <2> QED BY <1>4, <1>5, <1>7, <2>3, <2>5
<1> QED BY <1>6, <1>7

\* An update of a trip, and what is known of it.  h: [t, tu, n, at, base]
Stated(h, i) ==
  LET stu == h.tu.stus[i]
      arr == StuDelta(stu.arrDelay, stu.arrTime, h.base + tt.trips[h.t].arr[h.at[i]])
  IN  Or(StuDelta(stu.depDelay, stu.depTime, h.base + tt.trips[h.t].dep[h.at[i]]), arr)

\* The last delay that some of its parts state.
Latest(h, S) ==
  LET stating == {i \in S : Stated(h, i) # Absent}
  IN  IF stating = {} THEN Or(h.tu.delay, 0) ELSE Stated(h, CHOOSE i \in stating : \A j \in stating : j <= i)

\* One more part.
LEMMA LatestAdded ==
  ASSUME NEW h, NEW k \in Nat \ {0}, NEW S, \A i \in S : i \in 1..(k - 1)
  PROVE  Latest(h, S \cup {k}) = IF Stated(h, k) # Absent THEN Stated(h, k) ELSE Latest(h, S)
<1> DEFINE T == S \cup {k}
           had == {i \in S : Stated(h, i) # Absent}
           stating == {i \in T : Stated(h, i) # Absent}
<1>1. CASE Stated(h, k) # Absent
  <2>1. k \in stating /\ \A j \in stating : j \in Nat /\ j <= k
    BY <1>1
  <2> HIDE DEF stating
  <2>2. \A i \in stating : (\A j \in stating : j <= i) => i = k
    BY <2>1
  <2>3. (CHOOSE i \in stating : \A j \in stating : j <= i) = k
    BY <2>1, <2>2
  <2>4. stating # {}
    BY <2>1
  <2> QED BY <1>1, <2>3, <2>4 DEF Latest, stating
<1>2. CASE Stated(h, k) = Absent
  <2>1. stating = had
    BY <1>2
  <2>2. /\ Latest(h, T) = IF stating = {} THEN Or(h.tu.delay, 0) ELSE Stated(h, CHOOSE i \in stating : \A j \in stating : j <= i)
        /\ Latest(h, S) = IF had = {} THEN Or(h.tu.delay, 0) ELSE Stated(h, CHOOSE i \in had : \A j \in had : j <= i)
    BY DEF Latest
  <2> HIDE DEF stating, had
  <2> QED BY <1>2, <2>1, <2>2
<1> QED BY <1>1, <1>2

\* What is fixed while an update is applied.
UpdateOf(h) ==
  /\ h.t \in 1..Len(tt.trips) /\ IsUpdate(h.tu) /\ InOrder(tt, h.t, h.tu.stus)
  /\ h.n = TripLen(tt, h.t) /\ h.at = Named(tt, h.t, h.tu.stus)
  /\ h.base = ServiceBase(h.tu.startDay, net.now) /\ h.base \in Int

\* The parts that name a position up to pos, of the first k.
PartsTo(h, k, pos) == {i \in 1..k : h.at[i] <= pos}

\* After k of its parts: the cursor is behind the last named position, the running
\* delay is the last stated, and each position before has the one in force there.
OrderGood(h, k, a) ==
  /\ ApplyIs(a, h.n) /\ a.cursor = (IF k = 0 THEN 1 ELSE h.at[k] + 1)
  /\ \A i \in 1..k : h.at[i] \in Nat /\ h.at[i] < a.cursor
  /\ a.prop = Latest(h, 1..k)
  /\ \A pos \in 1..h.n : pos < a.cursor => a.delta[pos].dep = Latest(h, PartsTo(h, k, pos))
InTurn == INSTANCE FoldLaws WITH Step <- ApplyStep, Good <- OrderGood

\* The next part.
LEMMA NextPart ==
  ASSUME Loaded, NEW h, UpdateOf(h), NEW k \in 1..Len(h.tu.stus), NEW a, OrderGood(h, k - 1, a)
  PROVE  OrderGood(h, k, ApplyStep(h, a, h.tu.stus[k]))
<1> DEFINE stu == h.tu.stus[k]
           pos == h.at[k]
           after == IF k = 1 THEN 0 ELSE h.at[k - 1]
           full == FillTo(a, pos)
           arr == Or(StuDelta(stu.arrDelay, stu.arrTime, h.base + tt.trips[h.t].arr[pos]), full.prop)
           dep == Or(StuDelta(stu.depDelay, stu.depTime, h.base + tt.trips[h.t].dep[pos]), arr)
           evt == EventTime(tt, h.t, pos, stu, dep, h.base)
           b == SetAt(full, pos, stu, arr, dep, evt, net.now)
<1>0. Listed(h.tu.stus) /\ Len(h.tu.stus) \in Nat /\ k \in Nat /\ k - 1 \in Nat
  BY DEF UpdateOf, IsUpdate, Listed
<1>1. pos \in LaterNamed(h.t, stu, after) /\ \A x \in LaterNamed(h.t, stu, after) : pos <= x
  <2> DEFINE p == [t |-> h.t, stus |-> h.tu.stus]
  <2>1. p.t = h.t /\ p.stus = h.tu.stus
    OBVIOUS
  <2> HIDE DEF p
  <2>2. p.t \in 1..Len(tt.trips) /\ Listed(p.stus) /\ InOrder(tt, p.t, p.stus)
    BY <1>0, <2>1 DEF UpdateOf
  <2>3. LET at    == Named(tt, p.t, p.stus)
            later == LaterNamed(p.t, p.stus[k], IF k = 1 THEN 0 ELSE at[k - 1])
        IN  at[k] \in later /\ \A x \in later : at[k] <= x
    BY <2>1, <2>2, NamedIs
  <2> QED BY <2>1, <2>3 DEF UpdateOf
<1>2. after \in Nat /\ a.cursor = after + 1
  <2>1. CASE k = 1
    BY <2>1 DEF OrderGood
  <2>2. CASE k # 1
    <3>1. k - 1 # 0 /\ k - 1 \in 1..(k - 1)
      BY <1>0, <2>2
    <3> QED BY <2>2, <3>1 DEF OrderGood
  <2> QED BY <2>1, <2>2
<1>3. MatchSTU(tt, h.t, stu, a.cursor) = pos /\ pos \in 1..h.n /\ pos > after
  <2> HIDE DEF pos, after, stu
  <2> QED BY <1>1, <1>2, MatchNamed DEF UpdateOf
<1>4. ApplyStep(h, a, stu) = b
  <2>1. pos # 0
    BY <1>2, <1>3
  <2> QED BY <1>3, <2>1 DEF ApplyStep, ApplySTU, UpdateOf
<1>5. ApplyIs(b, h.n)
  <2>1. {stu.arrDelay, stu.depDelay, stu.arrTime, stu.depTime} \in SUBSET Int
    BY DEF UpdateOf, IsUpdate
  <2> HIDE DEF stu
  <2>2. ApplyIs(ApplySTU(tt, h.t, a, stu, h.base, net.now), TripLen(tt, h.t))
    BY <2>1, ApplyOne DEF OrderGood, UpdateOf
  <2> QED BY Zenon, <1>4, <2>2 DEF ApplyStep, UpdateOf
<1>6. full.prop = a.prop /\ DOMAIN full = DOMAIN a /\ DOMAIN full.delta = 1..h.n
  BY DEF FillTo, OrderGood, ApplyIs, DelaysAre
<1>7. ASSUME NEW x \in 1..h.n
      PROVE  full.delta[x].dep = IF x \in a.cursor..(pos - 1) THEN a.prop ELSE a.delta[x].dep
  BY Zenon DEF FillTo, OrderGood, ApplyIs, DelaysAre
<1>8. /\ b.cursor = pos + 1 /\ b.prop = dep
      /\ b.delta[pos].dep = dep /\ \A x \in 1..h.n : x # pos => b.delta[x] = full.delta[x]
  <2> HIDE DEF full, pos, arr, dep, evt, stu
  <2> QED BY <1>3, <1>6 DEF SetAt, OrderGood, ApplyIs
<1>9. dep = IF Stated(h, k) # Absent THEN Stated(h, k) ELSE a.prop
  <2> DEFINE ad == StuDelta(stu.arrDelay, stu.arrTime, h.base + tt.trips[h.t].arr[pos])
             dd == StuDelta(stu.depDelay, stu.depTime, h.base + tt.trips[h.t].dep[pos])
  <2>1. Stated(h, k) = Or(dd, ad)
    BY DEF Stated
  <2>2. dep = Or(dd, Or(ad, a.prop))
    BY <1>6
  <2> HIDE DEF ad, dd, dep
  <2> QED BY <2>1, <2>2 DEF Or
<1> HIDE DEF b, full, arr, dep, evt
<1>10. \A i \in 1..k : h.at[i] \in Nat /\ h.at[i] <= pos /\ (i # k => h.at[i] < a.cursor)
  <2>1. \A i \in 1..(k - 1) : h.at[i] \in Nat /\ h.at[i] < a.cursor
    BY DEF OrderGood
  <2>2. h.n \in Nat
    BY TripIs DEF UpdateOf
  <2>3. ASSUME NEW i \in 1..k PROVE i = k \/ i \in 1..(k - 1)
    BY <1>0
  <2> QED BY <1>2, <1>3, <2>1, <2>2, <2>3
<1>11. 1..k = (1..(k - 1)) \cup {k}
  BY <1>0
<1>12. dep = Latest(h, 1..k)
  <2>1. Latest(h, (1..(k - 1)) \cup {k}) = IF Stated(h, k) # Absent THEN Stated(h, k) ELSE Latest(h, 1..(k - 1))
    <3> DEFINE S == 1..(k - 1)
    <3>1. k \in Nat \ {0} /\ \A i \in S : i \in 1..(k - 1)
      BY <1>0
    <3> HIDE DEF S
    <3>2. Latest(h, S \cup {k}) = IF Stated(h, k) # Absent THEN Stated(h, k) ELSE Latest(h, S)
      BY <3>1, LatestAdded
    <3> QED BY <3>2 DEF S
  <2> QED BY <1>9, <1>11, <2>1 DEF OrderGood
<1>13. ASSUME NEW x \in 1..h.n, x < b.cursor
       PROVE  b.delta[x].dep = Latest(h, PartsTo(h, k, x))
  <2>n. h.n \in Nat
    BY TripIs DEF UpdateOf
  <2>p. pos \in Nat
    BY <1>0, <1>10
  <2>0. x \in Nat /\ pos \in Nat /\ h.n \in Nat
    <3> HIDE DEF pos
    <3> QED BY <2>n, <2>p
  <2>1. CASE x = pos
    <3>1. PartsTo(h, k, x) = 1..k
      BY <1>10, <2>1 DEF PartsTo
    <3> QED BY <1>8, <1>12, <2>1, <3>1
  <2>2. CASE x # pos
    <3>1. x < pos
      BY <1>8, <1>13, <2>0, <2>2
    <3>2. PartsTo(h, k, x) = PartsTo(h, k - 1, x)
      <4>1. \A i : i \in 1..k <=> i \in 1..(k - 1) \/ i = k
        BY <1>11
      <4>2. ~(h.at[k] <= x)
        BY <2>0, <3>1
      <4> HIDE DEF pos
      <4> QED BY <4>1, <4>2 DEF PartsTo
    <3>3. CASE x < a.cursor
      <4>1. b.delta[x].dep = a.delta[x].dep
        BY <1>2, <1>7, <1>8, <2>0, <2>2, <3>3
      <4>2. a.delta[x].dep = Latest(h, PartsTo(h, k - 1, x))
        BY <3>3 DEF OrderGood
      <4> QED BY <3>2, <4>1, <4>2
    <3>4. CASE ~(x < a.cursor)
      <4>1. b.delta[x].dep = a.prop
        BY <1>2, <1>7, <1>8, <2>0, <2>2, <3>1, <3>4
      <4>2. PartsTo(h, k - 1, x) = 1..(k - 1)
        <5>1. \A i \in 1..(k - 1) : h.at[i] \in Nat /\ h.at[i] < a.cursor
          BY DEF OrderGood
        <5> QED BY <1>2, <2>0, <3>4, <5>1 DEF PartsTo
      <4> QED BY <3>2, <4>1, <4>2 DEF OrderGood
    <3> QED BY <3>3, <3>4
  <2> QED BY <2>1, <2>2
<1>14. OrderGood(h, k, b)
  <2>1. b.cursor = (IF k = 0 THEN 1 ELSE h.at[k] + 1)
    BY <1>0, <1>8
  <2>2. \A i \in 1..k : h.at[i] \in Nat /\ h.at[i] < b.cursor
    BY <1>8, <1>10
  <2> HIDE DEF pos
  <2> QED BY <1>5, <1>8, <1>12, <1>13, <2>1, <2>2 DEF OrderGood
<1> QED BY <1>4, <1>14

\* applyTripUpdate: "a StopTimeUpdate's delay holds from its stop onward until the
\* next update" (overlay.go:129).
LEMMA UpdateFaithful ==
  ASSUME Loaded, NEW t \in 1..Len(tt.trips), NEW tu, IsUpdate(tu), InOrder(tt, t, tu.stus), NEW passed,
         NEW pos \in 1..TripLen(tt, t)
  PROVE  ApplyTripUpdate(tt, t, tu, passed, net.now).delta[pos].dep
           = DelayAt(tt, t, tu, pos, ServiceBase(tu.startDay, net.now))
<1> DEFINE n == TripLen(tt, t)
           h == [t |-> t, tu |-> tu, n |-> n, at |-> Named(tt, t, tu.stus), base |-> ServiceBase(tu.startDay, net.now)]
           none == [arr |-> 0, dep |-> 0, skip |-> FALSE]
           start == [delta |-> [i \in 1..TripLen(tt, t) |-> none], prop |-> Or(tu.delay, 0), cursor |-> 1, passed |-> passed]
           stus == tu.stus
           applied == InTurn!Folded(h, start, stus)
           len == Len(stus)
<1>1. n \in Nat /\ len \in Nat /\ DOMAIN stus = 1..len
  BY TripIs DEF IsUpdate, Listed
<1>2. h.t = t /\ h.tu = tu /\ h.n = n /\ h.at = Named(tt, t, tu.stus) /\ h.base = ServiceBase(tu.startDay, net.now)
  OBVIOUS
<1>3. UpdateOf(h)
  <2>1. net.now \in Int /\ DaySec \in Nat \ {0} /\ tu.startDay \in Int
    BY MessagesAssumption, TimesAssumption DEF Loaded, IsUpdate
  <2>2. net.now \div DaySec \in Int
    BY <2>1
  <2>3. \A a, b \in Int : a * b \in Int
    OBVIOUS
  <2>4. ServiceBase(tu.startDay, net.now) \in Int
    BY <2>1, <2>2, <2>3 DEF ServiceBase
  <2> HIDE DEF h
  <2> QED BY <1>2, <2>4 DEF UpdateOf
<1>4. OrderGood(h, 0, start)
  <2>1. ApplyIs(start, n)
    <3>1. tu.delay \in Int
      BY DEF IsUpdate
    <3> QED BY <3>1, AbsentAssumption DEF ApplyIs, DelaysAre, Or
  <2>2. start.prop = Latest(h, 1..0)
    <3>1. 1..0 = {}
      OBVIOUS
    <3>2. {i \in 1..0 : Stated(h, i) # Absent} = {}
      BY <3>1
    <3> HIDE DEF h
    <3> QED BY <1>2, <3>2 DEF Latest
  <2>3. start.cursor = 1
    OBVIOUS
  <2> HIDE DEF h, start
  <2> QED BY <1>1, <1>2, <2>1, <2>2, <2>3 DEF OrderGood
<1> HIDE DEF h, start
<1>5. ASSUME NEW k \in 1..len, NEW a, OrderGood(h, k - 1, a) PROVE OrderGood(h, k, ApplyStep(h, a, stus[k]))
  BY <1>2, <1>3, <1>5, NextPart
<1>6. OrderGood(h, len, applied)
  <2> HIDE DEF stus, len
  <2> QED BY <1>1, <1>4, <1>5, InTurn!FoldKeeps, NatsFrom
<1>7. ApplyTripUpdate(tt, t, tu, passed, net.now) = FillTo(applied, n + 1)
  BY <1>2 DEF ApplyTripUpdate, ApplyStep, InTurn!Folded, FoldLeft, MapThenFoldSet, Max, InTurn!Largest, start
<1> HIDE DEF applied
<1>8. FillTo(applied, n + 1).delta[pos].dep = IF pos < applied.cursor THEN applied.delta[pos].dep ELSE applied.prop
  <2> DEFINE d == [i \in DOMAIN applied.delta |-> IF i \in applied.cursor..((n + 1) - 1)
                                                THEN [applied.delta[i] EXCEPT !.arr = applied.prop, !.dep = applied.prop]
                                                ELSE applied.delta[i]]
  <2>1. DOMAIN applied = {"delta", "prop", "cursor", "passed"} /\ DOMAIN applied.delta = 1..n
    BY <1>2, <1>6 DEF OrderGood, ApplyIs, DelaysAre
  <2>2. applied.cursor \in Nat /\ DOMAIN applied.delta[pos] = {"arr", "dep", "skip"}
    BY <1>2, <1>6 DEF OrderGood, ApplyIs, DelaysAre
  <2>3. pos \in 1..n /\ (pos \in applied.cursor..((n + 1) - 1) <=> ~(pos < applied.cursor))
    BY <1>1, <2>2
  <2>4. FillTo(applied, n + 1) = [applied EXCEPT !.delta = d]
    BY DEF FillTo
  <2> HIDE DEF n
  <2>5. d[pos] = IF pos < applied.cursor THEN applied.delta[pos]
                 ELSE [applied.delta[pos] EXCEPT !.arr = applied.prop, !.dep = applied.prop]
    BY <2>1, <2>3
  <2>6. d[pos].dep = IF pos < applied.cursor THEN applied.delta[pos].dep ELSE applied.prop
    <3> HIDE DEF d
    <3> QED BY <2>2, <2>5
  <2> HIDE DEF d
  <2> QED BY <2>1, <2>4, <2>6
<1>9. FillTo(applied, n + 1).delta[pos].dep = Latest(h, PartsTo(h, len, pos))
  <2>1. CASE pos < applied.cursor
    BY <1>2, <1>6, <1>8, <2>1 DEF OrderGood
  <2>2. CASE ~(pos < applied.cursor)
    <3>1. \A i \in 1..len : h.at[i] \in Nat /\ h.at[i] < applied.cursor
      BY <1>6 DEF OrderGood
    <3>2. applied.cursor \in Nat /\ pos \in Nat
      BY <1>1, <1>6 DEF OrderGood, ApplyIs
    <3>3. PartsTo(h, len, pos) = 1..len
      BY <2>2, <3>1, <3>2 DEF PartsTo
    <3> QED BY <1>6, <1>8, <2>2, <3>3 DEF OrderGood
  <2> QED BY <2>1, <2>2
<1>10. DelayAt(tt, t, tu, pos, ServiceBase(tu.startDay, net.now)) = Latest(h, PartsTo(h, len, pos))
  BY <1>2 DEF DelayAt, Latest, PartsTo, Stated
<1> QED BY <1>7, <1>9, <1>10

\* What an update of a trip in order must have made of its delays.
Follows(t, tu, d) ==
  InOrder(tt, t, tu.stus) =>
    \A pos \in 1..TripLen(tt, t) : d[pos].dep = DelayAt(tt, t, tu, pos, ServiceBase(tu.startDay, net.now))

\* An overlay with all its entries.
OverlayFull(o) == OverlayIs(o) /\ DOMAIN o.skip = 1..Len(tt.trips) /\ DOMAIN o.vehTime = 1..Len(tt.trips)

\* An entity is about trip t.
About(msg, entity, t) == <<msg.feed, entity.trip>> = tt.trips[t].key

\* It finds the trip of the key.
LEMMA KeyIs ==
  ASSUME Loaded, NEW t \in 1..Len(tt.trips), NEW key
  PROVE  TripIdx(tt, key) = t <=> key = tt.trips[t].key
<1> DEFINE I == {i \in 1..Len(tt.trips) : tt.trips[i].key = key}
<1>1. TripIdx(tt, key) = IF I # {} THEN Min(I) ELSE 0
  BY DEF TripIdx, SelectInSeq
<1>2. /\ Len(tt.trips) \in Nat
      /\ \A u \in 1..Len(tt.trips) : tt.trips[u].key = tt.trips[t].key => u = t
  <2>1. IsCompiled(tt)
    BY TimetablesAssumption DEF Loaded, tt
  <2> QED BY <2>1 DEF IsCompiled
<1>3. I \in SUBSET Nat
  BY <1>2
<1>4. CASE key = tt.trips[t].key
  <2>1. t \in I /\ \A i \in I : i = t
    BY <1>2, <1>4
  <2> HIDE DEF I
  <2> QED BY <1>1, <1>3, <1>4, <2>1, MinIs
<1>5. CASE key # tt.trips[t].key
  <2>1. t \notin I /\ t # 0
    BY <1>2, <1>5
  <2> HIDE DEF I
  <2> QED BY <1>1, <1>3, <1>5, <2>1, MinIs
<1> QED BY <1>4, <1>5

\* The first k trip updates of a message.  h: [t, msg, o], o what there was before
TripsHeard(h, k, o) ==
  LET ups == {i \in UpdatesIn(tt, h.msg, h.t) : i <= k}
  IN  /\ OverlayFull(o) /\ o.vehTime = h.o.vehTime
      /\ o.skip[h.t] \in BOOLEAN
      /\ o.skip[h.t] <=> h.o.skip[h.t] \/ \E i \in 1..k : h.msg.trips[i].cancelled /\ About(h.msg, h.msg.trips[i], h.t)
      /\ ups = {} => o.delta[h.t] = h.o.delta[h.t]
      /\ h.o.delta[h.t] # <<>> => o.delta[h.t] = h.o.delta[h.t]
      /\ ups # {} => o.delta[h.t] # <<>>
      /\ h.o.delta[h.t] = <<>> =>
           \A i \in ups : (\A j \in ups : i <= j) => Follows(h.t, h.msg.trips[i], o.delta[h.t])
TripsStepOf(p, o, tu) == AddTrip(tt, o, p.msg, tu, net.now)
TripsInTurn == INSTANCE FoldLaws WITH Step <- TripsStepOf, Good <- TripsHeard

\* Those of the first k trip updates that may be applied, for what they make of the trip's delays.
Heard(h, k) == {i \in UpdatesIn(tt, h.msg, h.t) : i <= k}

\* What a trip update makes of a trip's entries.
AddsTo(o, b, msg, tu, t) ==
  /\ OverlayFull(b) /\ b.vehTime = o.vehTime
  /\ b.skip[t] = (IF About(msg, tu, t) /\ tu.cancelled THEN TRUE ELSE o.skip[t])
  /\ b.delta[t] = (IF About(msg, tu, t) /\ ~tu.cancelled /\ o.delta[t] = <<>>
                   THEN ApplyTripUpdate(tt, t, tu, o.passed[t], net.now).delta ELSE o.delta[t])

\* It cancels the trip or is applied to it, when it is about it.
LEMMA AddedTo ==
  ASSUME Loaded, NEW t \in 1..Len(tt.trips), NEW o, OverlayFull(o), NEW msg, NEW tu, IsUpdate(tu)
  PROVE  AddsTo(o, AddTrip(tt, o, msg, tu, net.now), msg, tu, t)
<1> DEFINE u == TripIdx(tt, <<msg.feed, tu.trip>>)
           b == AddTrip(tt, o, msg, tu, net.now)
           applied == ApplyTripUpdate(tt, u, tu, o.passed[u], net.now)
           d == applied.delta
           p == applied.passed
           mine == About(msg, tu, t)
<1>1. OverlayIs(b)
  BY AddTripIs DEF OverlayFull
<1>2. b = IF u = 0 THEN o
          ELSE IF tu.cancelled THEN [o EXCEPT !.hasRT[u] = TRUE, !.skip[u] = TRUE]
          ELSE IF o.delta[u] # <<>> THEN [o EXCEPT !.hasRT[u] = TRUE]
          ELSE [o EXCEPT !.hasRT[u] = TRUE, !.delta[u] = d, !.passed[u] = p]
  BY DEF AddTrip, Deltas
<1>3. u = t <=> mine
  BY KeyIs DEF About
<1>4. u = t => d = ApplyTripUpdate(tt, t, tu, o.passed[t], net.now).delta
  OBVIOUS
<1>5. DOMAIN o = OverlayFields /\ DOMAIN o.delta = 1..Len(tt.trips) /\ DOMAIN o.skip = 1..Len(tt.trips)
  BY DEF OverlayFull, OverlayIs
<1>6. t # 0
  OBVIOUS
<1> DEFINE fresh == ApplyTripUpdate(tt, t, tu, o.passed[t], net.now).delta
<1>7. b.vehTime = o.vehTime /\ DOMAIN b.skip = DOMAIN o.skip
  <2> HIDE DEF u, b, applied, d, p
  <2> QED BY <1>2, <1>5 DEF OverlayFields
<1>8. b.skip[t] = IF mine /\ tu.cancelled THEN TRUE ELSE o.skip[t]
  <2> HIDE DEF u, b, applied, d, p, mine
  <2> QED BY <1>2, <1>3, <1>5, <1>6 DEF OverlayFields
<1>9. b.delta[t] = IF mine /\ ~tu.cancelled /\ o.delta[t] = <<>> THEN fresh ELSE o.delta[t]
  <2> HIDE DEF u, b, applied, d, p, mine, fresh
  <2>1. u = t => d = fresh
    BY <1>4 DEF fresh
  <2> QED BY <1>2, <1>3, <1>5, <1>6, <2>1 DEF OverlayFields
<1>10. OverlayFull(b)
  BY <1>1, <1>5, <1>7 DEF OverlayFull
<1> QED BY <1>7, <1>8, <1>9, <1>10 DEF AddsTo

\* One more trip update is heard.
LEMMA NextTrip ==
  ASSUME Loaded, NEW h, h.t \in 1..Len(tt.trips), NEW k \in Nat \ {0}, k \in 1..Len(h.msg.trips),
         IsUpdate(h.msg.trips[k]), NEW o, TripsHeard(h, k - 1, o)
  PROVE  TripsHeard(h, k, TripsStepOf(h, o, h.msg.trips[k]))
<1> DEFINE t == h.t
           tu == h.msg.trips[k]
           b == AddTrip(tt, o, h.msg, tu, net.now)
           mine == About(h.msg, tu, t)
           called == tu.cancelled
           had == Heard(h, k - 1)
           now == Heard(h, k)
           fresh == ApplyTripUpdate(tt, t, tu, o.passed[t], net.now).delta
<1>1. /\ OverlayFull(o) /\ o.vehTime = h.o.vehTime /\ o.skip[t] \in BOOLEAN
      /\ o.skip[t] <=> h.o.skip[t] \/ \E i \in 1..(k - 1) : h.msg.trips[i].cancelled /\ About(h.msg, h.msg.trips[i], t)
      /\ had = {} => o.delta[t] = h.o.delta[t]
      /\ h.o.delta[t] # <<>> => o.delta[t] = h.o.delta[t]
      /\ had # {} => o.delta[t] # <<>>
      /\ h.o.delta[t] = <<>> =>
           \A i \in had : (\A j \in had : i <= j) => Follows(t, h.msg.trips[i], o.delta[t])
  BY DEF TripsHeard, Heard
<1>2. /\ OverlayFull(b) /\ b.vehTime = o.vehTime
      /\ b.skip[t] = (IF mine /\ called THEN TRUE ELSE o.skip[t])
      /\ b.delta[t] = (IF mine /\ ~called /\ o.delta[t] = <<>> THEN fresh ELSE o.delta[t])
  <2>1. IsUpdate(tu) /\ t \in 1..Len(tt.trips) /\ OverlayFull(o)
    BY <1>1
  <2> HIDE DEF tu, t
  <2>2. AddsTo(o, AddTrip(tt, o, h.msg, tu, net.now), h.msg, tu, t)
    BY <2>1, AddedTo
  <2> QED BY <2>2 DEF AddsTo
<1>3. now = IF mine /\ ~called THEN had \cup {k} ELSE had
  <2>1. \A i \in 1..Len(h.msg.trips) : i <= k <=> (i <= k - 1 \/ i = k)
    BY DEF UpdatesIn
  <2>2. k \in UpdatesIn(tt, h.msg, t) <=> mine /\ ~called
    BY DEF UpdatesIn, About
  <2>3. \A i \in UpdatesIn(tt, h.msg, t) : i \in 1..Len(h.msg.trips)
    BY DEF UpdatesIn
  <2>4. k <= k /\ ~(k <= k - 1)
    OBVIOUS
  <2> QED BY <2>1, <2>2, <2>3, <2>4 DEF Heard
<1>4. \A i \in had : i \in Nat /\ i < k /\ ~(k <= i)
  BY DEF Heard, UpdatesIn
<1>5. fresh # <<>> /\ Follows(t, tu, fresh)
  <2> HIDE DEF tu, t
  <2> DEFINE p == [t |-> t, tu |-> tu]
  <2>1. t \in 1..Len(tt.trips) /\ IsUpdate(tu)
    BY DEF t, tu
  <2>2. DelaysAre(fresh, TripLen(tt, t))
    <3>1. p.t = t /\ p.tu = tu
      OBVIOUS
    <3> HIDE DEF p
    <3> QED BY <2>1, <3>1, UpdateIs
  <2>3. TripLen(tt, t) >= 2 /\ TripLen(tt, t) \in Nat
    <3>1. Len(tt.trips[t].stops) >= 2
      BY <2>1, TimetablesAssumption DEF Loaded, tt, IsCompiled
    <3> QED BY <2>1, <3>1, TripIs
  <2>4. fresh # <<>>
    <3> HIDE DEF fresh
    <3>1. 1 \in DOMAIN fresh
      BY <2>2, <2>3 DEF DelaysAre
    <3> QED BY <3>1
  <2>5. Follows(t, tu, fresh)
    BY <2>1, UpdateFaithful DEF Follows
  <2> QED BY <2>4, <2>5
<1>6. (\E i \in 1..k : h.msg.trips[i].cancelled /\ About(h.msg, h.msg.trips[i], t))
        <=> (mine /\ called) \/ \E i \in 1..(k - 1) : h.msg.trips[i].cancelled /\ About(h.msg, h.msg.trips[i], t)
  <2>1. \A i : i \in 1..k <=> i \in 1..(k - 1) \/ i = k
    OBVIOUS
  <2> QED BY <2>1
<1> HIDE DEF b, mine, called, had, now, fresh
<1>7. b.skip[t] \in BOOLEAN /\ (b.skip[t] <=> h.o.skip[t] \/ \E i \in 1..k : h.msg.trips[i].cancelled /\ About(h.msg, h.msg.trips[i], t))
  BY <1>1, <1>2, <1>6
<1>8. /\ now = {} => b.delta[t] = h.o.delta[t]
      /\ h.o.delta[t] # <<>> => b.delta[t] = h.o.delta[t]
      /\ now # {} => b.delta[t] # <<>>
  BY <1>1, <1>2, <1>3, <1>5
<1>9. ASSUME h.o.delta[t] = <<>>, NEW i \in now, \A j \in now : i <= j
      PROVE  Follows(t, h.msg.trips[i], b.delta[t])
  <2>1. CASE mine /\ ~called /\ o.delta[t] = <<>>
    <3>1. had = {}
      BY <1>1, <2>1
    <3>2. i = k
      BY <1>3, <1>9, <2>1, <3>1
    <3> QED BY <1>2, <1>5, <2>1, <3>2
  <2>2. CASE ~(mine /\ ~called /\ o.delta[t] = <<>>)
    <3>1. b.delta[t] = o.delta[t]
      BY <1>2, <2>2
    <3>2. i \in had /\ \A j \in had : i <= j
      <4>1. CASE mine /\ ~called
        <5>1. had # {}
          BY <1>1, <1>9, <2>2, <4>1
        <5>2. \A j \in had : i <= j
          BY <1>3, <1>9, <4>1
        <5> QED BY <1>3, <1>4, <1>9, <4>1, <5>1, <5>2
      <4>2. CASE ~(mine /\ ~called)
        BY <1>3, <1>9, <4>2
      <4> QED BY <4>1, <4>2
    <3> QED BY <1>1, <1>9, <3>1, <3>2
  <2> QED BY <2>1, <2>2
<1>10. TripsHeard(h, k, b)
  BY <1>1, <1>2, <1>7, <1>8, <1>9 DEF TripsHeard, Heard, now
<1> QED BY <1>10 DEF TripsStepOf, b

\* The newest of some times.
Newest(v, S) == v \in S /\ \A x \in S : x \in Nat /\ x <= v

\* The stamps of the first k vehicles of a message, and of the first m messages.
StampsTo(msg, t, k) == {StampOf(msg, msg.vehicles[i]) : i \in {n \in 1..k : About(msg, msg.vehicles[n], t)}}
StampsUpTo(messages, t, m) == UNION {StampsTo(messages[n], t, Len(messages[n].vehicles)) : n \in 1..m}

\* A vehicle's entry never goes back.
LEMMA VehicleAdded ==
  ASSUME Loaded, NEW t \in 1..Len(tt.trips), NEW o, OverlayFull(o), NEW msg, NEW v,
         NEW S, Newest(o.vehTime[t], S), StampOf(msg, v) \in Nat
  PROVE  LET b == AddVehicle(tt, o, msg, v)
         IN  /\ OverlayFull(b) /\ b.skip = o.skip /\ b.delta = o.delta
             /\ Newest(b.vehTime[t], IF About(msg, v, t) THEN S \cup {StampOf(msg, v)} ELSE S)
<1> DEFINE u == TripIdx(tt, <<msg.feed, v.trip>>)
           b == AddVehicle(tt, o, msg, v)
           stamp == StampOf(msg, v)
           pos == IF v.seq = Absent THEN 0 ELSE TripSeqPos(tt, u, v.seq)
           mine == About(msg, v, t)
           old == o.vehTime[t]
<1>1. OverlayIs(b)
  BY AddVehicleIs DEF OverlayFull
<1>2. b = IF u = 0 \/ Older(o.vehTime[u], stamp) THEN o
          ELSE [o EXCEPT !.vehTime[u] = stamp, !.hasRT[u] = TRUE, !.vehPos[u] = IF pos = 0 THEN @ ELSE pos,
                         !.passed[u] = IF pos - 1 > @ THEN pos - 1 ELSE @]
  BY DEF AddVehicle
<1>3. u = t <=> mine
  BY KeyIs DEF About
<1>4. DOMAIN o = OverlayFields /\ DOMAIN o.skip = 1..Len(tt.trips) /\ DOMAIN o.vehTime = 1..Len(tt.trips)
  BY DEF OverlayFull, OverlayIs
<1>5. t # 0
  OBVIOUS
<1>6. /\ b.skip = o.skip /\ b.delta = o.delta /\ DOMAIN b.vehTime = DOMAIN o.vehTime
      /\ b.vehTime[t] = IF mine /\ ~Older(old, stamp) THEN stamp ELSE old
  <2> HIDE DEF u, b, stamp, pos, mine
  <2> QED BY <1>2, <1>3, <1>4, <1>5 DEF OverlayFields
<1>7. OverlayFull(b)
  BY <1>1, <1>4, <1>6 DEF OverlayFull
<1>8. Newest(b.vehTime[t], IF mine THEN S \cup {stamp} ELSE S)
  <2>1. stamp \in Nat
    OBVIOUS
  <2> HIDE DEF b, stamp, old, mine
  <2>2. old \in S /\ \A x \in S : x \in Nat /\ x <= old
    BY DEF Newest, old
  <2>3. CASE mine /\ ~Older(old, stamp)
    <3>1. old <= stamp
      BY <2>1, <2>2, <2>3 DEF Older
    <3> QED BY <1>6, <2>1, <2>2, <2>3, <3>1 DEF Newest
  <2>4. CASE mine /\ Older(old, stamp)
    <3>1. stamp <= old
      BY <2>1, <2>2, <2>4 DEF Older
    <3> QED BY <1>6, <2>1, <2>2, <2>4, <3>1 DEF Newest
  <2>5. CASE ~mine
    BY <1>6, <2>2, <2>5 DEF Newest
  <2> QED BY <2>3, <2>4, <2>5
<1> QED BY <1>6, <1>7, <1>8

\* The first k vehicles of a message.  h: [t, msg, o, S]
VehiclesHeard(h, k, o) ==
  /\ OverlayFull(o) /\ o.skip = h.o.skip /\ o.delta = h.o.delta
  /\ Newest(o.vehTime[h.t], h.S \cup StampsTo(h.msg, h.t, k))
VehiclesStepOf(p, o, v) == AddVehicle(tt, o, p.msg, v)
VehiclesInTurn == INSTANCE FoldLaws WITH Step <- VehiclesStepOf, Good <- VehiclesHeard

\* The vehicles of a message touch nothing but the vehicles' entries.
LEMMA VehiclesOfMessage ==
  ASSUME Loaded, NEW t \in 1..Len(tt.trips), NEW o, OverlayFull(o), NEW msg, Listed(msg.vehicles),
         \A i \in 1..Len(msg.vehicles) : StampOf(msg, msg.vehicles[i]) \in Nat, NEW S, Newest(o.vehTime[t], S)
  PROVE  LET b == VehiclesAdded(msg, o)
         IN  /\ OverlayFull(b) /\ b.skip = o.skip /\ b.delta = o.delta
             /\ Newest(b.vehTime[t], S \cup StampsTo(msg, t, Len(msg.vehicles)))
<1> DEFINE h == [t |-> t, msg |-> msg, o |-> o, S |-> S]
           n == Len(msg.vehicles)
<1>0. n \in Nat /\ DOMAIN msg.vehicles = 1..n
  BY DEF Listed
<1>1. h.t = t /\ h.msg = msg /\ h.o = o /\ h.S = S
  OBVIOUS
<1> HIDE DEF h
<1>2. VehiclesHeard(h, 0, o)
  <2>1. StampsTo(msg, t, 0) = {}
    BY DEF StampsTo
  <2>2. S \cup StampsTo(msg, t, 0) = S
    BY <2>1
  <2> QED BY <1>1, <2>2 DEF VehiclesHeard
<1>3. ASSUME NEW k \in 1..n, NEW x, VehiclesHeard(h, k - 1, x)
      PROVE  VehiclesHeard(h, k, VehiclesStepOf(h, x, msg.vehicles[k]))
  <2> DEFINE v == msg.vehicles[k]
             had == S \cup StampsTo(msg, t, k - 1)
             b == AddVehicle(tt, x, msg, v)
  <2>1. OverlayFull(x) /\ x.skip = o.skip /\ x.delta = o.delta /\ Newest(x.vehTime[t], had)
    BY <1>1, <1>3 DEF VehiclesHeard
  <2>2. StampOf(msg, v) \in Nat
    OBVIOUS
  <2>3. S \cup StampsTo(msg, t, k) = IF About(msg, v, t) THEN had \cup {StampOf(msg, v)} ELSE had
    <3>1. \A i : i \in 1..k <=> i \in 1..(k - 1) \/ i = k
      BY <1>0
    <3>2. StampsTo(msg, t, k) = IF About(msg, v, t) THEN StampsTo(msg, t, k - 1) \cup {StampOf(msg, v)}
                                ELSE StampsTo(msg, t, k - 1)
      BY <3>1 DEF StampsTo
    <3> HIDE DEF v
    <3> QED BY <3>2
  <2> HIDE DEF v, had
  <2>4. /\ OverlayFull(b) /\ b.skip = x.skip /\ b.delta = x.delta
        /\ Newest(b.vehTime[t], IF About(msg, v, t) THEN had \cup {StampOf(msg, v)} ELSE had)
    BY <2>1, <2>2, VehicleAdded
  <2> HIDE DEF b
  <2>5. VehiclesHeard(h, k, b)
    BY <1>1, <2>1, <2>3, <2>4 DEF VehiclesHeard
  <2> QED BY <1>1, <2>5 DEF VehiclesStepOf, b, v
<1>4. VehiclesHeard(h, n, VehiclesInTurn!Folded(h, o, msg.vehicles))
  <2> HIDE DEF n
  <2> QED BY <1>0, <1>2, <1>3, VehiclesInTurn!FoldKeeps, NatsFrom
<1>5. VehiclesAdded(msg, o) = VehiclesInTurn!Folded(h, o, msg.vehicles)
  BY <1>1 DEF VehiclesAdded, VehiclesStepOf, VehiclesInTurn!Folded, FoldLeft, MapThenFoldSet, Max, VehiclesInTurn!Largest
<1> QED BY <1>1, <1>4, <1>5 DEF VehiclesHeard

\* The trip updates of a message.
LEMMA TripsOfMessage ==
  ASSUME Loaded, NEW h, h.t \in 1..Len(tt.trips), OverlayFull(h.o), h.o.skip[h.t] \in BOOLEAN, Listed(h.msg.trips),
         \A i \in 1..Len(h.msg.trips) : IsUpdate(h.msg.trips[i])
  PROVE  TripsHeard(h, Len(h.msg.trips), TripsAdded(h.msg, h.o))
<1> DEFINE n == Len(h.msg.trips)
           trips == h.msg.trips
<1>0. n \in Nat /\ DOMAIN trips = 1..n
  BY DEF Listed
<1>1. TripsHeard(h, 0, h.o)
  <2>1. \A i \in UpdatesIn(tt, h.msg, h.t) : ~(i <= 0)
    BY DEF UpdatesIn
  <2> QED BY <2>1 DEF TripsHeard
<1>2. ASSUME NEW k \in 1..n, NEW x, TripsHeard(h, k - 1, x)
      PROVE  TripsHeard(h, k, TripsStepOf(h, x, trips[k]))
  <2>1. k \in Nat \ {0}
    BY <1>0
  <2> QED BY <1>2, <2>1, NextTrip
<1>3. TripsHeard(h, n, TripsInTurn!Folded(h, h.o, trips))
  <2> HIDE DEF n, trips
  <2> QED BY <1>0, <1>1, <1>2, TripsInTurn!FoldKeeps, NatsFrom
<1>4. TripsAdded(h.msg, h.o) = TripsInTurn!Folded(h, h.o, trips)
  BY DEF TripsAdded, TripsStepOf, TripsInTurn!Folded, FoldLeft, MapThenFoldSet, Max, TripsInTurn!Largest
<1> QED BY <1>3, <1>4

\* What each message adds to a trip: a cancellation, delays, a vehicle.
CancelledBy(messages, t, m) ==
  \E n \in 1..m : \E i \in 1..Len(messages[n].trips) :
    messages[n].trips[i].cancelled /\ About(messages[n], messages[n].trips[i], t)

\* The first m messages.  h: [t, messages]
MessagesHeard(h, m, o) ==
  /\ OverlayFull(o) /\ o.skip[h.t] \in BOOLEAN
  /\ o.skip[h.t] <=> CancelledBy(h.messages, h.t, m)
  /\ Newest(o.vehTime[h.t], {0} \cup StampsUpTo(h.messages, h.t, m))
  /\ (\A n \in 1..m : UpdatesIn(tt, h.messages[n], h.t) = {}) => o.delta[h.t] = <<>>
  /\ \A n \in 1..m : \A i \in UpdatesIn(tt, h.messages[n], h.t) :
       FirstUpdate(tt, h.messages, h.t, n, i) =>
         o.delta[h.t] # <<>> /\ Follows(h.t, h.messages[n].trips[i], o.delta[h.t])
MessagesInTurn == INSTANCE FoldLaws WITH Step <- MessageStep, Good <- MessagesHeard

\* One more message.
LEMMA NextMessage ==
  ASSUME Loaded, NEW h, h.t \in 1..Len(tt.trips), AreMessages(h.messages),
         NEW m \in 1..Len(h.messages), NEW o, MessagesHeard(h, m - 1, o)
  PROVE  MessagesHeard(h, m, MessageStep(0, o, h.messages[m]))
<1> DEFINE t == h.t
           msg == h.messages[m]
           mid == TripsAdded(msg, o)
           b == VehiclesAdded(msg, mid)
           ups == UpdatesIn(tt, msg, t)
           g == [t |-> t, msg |-> msg, o |-> o]
           S == {0} \cup StampsUpTo(h.messages, t, m - 1)
<1>0. m \in Nat /\ m - 1 \in Nat /\ \A n : n \in 1..m <=> n \in 1..(m - 1) \/ n = m
  BY DEF AreMessages, Listed
<1>1. /\ Listed(msg.trips) /\ Listed(msg.vehicles) /\ \A i \in 1..Len(msg.trips) : IsUpdate(msg.trips[i])
      /\ \A i \in 1..Len(msg.vehicles) : StampOf(msg, msg.vehicles[i]) \in Nat
  BY DEF AreMessages, StampOf
<1>2. g.t = t /\ g.msg = msg /\ g.o = o
  OBVIOUS
<1>3. /\ OverlayFull(o) /\ o.skip[t] \in BOOLEAN /\ (o.skip[t] <=> CancelledBy(h.messages, t, m - 1)) /\ Newest(o.vehTime[t], S)
      /\ (\A n \in 1..(m - 1) : UpdatesIn(tt, h.messages[n], t) = {}) => o.delta[t] = <<>>
      /\ \A n \in 1..(m - 1) : \A i \in UpdatesIn(tt, h.messages[n], t) :
           FirstUpdate(tt, h.messages, t, n, i) => o.delta[t] # <<>> /\ Follows(t, h.messages[n].trips[i], o.delta[t])
  BY DEF MessagesHeard
<1>4. MessageStep(0, o, msg) = b
  BY DEF MessageStep, VehiclesAdded, TripsAdded
<1>5. TripsHeard(g, Len(msg.trips), mid)
  <2> HIDE DEF g, t, msg
  <2>1. t \in 1..Len(tt.trips)
    BY DEF t
  <2> HIDE DEF mid
  <2>2. TripsHeard(g, Len(g.msg.trips), TripsAdded(g.msg, g.o))
    BY <1>1, <1>2, <1>3, <2>1, TripsOfMessage
  <2> QED BY <1>2, <2>2 DEF mid
<1> HIDE DEF mid
<1>6. /\ OverlayFull(b) /\ b.skip = mid.skip /\ b.delta = mid.delta
      /\ Newest(b.vehTime[t], S \cup StampsTo(msg, t, Len(msg.vehicles)))
  <2>1. OverlayFull(mid) /\ mid.vehTime[t] = o.vehTime[t] /\ t \in 1..Len(tt.trips)
    BY <1>2, <1>5 DEF TripsHeard
  <2>2. Newest(mid.vehTime[t], S)
    BY <1>3, <2>1
  <2> HIDE DEF b, msg, t, S
  <2>3. LET x == VehiclesAdded(msg, mid)
        IN  /\ OverlayFull(x) /\ x.skip = mid.skip /\ x.delta = mid.delta
            /\ Newest(x.vehTime[t], S \cup StampsTo(msg, t, Len(msg.vehicles)))
    BY <1>1, <2>1, <2>2, VehiclesOfMessage
  <2> QED BY <2>3 DEF b
<1> HIDE DEF b
<1>7. S \cup StampsTo(msg, t, Len(msg.vehicles)) = {0} \cup StampsUpTo(h.messages, t, m)
  <2>1. StampsUpTo(h.messages, t, m) = StampsUpTo(h.messages, t, m - 1) \cup StampsTo(msg, t, Len(msg.vehicles))
    <3> DEFINE of(n) == StampsTo(h.messages[n], t, Len(h.messages[n].vehicles))
    <3>1. StampsUpTo(h.messages, t, m) = UNION {of(n) : n \in 1..m} /\ StampsUpTo(h.messages, t, m - 1) = UNION {of(n) : n \in 1..(m - 1)}
      BY DEF StampsUpTo
    <3>2. of(m) = StampsTo(msg, t, Len(msg.vehicles))
      OBVIOUS
    <3> HIDE DEF of, msg
    <3> QED BY <1>0, <3>1, <3>2
  <2> QED BY <2>1
<1>8. ups = {i \in ups : i <= Len(msg.trips)}
  BY <1>1 DEF UpdatesIn, Listed
<1>9. /\ mid.skip[t] \in BOOLEAN
      /\ mid.skip[t] <=> o.skip[t] \/ \E i \in 1..Len(msg.trips) : msg.trips[i].cancelled /\ About(msg, msg.trips[i], t)
      /\ ups = {} => mid.delta[t] = o.delta[t]
      /\ o.delta[t] # <<>> => mid.delta[t] = o.delta[t]
      /\ ups # {} => mid.delta[t] # <<>>
      /\ o.delta[t] = <<>> =>
           \A i \in ups : (\A j \in ups : i <= j) => Follows(t, msg.trips[i], mid.delta[t])
  <2> HIDE DEF g
  <2> QED BY <1>2, <1>5, <1>8 DEF TripsHeard
<1>10. CancelledBy(h.messages, t, m) <=>
         CancelledBy(h.messages, t, m - 1) \/ \E i \in 1..Len(msg.trips) : msg.trips[i].cancelled /\ About(msg, msg.trips[i], t)
  BY <1>0 DEF CancelledBy
<1>11. (\A n \in 1..m : UpdatesIn(tt, h.messages[n], t) = {}) => b.delta[t] = <<>>
  <2>1. (\A n \in 1..m : UpdatesIn(tt, h.messages[n], t) = {}) => ups = {} /\ \A n \in 1..(m - 1) : UpdatesIn(tt, h.messages[n], t) = {}
    BY <1>0
  <2> HIDE DEF ups
  <2> QED BY <1>3, <1>6, <1>9, <2>1
<1>12. ASSUME NEW n \in 1..m, NEW i \in UpdatesIn(tt, h.messages[n], t), FirstUpdate(tt, h.messages, t, n, i)
       PROVE  b.delta[t] # <<>> /\ Follows(t, h.messages[n].trips[i], b.delta[t])
  <2>1. CASE n = m
    <3>1. i \in ups /\ (\A j \in ups : i <= j) /\ \A x \in 1..(m - 1) : UpdatesIn(tt, h.messages[x], t) = {}
      BY <1>12, <2>1 DEF FirstUpdate
    <3> HIDE DEF ups
    <3> QED BY <1>3, <1>6, <1>9, <2>1, <3>1
  <2>2. CASE n # m
    <3>1. n \in 1..(m - 1)
      BY <1>0, <2>2
    <3> QED BY <1>3, <1>6, <1>9, <1>12, <3>1
  <2> QED BY <2>1, <2>2
<1>13. MessagesHeard(h, m, b)
  <2> HIDE DEF msg, S, ups
  <2>1. b.skip[t] \in BOOLEAN /\ (b.skip[t] <=> CancelledBy(h.messages, t, m))
    BY <1>3, <1>6, <1>9, <1>10
  <2>2. Newest(b.vehTime[t], {0} \cup StampsUpTo(h.messages, t, m))
    BY <1>6, <1>7
  <2> QED BY <1>6, <1>11, <1>12, <2>1, <2>2 DEF MessagesHeard
<1> QED BY <1>4, <1>13

\* The overlay of messages is faithful to them.
LEMMA BuiltFaithful ==
  ASSUME Loaded, NEW messages, AreMessages(messages), NEW t \in 1..Len(tt.trips)
  PROVE  MessagesHeard([t |-> t, messages |-> messages], Len(messages), BuildOverlay(tt, messages, net.now))
<1> DEFINE h == [t |-> t, messages |-> messages]
           n == Len(messages)
           base == NoOverlay(tt)
<1>0. n \in Nat /\ DOMAIN messages = 1..n
  BY DEF AreMessages, Listed
<1>1. h.t = t /\ h.messages = messages
  OBVIOUS
<1> HIDE DEF h
<1>2. MessagesHeard(h, 0, base)
  <2>1. OverlayFull(base)
    BY DEF OverlayFull, OverlayIs, OverlayFields, NoOverlay
  <2>2. base.skip[t] = FALSE /\ base.vehTime[t] = 0 /\ base.delta[t] = <<>>
    BY DEF NoOverlay
  <2>3. StampsUpTo(messages, t, 0) = {} /\ ~CancelledBy(messages, t, 0)
    BY DEF StampsUpTo, CancelledBy
  <2>4. Newest(0, {0} \cup {})
    BY DEF Newest
  <2> HIDE DEF base
  <2>5. Newest(base.vehTime[t], {0} \cup StampsUpTo(messages, t, 0))
    BY <2>2, <2>3, <2>4
  <2>6. base.skip[h.t] \in BOOLEAN /\ (base.skip[h.t] <=> CancelledBy(h.messages, h.t, 0))
    BY <1>1, <2>2, <2>3
  <2>7. 1..0 = {}
    OBVIOUS
  <2> QED BY <1>1, <2>1, <2>2, <2>5, <2>6, <2>7 DEF MessagesHeard
<1>3. ASSUME NEW k \in 1..n, NEW x, MessagesHeard(h, k - 1, x)
      PROVE  MessagesHeard(h, k, MessageStep(0, x, messages[k]))
  BY <1>1, <1>3, NextMessage
<1>4. MessagesHeard(h, n, MessagesInTurn!Folded(0, base, messages))
  <2> HIDE DEF n, base
  <2> QED BY <1>0, <1>2, <1>3, MessagesInTurn!FoldKeeps, NatsFrom
<1>5. BuildOverlay(tt, messages, net.now) = MessagesInTurn!Folded(0, base, messages)
  BY DEF BuildOverlay, MessageStep, MessagesInTurn!Folded, FoldLeft, MapThenFoldSet, Max, MessagesInTurn!Largest
<1> QED BY <1>4, <1>5 DEF h

-----------------------------------------------------------------------------
(* RAPTOR's journeys are lists of legs                                     *)

BackStep(p, b, n) == IF b.k < 0 \/ lab[b.k][b.s].kind \in {"access", "none"} THEN b ELSE ParentOf(b)
BackGood(h, n, b) == DOMAIN b = {"k", "s", "legs"} /\ IsSeq(b.legs)
Back == INSTANCE FoldLaws WITH Step <- BackStep, Good <- BackGood

\* One step back in the labels.
LEMMA ParentIs ==
  ASSUME NEW b, DOMAIN b = {"k", "s", "legs"}, IsSeq(b.legs)
  PROVE  DOMAIN ParentOf(b) = {"k", "s", "legs"} /\ IsSeq(ParentOf(b).legs)
<1>1. ASSUME NEW x PROVE IsSeq(<<x>> \o b.legs)
  BY OneIs, ConcatIs
<1> DEFINE l == lab[b.k][b.s]
<1>2. CASE l.kind = "xfer"
  <2> DEFINE leg == [ride |-> FALSE, from |-> l.from, to |-> b.s, sec |-> l.time - lab[b.k][l.from].time]
  <2>1. ParentOf(b) = [b EXCEPT !.s = l.from, !.legs = <<leg>> \o @]
    BY <1>2 DEF ParentOf
  <2> HIDE DEF leg
  <2> QED BY <1>1, <2>1
<1>3. CASE l.kind # "xfer"
  <2> DEFINE leg == [ride |-> TRUE, trip |-> l.trip, board |-> l.board, day |-> l.day,
                     alight |-> PosInPattern(PatternOfTrip(tt, l.trip), b.s, l.board)]
  <2>1. ParentOf(b) = [b EXCEPT !.s = l.from, !.k = @ - 1, !.legs = <<leg>> \o @]
    BY <1>3 DEF ParentOf
  <2> HIDE DEF leg
  <2> QED BY <1>1, <2>1
<1> QED BY <1>2, <1>3

\* What is extracted from the labels is a list of legs.
LEMMA ExtractIs ==
  ASSUME tt.nstops \in Nat, NEW k \in Nat, NEW target
  PROVE  IsSeq(Extract(k, target).legs)
<1> DEFINE n == (tt.nstops + 2) * (k + 1)
           base == [k |-> k, s |-> target, legs |-> <<>>]
<1>1. n \in Nat
  <2>1. \A x, y \in Nat : x * y \in Nat
    OBVIOUS
  <2>2. tt.nstops + 2 \in Nat /\ k + 1 \in Nat
    OBVIOUS
  <2> QED BY <2>1, <2>2
<1> HIDE DEF n
<1>2. BackGood(0, 0, base)
  BY NoneIs DEF BackGood
<1>3. ASSUME NEW i \in 1..n, NEW b, BackGood(0, i - 1, b) PROVE BackGood(0, i, BackStep(0, b, i))
  BY <1>3, ParentIs DEF BackGood, BackStep
<1>4. \A i \in 0..n : BackGood(0, i, Back!Path(0, base, n)[i])
  <2> HIDE DEF base
  <2> QED BY <1>1, <1>2, <1>3, Back!PathKeeps, NatsFrom
<1>5. Extract(k, target).legs = Back!Path(0, base, n)[n].legs
  BY DEF Extract, BackStep, Back!Path, n
<1>6. n \in 0..n
  BY <1>1
<1> QED BY <1>4, <1>5, <1>6 DEF BackGood


-----------------------------------------------------------------------------
(* Labels                                                                  *)

\* A ride of the label's trip from the label's stop to s.
RidesTo(l, s) ==
  \E p \in Pats :
    LET stops == tt.pats[p].stops
    IN  /\ l.trip \in tt.pats[p].lo..tt.pats[p].hi /\ l.day \in Int
        /\ l.board \in 1..Len(stops) /\ stops[l.board] = l.from
        /\ \E i \in (l.board + 1)..Len(stops) : stops[i] = s

LabelFields == {"time", "kind", "trip", "board", "from", "day"}

\* A row of the sources' round: stops without a ride.
SourceLabel(row, s) ==
  LET l == row[s]
  IN  /\ DOMAIN l = LabelFields /\ l.time \in Nat /\ l.kind \in {"none", "access", "xfer"}
      /\ l.kind = "none" => l.time >= Inf
      /\ l.kind = "access" => s \in DOMAIN q.sources
      /\ l.kind = "xfer" => l.from \in Stops /\ row[l.from].kind # "none" /\ row[l.from].time <= l.time
SourceRow(row) == DOMAIN row = Stops /\ \A s \in Stops : SourceLabel(row, s)

\* A row of a later round: earlier than the first at every stop that a ride
\* brings nearer, and on foot only from such stops or as at the first.
RideLabel(row, prev, first, s) ==
  LET l == row[s]
  IN  /\ DOMAIN l = LabelFields /\ l.time \in Nat /\ l.kind \in {"none", "access", "xfer", "ride"}
      /\ l.time <= first[s].time
      /\ l.kind = "none" => l.time >= Inf
      /\ l.kind = "access" => s \in DOMAIN q.sources /\ l.time = first[s].time
      /\ l.kind = "xfer" => /\ l.from \in Stops /\ row[l.from].kind # "none" /\ row[l.from].time <= l.time
                            /\ l.time < first[s].time => row[l.from].time < first[l.from].time
      /\ l.kind = "ride" => /\ l.from \in Stops /\ prev[l.from].kind # "none"
                            /\ l.time < first[s].time /\ RidesTo(l, s)
RideRow(row, prev, first) ==
  DOMAIN row = Stops /\ \A s \in Stops : RideLabel(row, prev, first, s)

\* What a round has written: the best times are its row's, and it marks stops.
Written(acc) ==
  /\ {"row", "best", "marks"} \subseteq DOMAIN acc
  /\ DOMAIN acc.row = Stops /\ DOMAIN acc.best = Stops /\ \A s \in Stops : acc.best[s] = acc.row[s].time
  /\ DOMAIN acc.marks = {"set", "list"} /\ IsSeq(acc.marks.list) /\ ToSet(acc.marks.list) \subseteq Stops

\* Marking a stop.
LEMMA MarksAre ==
  ASSUME NEW m, DOMAIN m = {"set", "list"}, IsSeq(m.list), ToSet(m.list) \subseteq Stops, NEW s \in Stops
  PROVE  DOMAIN Marks(m, s) = {"set", "list"} /\ IsSeq(Marks(m, s).list) /\ ToSet(Marks(m, s).list) \subseteq Stops
BY AppendIs DEF Marks

\* A footpath takes a number of seconds.
LEMMA FootpathIs ==
  ASSUME Loaded, NEW s \in Stops, NEW d \in Stops
  PROVE  net.foot[s][d] \in Nat
<1>1. net.foot \in [Stops -> [Stops -> Nat]]
  BY TimetablesAssumption DEF Loaded, Stops, StopsOf, tt
<1> QED BY <1>1

\* One footpath, in the sources' round.
LEMMA SourceWalkOnce ==
  ASSUME Loaded, NEW acc, Written(acc), SourceRow(acc.row), NEW way, way.from \in Stops,
         acc.row[way.from].kind # "none", NEW d \in Stops
  PROVE  LET a == WalkOnce(acc, way, d)
         IN  Written(a) /\ SourceRow(a.row) /\ a.row[way.from].kind # "none"
<1> DEFINE s == way.from
           cand == acc.row[s].time + net.foot[s][d]
           l == [acc.row[d] EXCEPT !.time = cand, !.kind = "xfer", !.from = s]
           a == [acc EXCEPT !.row[d] = l, !.best[d] = cand, !.marks = Marks(acc.marks, d)]
<1>0. net.foot[s][d] \in Nat /\ acc.row[s].time \in Nat /\ acc.row[d].time \in Nat
  <2>1. SourceLabel(acc.row, s) /\ SourceLabel(acc.row, d)
    BY DEF SourceRow
  <2> QED BY <2>1, FootpathIs DEF SourceLabel
<1>1. CASE net.foot[s][d] >= Inf \/ ~(cand < acc.row[d].time /\ cand < acc.best[d] /\ cand < way.ub)
  BY <1>1 DEF WalkOnce
<1>2. CASE ~(net.foot[s][d] >= Inf \/ ~(cand < acc.row[d].time /\ cand < acc.best[d] /\ cand < way.ub))
  <2>1. WalkOnce(acc, way, d) = a
    BY <1>2 DEF WalkOnce
  <2>2. d # s /\ cand \in Nat /\ cand < acc.row[d].time /\ acc.row[s].time <= cand
    BY <1>0, <1>2
  <2>3. DOMAIN l = LabelFields /\ l.time = cand /\ l.kind = "xfer" /\ l.from = s
    BY DEF SourceRow, SourceLabel, LabelFields
  <2>4. DOMAIN acc.row = Stops /\ DOMAIN acc.best = Stops /\ {"row", "best", "marks"} \subseteq DOMAIN acc
    BY DEF Written
  <2>5. /\ DOMAIN a = DOMAIN acc /\ a.row = [acc.row EXCEPT ![d] = l] /\ a.best = [acc.best EXCEPT ![d] = cand]
        /\ a.marks = Marks(acc.marks, d)
    BY <2>4
  <2> HIDE DEF a, l, cand
  <2>6. Written(a)
    BY <2>3, <2>4, <2>5, MarksAre DEF Written
  <2>7. DOMAIN a.row = Stops /\ a.row[d] = l /\ \A x \in Stops : x # d => a.row[x] = acc.row[x]
    BY <2>4, <2>5
  <2>8. ASSUME NEW x \in Stops PROVE SourceLabel(a.row, x)
    <3>1. CASE x = d
      BY <2>2, <2>3, <2>7, <3>1 DEF SourceRow, SourceLabel
    <3>2. CASE x # d
      <4>1. SourceLabel(acc.row, x)
        BY DEF SourceRow
      <4> QED BY <1>0, <2>2, <2>3, <2>7, <3>2, <4>1 DEF SourceLabel
    <3> QED BY <3>1, <3>2
  <2> QED BY <2>1, <2>2, <2>6, <2>7, <2>8 DEF SourceRow
<1> QED BY <1>1, <1>2


\* WalkAround and Walk are folds.
WalkStep(p, acc, d) == WalkOnce(acc, p, d)
AroundGood(h, n, acc) == Written(acc) /\ SourceRow(acc.row) /\ acc.row[h].kind # "none"
Around == INSTANCE FoldLaws WITH Step <- WalkStep, Good <- AroundGood

\* Walking from one stop, in the sources' round.
LEMMA SourceWalkAround ==
  ASSUME Loaded, NEW acc, Written(acc), SourceRow(acc.row), NEW way, way.from \in Stops,
         acc.row[way.from].kind # "none"
  PROVE  Written(WalkAround(acc, way)) /\ SourceRow(WalkAround(acc, way).row)
<1> DEFINE seq == Ascending(tt.nstops)
           s == way.from
<1>0. tt.nstops \in Nat /\ DOMAIN seq = 1..tt.nstops /\ \A k \in 1..tt.nstops : seq[k] \in Stops
  BY TimetablesAssumption DEF Loaded, tt, IsCompiled, Ascending, Stops, StopsOf
<1>1. AroundGood(s, 0, acc)
  BY DEF AroundGood
<1>2. ASSUME NEW k \in 1..tt.nstops, NEW a, AroundGood(s, k - 1, a) PROVE AroundGood(s, k, WalkStep(way, a, seq[k]))
  <2> DEFINE d == seq[k]
  <2>1. d \in Stops
    BY <1>0
  <2> HIDE DEF d
  <2>2. AroundGood(s, k, WalkStep(way, a, d))
    BY <1>2, <2>1, SourceWalkOnce DEF AroundGood, WalkStep
  <2> QED BY <2>2 DEF d
<1>3. AroundGood(s, tt.nstops, Around!Folded(way, acc, seq))
  <2> HIDE DEF seq, s
  <2> QED BY <1>0, <1>1, <1>2, Around!FoldKeeps, NatsFrom
<1>4. WalkAround(acc, way) = Around!Folded(way, acc, seq)
  BY DEF WalkAround, WalkStep, Around!Folded,
         FoldLeft, MapThenFoldSet, Max, Around!Largest
<1> QED BY <1>3, <1>4 DEF AroundGood

LeaveStep(p, acc, s) == IF ~WalksFirst(acc.row, s) THEN acc ELSE WalkAround(acc, [from |-> s, ub |-> p])
LeaveGood(h, n, acc) == Written(acc) /\ SourceRow(acc.row)
Leaving == INSTANCE FoldLaws WITH Step <- LeaveStep, Good <- LeaveGood

\* Walking from the sources that are left by train.
LEMMA SourceWalk ==
  ASSUME Loaded, NEW acc, Written(acc), SourceRow(acc.row), NEW list, IsSeq(list), ToSet(list) \subseteq Stops, NEW ub
  PROVE  Written(Walk(acc, list, ub, WalksFirst)) /\ SourceRow(Walk(acc, list, ub, WalksFirst).row)
<1>0. Len(list) \in Nat /\ DOMAIN list = 1..Len(list) /\ \A k \in 1..Len(list) : list[k] \in Stops
  BY IsSeqHas
<1>1. LeaveGood(0, 0, acc)
  BY DEF LeaveGood
<1>2. ASSUME NEW k \in 1..Len(list), NEW a, LeaveGood(0, k - 1, a) PROVE LeaveGood(0, k, LeaveStep(ub, a, list[k]))
  <2> DEFINE s == list[k]
             way == [from |-> s, ub |-> ub]
  <2>1. s \in Stops /\ way.from = s
    BY <1>0
  <2> HIDE DEF s, way
  <2>2. CASE ~WalksFirst(a.row, s)
    BY <1>2, <2>2 DEF LeaveGood, LeaveStep, s
  <2>3. CASE WalksFirst(a.row, s)
    <3>1. a.row[s].kind # "none"
      BY <2>3 DEF WalksFirst
    <3>2. Written(WalkAround(a, way)) /\ SourceRow(WalkAround(a, way).row)
      BY <1>2, <2>1, <3>1, SourceWalkAround DEF LeaveGood
    <3> QED BY <2>3, <3>2 DEF LeaveGood, LeaveStep, s, way
  <2> QED BY <2>2, <2>3
<1>3. LeaveGood(0, Len(list), Leaving!Folded(ub, acc, list))
  BY <1>0, <1>1, <1>2, Leaving!FoldKeeps, NatsFrom
<1>4. Walk(acc, list, ub, WalksFirst) = Leaving!Folded(ub, acc, list)
  BY DEF Walk, LeaveStep, Leaving!Folded,
         FoldLeft, MapThenFoldSet, Max, Leaving!Largest
<1> QED BY <1>3, <1>4 DEF LeaveGood

-----------------------------------------------------------------------------
(* Later rounds                                                            *)

\* Nothing that the round before reached is lost.
Grows(row, prev) == \A s \in Stops : prev[s].kind # "none" => row[s].kind # "none"
Rounded(acc, prev, first) == Written(acc) /\ RideRow(acc.row, prev, first) /\ Grows(acc.row, prev)
Nearer(row, first, s) == row[s].kind # "none" /\ row[s].time < first[s].time
Numbered(first) == \A s \in Stops : first[s].time \in Nat

\* A label that is earlier than the one before it may be written.
LEMMA Improved ==
  ASSUME NEW acc, NEW prev, NEW first, Numbered(first), Rounded(acc, prev, first), NEW d \in Stops, NEW l,
         l.time \in Nat, l.time < acc.row[d].time, l.kind # "none",
         NEW a, {"row", "best", "marks"} \subseteq DOMAIN a, a.row = [acc.row EXCEPT ![d] = l],
         a.best = [acc.best EXCEPT ![d] = l.time], a.marks = Marks(acc.marks, d),
         RideLabel(a.row, prev, first, d)
  PROVE  Rounded(a, prev, first)
<1>1. DOMAIN acc.row = Stops /\ DOMAIN acc.best = Stops
  BY DEF Rounded, Written
<1>2. DOMAIN a.row = Stops /\ a.row[d] = l /\ \A x \in Stops : x # d => a.row[x] = acc.row[x]
  BY <1>1
<1>3. Written(a)
  BY <1>1, <1>2, MarksAre DEF Written, Rounded
<1>4. ASSUME NEW x \in Stops, x # d PROVE RideLabel(a.row, prev, first, x)
  <2>1. RideLabel(acc.row, prev, first, x) /\ RideLabel(acc.row, prev, first, d)
    BY DEF Rounded, RideRow
  <2>2. \A y \in Stops : acc.row[y].kind # "none" => a.row[y].kind # "none"
    BY <1>2
  <2>3. \A y \in Stops : a.row[y].time <= acc.row[y].time /\ acc.row[y].time \in Nat /\ a.row[y].time \in Nat
    <3>1. \A y \in Stops : acc.row[y].time \in Nat
      BY DEF Rounded, RideRow, RideLabel
    <3> QED BY <1>2, <3>1
  <2>4. a.row[x] = acc.row[x]
    BY <1>2, <1>4
  <2>5. first[d].time \in Nat /\ first[x].time \in Nat /\ \A y \in Stops : first[y].time \in Nat
    BY DEF Numbered
  <2> QED BY <2>1, <2>2, <2>3, <2>4, <2>5 DEF RideLabel
<1>5. Grows(a.row, prev)
  BY <1>2 DEF Grows, Rounded
<1> QED BY <1>2, <1>3, <1>4, <1>5 DEF Rounded, RideRow


\* One footpath after a ride.
LEMMA RideWalkOnce ==
  ASSUME Loaded, NEW prev, NEW first, Numbered(first), NEW acc, Rounded(acc, prev, first),
         NEW way, way.from \in Stops, Nearer(acc.row, first, way.from), NEW d \in Stops
  PROVE  LET a == WalkOnce(acc, way, d)
         IN  Rounded(a, prev, first) /\ Nearer(a.row, first, way.from)
<1> DEFINE s == way.from
           cand == acc.row[s].time + net.foot[s][d]
           l == [acc.row[d] EXCEPT !.time = cand, !.kind = "xfer", !.from = s]
           a == [acc EXCEPT !.row[d] = l, !.best[d] = cand, !.marks = Marks(acc.marks, d)]
<1>0. /\ net.foot[s][d] \in Nat /\ acc.row[s].time \in Nat /\ acc.row[d].time \in Nat
      /\ first[s].time \in Nat /\ first[d].time \in Nat /\ acc.row[d].time <= first[d].time
      /\ DOMAIN acc.row[d] = LabelFields
  <2>1. RideLabel(acc.row, prev, first, s) /\ RideLabel(acc.row, prev, first, d)
    BY DEF Rounded, RideRow
  <2> QED BY <2>1, FootpathIs DEF RideLabel, Numbered
<1>1. CASE net.foot[s][d] >= Inf \/ ~(cand < acc.row[d].time /\ cand < acc.best[d] /\ cand < way.ub)
  BY <1>1 DEF WalkOnce
<1>2. CASE ~(net.foot[s][d] >= Inf \/ ~(cand < acc.row[d].time /\ cand < acc.best[d] /\ cand < way.ub))
  <2>1. WalkOnce(acc, way, d) = a
    BY <1>2 DEF WalkOnce
  <2>2. d # s /\ cand \in Nat /\ cand < acc.row[d].time /\ acc.row[s].time <= cand
    BY <1>0, <1>2
  <2>3. DOMAIN l = LabelFields /\ l.time = cand /\ l.kind = "xfer" /\ l.from = s
    BY <1>0 DEF LabelFields
  <2>4. DOMAIN acc.row = Stops /\ DOMAIN acc.best = Stops /\ {"row", "best", "marks"} \subseteq DOMAIN acc
    BY DEF Rounded, Written
  <2>5. /\ DOMAIN a = DOMAIN acc /\ a.row = [acc.row EXCEPT ![d] = l] /\ a.best = [acc.best EXCEPT ![d] = l.time]
        /\ a.marks = Marks(acc.marks, d)
    BY <2>3, <2>4
  <2> HIDE DEF a, l, cand
  <2>6. a.row[d] = l /\ a.row[s] = acc.row[s]
    BY <2>2, <2>4, <2>5
  <2>7. RideLabel(a.row, prev, first, d)
    BY <1>0, <2>2, <2>3, <2>6 DEF RideLabel, Nearer
  <2>8. l.time \in Nat /\ l.time < acc.row[d].time /\ l.kind # "none"
    BY <2>2, <2>3
  <2>9. Rounded(a, prev, first)
    BY <2>4, <2>5, <2>7, <2>8, Improved
  <2> QED BY <2>1, <2>6, <2>9 DEF Nearer
<1> QED BY <1>1, <1>2

RidAroundGood(h, n, acc) == Rounded(acc, h.prev, h.first) /\ Nearer(acc.row, h.first, h.from)
RideAround == INSTANCE FoldLaws WITH Step <- WalkStep, Good <- RidAroundGood

\* Walking from one stop after a ride.
LEMMA RideWalkAround ==
  ASSUME Loaded, NEW prev, NEW first, Numbered(first), NEW acc, Rounded(acc, prev, first),
         NEW way, way.from \in Stops, Nearer(acc.row, first, way.from)
  PROVE  Rounded(WalkAround(acc, way), prev, first)
<1> DEFINE seq == Ascending(tt.nstops)
           h == [prev |-> prev, first |-> first, from |-> way.from]
<1>0. tt.nstops \in Nat /\ DOMAIN seq = 1..tt.nstops /\ \A k \in 1..tt.nstops : seq[k] \in Stops
  BY TimetablesAssumption DEF Loaded, tt, IsCompiled, Ascending, Stops, StopsOf
<1>h. h.prev = prev /\ h.first = first /\ h.from = way.from
  OBVIOUS
<1> HIDE DEF h
<1>1. RidAroundGood(h, 0, acc)
  BY <1>h DEF RidAroundGood
<1>2. ASSUME NEW k \in 1..tt.nstops, NEW a, RidAroundGood(h, k - 1, a)
      PROVE  RidAroundGood(h, k, WalkStep(way, a, seq[k]))
  <2> DEFINE d == seq[k]
  <2>1. d \in Stops
    BY <1>0
  <2> HIDE DEF d
  <2>2. RidAroundGood(h, k, WalkStep(way, a, d))
    BY <1>h, <1>2, <2>1, RideWalkOnce DEF RidAroundGood, WalkStep
  <2> QED BY <2>2 DEF d
<1>3. RidAroundGood(h, tt.nstops, RideAround!Folded(way, acc, seq))
  <2> HIDE DEF seq
  <2> QED BY <1>0, <1>1, <1>2, RideAround!FoldKeeps, NatsFrom
<1>4. WalkAround(acc, way) = RideAround!Folded(way, acc, seq)
  BY DEF WalkAround, WalkStep, RideAround!Folded,
         FoldLeft, MapThenFoldSet, Max, RideAround!Largest
<1> QED BY <1>h, <1>3, <1>4 DEF RidAroundGood

RodeStep(p, acc, s) == IF ~Rode(acc.row, s) THEN acc ELSE WalkAround(acc, [from |-> s, ub |-> p])
RodeGood(h, n, acc) == Rounded(acc, h.prev, h.first)
Riding == INSTANCE FoldLaws WITH Step <- RodeStep, Good <- RodeGood

\* Walking from the stops that rides improved.
LEMMA RideWalk ==
  ASSUME Loaded, NEW prev, NEW first, Numbered(first), NEW acc, Rounded(acc, prev, first),
         NEW list, IsSeq(list), ToSet(list) \subseteq Stops, NEW ub
  PROVE  Rounded(Walk(acc, list, ub, Rode), prev, first)
<1> DEFINE h == [prev |-> prev, first |-> first]
<1>h. h.prev = prev /\ h.first = first
  OBVIOUS
<1> HIDE DEF h
<1>0. Len(list) \in Nat /\ DOMAIN list = 1..Len(list) /\ \A k \in 1..Len(list) : list[k] \in Stops
  BY IsSeqHas
<1>1. RodeGood(h, 0, acc)
  BY <1>h DEF RodeGood
<1>2. ASSUME NEW k \in 1..Len(list), NEW a, RodeGood(h, k - 1, a) PROVE RodeGood(h, k, RodeStep(ub, a, list[k]))
  <2> DEFINE s == list[k]
             way == [from |-> s, ub |-> ub]
  <2>1. s \in Stops /\ way.from = s
    BY <1>0
  <2> HIDE DEF s, way
  <2>2. CASE ~Rode(a.row, s)
    BY <1>2, <2>2 DEF RodeGood, RodeStep, s
  <2>3. CASE Rode(a.row, s)
    <3>1. Nearer(a.row, first, s)
      BY <1>h, <1>2, <2>1, <2>3 DEF Rode, RodeGood, Rounded, RideRow, RideLabel, Nearer
    <3>2. Rounded(WalkAround(a, way), prev, first)
      BY <1>h, <1>2, <2>1, <3>1, RideWalkAround DEF RodeGood
    <3> QED BY <1>h, <2>3, <3>2 DEF RodeGood, RodeStep, s, way
  <2> QED BY <2>2, <2>3
<1>3. RodeGood(h, Len(list), Riding!Folded(ub, acc, list))
  BY <1>0, <1>1, <1>2, Riding!FoldKeeps, NatsFrom
<1>4. Walk(acc, list, ub, Rode) = Riding!Folded(ub, acc, list)
  BY DEF Walk, RodeStep, Riding!Folded,
         FoldLeft, MapThenFoldSet, Max, Riding!Largest
<1> QED BY <1>h, <1>3, <1>4 DEF RodeGood

-----------------------------------------------------------------------------
(* Scanning a pattern                                                      *)

\* An arrival that the overlay states is a number.
ArrivalsKnown == \A t \in 1..Len(tt.trips) : \A i \in 1..Len(tt.trips[t].stops) : TripArr(tt, ov, t, i) \in Int

\* Stops without a label were not reached.
Unreached(prev) == \A s \in Stops : prev[s].kind = "none" => prev[s].time >= Inf

\* The trip held was boarded at an earlier position, where the round before came.
ScanFields == {"row", "best", "marks", "trip", "board", "boardStop"}
HoldsTrip(acc, p, prev, pos) ==
  LET stops == tt.pats[p].stops
  IN  /\ DOMAIN acc = ScanFields
      /\ acc.trip # 0 =>
           /\ acc.trip \in tt.pats[p].lo..tt.pats[p].hi /\ acc.board \in 1..pos
           /\ stops[acc.board] = acc.boardStop /\ prev[acc.boardStop].kind # "none"

\* A pattern's stops and trips.
LEMMA PatternIs ==
  ASSUME Loaded, NEW p \in Pats
  PROVE  LET stops == tt.pats[p].stops
         IN  /\ Len(stops) \in Nat /\ \A i \in 1..Len(stops) : stops[i] \in Stops
             /\ tt.pats[p].lo \in Nat /\ tt.pats[p].hi \in Nat
             /\ \A t \in tt.pats[p].lo..tt.pats[p].hi : t \in 1..Len(tt.trips) /\ tt.trips[t].stops = stops
<1>1. IsCompiled(tt)
  BY TimetablesAssumption DEF Loaded, tt
<1>2. tt.pats[p].stops \in Seq(Stops)
  BY <1>1 DEF IsCompiled, Pats, Stops, StopsOf
<1> QED BY <1>1, <1>2 DEF IsCompiled, Pats

\* Alighting writes a ride to the stop.
LEMMA AlightRides ==
  ASSUME Loaded, ArrivalsKnown, NEW prev, NEW first, Numbered(first), NEW p \in Pats,
         NEW pos \in 1..Len(tt.pats[p].stops), NEW day \in Int,
         NEW acc, Rounded(acc, prev, first), HoldsTrip(acc, p, prev, pos - 1)
  PROVE  LET a == AlightAt(acc, pos, tt.pats[p].stops[pos], day)
         IN  Rounded(a, prev, first) /\ HoldsTrip(a, p, prev, pos - 1)
<1> DEFINE stops == tt.pats[p].stops
           s == stops[pos]
           arr == AddDay(TripArr(tt, ov, acc.trip, pos), day)
           l == [time |-> arr, kind |-> "ride", trip |-> acc.trip,
                 board |-> acc.board, from |-> acc.boardStop, day |-> day]
           a == [acc EXCEPT !.row[s] = l, !.best[s] = arr, !.marks = Marks(acc.marks, s)]
<1>0. /\ Len(stops) \in Nat /\ s \in Stops /\ \A i \in 1..Len(stops) : stops[i] \in Stops
      /\ \A t \in tt.pats[p].lo..tt.pats[p].hi : t \in 1..Len(tt.trips) /\ tt.trips[t].stops = stops
  BY PatternIs
<1>1. CASE acc.trip = 0 \/ StopSkipped(ov, acc.trip, pos) \/ ~(arr < acc.best[s] /\ arr < upper)
  BY <1>1 DEF AlightAt, DropAt
<1>2. CASE ~(acc.trip = 0 \/ StopSkipped(ov, acc.trip, pos) \/ ~(arr < acc.best[s] /\ arr < upper))
  <2>1. AlightAt(acc, pos, s, day) = a
    BY <1>2 DEF AlightAt, DropAt
  <2>2. /\ acc.trip \in tt.pats[p].lo..tt.pats[p].hi /\ acc.board \in 1..(pos - 1)
        /\ stops[acc.board] = acc.boardStop /\ prev[acc.boardStop].kind # "none" /\ DOMAIN acc = ScanFields
    BY <1>2 DEF HoldsTrip
  <2>3. TripArr(tt, ov, acc.trip, pos) \in Int
    BY <1>0, <2>2 DEF ArrivalsKnown
  <2>4. arr \in Nat
    BY <2>3, TimesAssumption DEF AddDay
  <2>5. acc.board \in 1..Len(stops) /\ pos \in (acc.board + 1)..Len(stops) /\ acc.boardStop \in Stops
    BY <1>0, <2>2
  <2>6. DOMAIN acc.row = Stops /\ DOMAIN acc.best = Stops /\ acc.best[s] = acc.row[s].time
        /\ acc.row[s].time \in Nat /\ acc.row[s].time <= first[s].time /\ first[s].time \in Nat
    BY <1>0 DEF Rounded, Written, RideRow, RideLabel, Numbered
  <2>7. /\ DOMAIN a = DOMAIN acc /\ a.row = [acc.row EXCEPT ![s] = l] /\ a.best = [acc.best EXCEPT ![s] = arr]
        /\ a.marks = Marks(acc.marks, s) /\ a.trip = acc.trip /\ a.board = acc.board /\ a.boardStop = acc.boardStop
    BY <2>2, <2>6 DEF ScanFields
  <2>8. /\ DOMAIN l = LabelFields /\ l.time = arr /\ l.kind = "ride" /\ l.from = acc.boardStop
        /\ l.trip = acc.trip /\ l.board = acc.board /\ l.day = day
    BY DEF LabelFields
  <2>9. arr < acc.row[s].time
    BY <1>2, <2>6
  <2> HIDE DEF a, l, arr
  <2>10. RidesTo(l, s)
    BY <2>2, <2>5, <2>8 DEF RidesTo
  <2> HIDE DEF s
  <2>11. a.row[s] = l
    BY <1>0, <2>6, <2>7
  <2>12. RideLabel(a.row, prev, first, s)
    BY <2>2, <2>4, <2>5, <2>6, <2>8, <2>9, <2>10, <2>11 DEF RideLabel
  <2>13. {"row", "best", "marks"} \subseteq DOMAIN a
    BY <2>2, <2>7 DEF ScanFields
  <2>14. Rounded(a, prev, first)
    BY <1>0, <2>4, <2>7, <2>8, <2>9, <2>12, <2>13, Improved
  <2>15. HoldsTrip(a, p, prev, pos - 1)
    BY <2>7 DEF HoldsTrip
  <2> QED BY <2>1, <2>14, <2>15 DEF s
<1> QED BY <1>1, <1>2

\* A trip that is caught is one of the pattern.
LEMMA CatchIs ==
  ASSUME Loaded, NEW p \in Pats, NEW held \in Int, held # 0 => held \in tt.pats[p].lo..tt.pats[p].hi,
         NEW pos, NEW active, NEW day, NEW ready,
         CatchAt(held, p, pos, active, day, ready) # 0
  PROVE  CatchAt(held, p, pos, active, day, ready) \in tt.pats[p].lo..tt.pats[p].hi
<1> DEFINE trips == tt.pats[p].lo..(IF held = 0 THEN tt.pats[p].hi ELSE held - 1)
           board == {t \in trips : Boardable(t, pos, active)}
           catch == {t \in board : Catchable(t, pos, day, ready)}
           lost  == board \ catch
           after == IF held = 0 \/ lost = {} THEN catch ELSE {t \in catch : t > MaxOf(lost)}
<1>0. tt.pats[p].lo \in Nat /\ tt.pats[p].hi \in Nat
  BY PatternIs
<1>1. trips \in SUBSET (tt.pats[p].lo..tt.pats[p].hi)
  BY <1>0
<1>2. after \in SUBSET trips
  OBVIOUS
<1>3. after # {} /\ CatchAt(held, p, pos, active, day, ready) = MinOf(after)
  BY DEF CatchAt
<1> HIDE DEF after, trips
<1>4. after \in SUBSET Nat
  BY <1>0, <1>1, <1>2
<1>5. MinOf(after) \in after
  BY <1>3, <1>4, LeastExists DEF MinOf
<1> QED BY <1>1, <1>2, <1>3, <1>5

\* Boarding remembers where, and only where the round before came.
LEMMA BoardHolds ==
  ASSUME Loaded, NEW prev, Unreached(prev), lab[round - 1] = prev, NEW line, line.pat \in Pats,
         NEW pos \in 1..Len(tt.pats[line.pat].stops),
         NEW acc, HoldsTrip(acc, line.pat, prev, pos - 1)
  PROVE  LET s == tt.pats[line.pat].stops[pos]
             a == BoardAt(acc, line.pat, pos, s, line.active, line.day)
         IN  /\ HoldsTrip(a, line.pat, prev, pos)
             /\ a.row = acc.row /\ a.best = acc.best /\ a.marks = acc.marks
<1> DEFINE p == line.pat
           s == tt.pats[p].stops[pos]
           row == lab[round - 1]
           ready == row[s].time + WaitAt(row, s, tt.pats[p].rail)
           t == CatchAt(acc.trip, p, pos, line.active, line.day, ready)
           a == [acc EXCEPT !.trip = t, !.board = pos, !.boardStop = s]
<1>0. Len(tt.pats[p].stops) \in Nat /\ s \in Stops /\ tt.pats[p].lo \in Nat /\ tt.pats[p].hi \in Nat
  BY PatternIs
<1>1. CASE row[s].time >= Inf \/ t = 0
  <2>1. BoardAt(acc, p, pos, s, line.active, line.day) = acc
    BY <1>1 DEF BoardAt
  <2>2. HoldsTrip(acc, p, prev, pos)
    BY <1>0 DEF HoldsTrip
  <2> HIDE DEF s
  <2> QED BY <2>1, <2>2 DEF s
<1>2. CASE ~(row[s].time >= Inf \/ t = 0)
  <2>1. BoardAt(acc, p, pos, s, line.active, line.day) = a
    BY <1>2 DEF BoardAt
  <2>2. DOMAIN acc = ScanFields
    BY DEF HoldsTrip
  <2>3. acc.trip \in Int /\ (acc.trip # 0 => acc.trip \in tt.pats[p].lo..tt.pats[p].hi)
    BY <1>0 DEF HoldsTrip
  <2>4. t \in tt.pats[p].lo..tt.pats[p].hi
    <3> HIDE DEF ready, s, p
    <3>1. p \in Pats
      BY DEF p
    <3> QED BY <1>2, <2>3, <3>1, CatchIs
  <2> HIDE DEF t
  <2>5. prev[s].kind # "none"
    BY <1>0, <1>2 DEF Unreached
  <2>6. /\ DOMAIN a = ScanFields /\ a.trip = t /\ a.board = pos /\ a.boardStop = s
        /\ a.row = acc.row /\ a.best = acc.best /\ a.marks = acc.marks
    BY <2>2 DEF ScanFields
  <2> HIDE DEF a
  <2>7. pos \in 1..pos
    BY <1>0
  <2>8. HoldsTrip(a, p, prev, pos)
    BY <2>4, <2>5, <2>6, <2>7 DEF HoldsTrip
  <2> QED BY <2>1, <2>6, <2>8
<1> QED BY <1>1, <1>2

ScanStep(p, acc, pos) == ServeStop(acc, p, pos, tt.pats[p.pat].stops[pos])
ScanGood(h, n, acc) == Rounded(acc, h.prev, h.first) /\ HoldsTrip(acc, h.pat, h.prev, h.start + n - 1)
Scanning == INSTANCE FoldLaws WITH Step <- ScanStep, Good <- ScanGood

\* A pattern scanned writes rides from where the round before came.
LEMMA ScanRides ==
  ASSUME Loaded, ArrivalsKnown, NEW prev, NEW first, Numbered(first), Unreached(prev), lab[round - 1] = prev,
         NEW line, line.pat \in Pats, line.day \in Int,
         NEW start \in 1..Len(tt.pats[line.pat].stops), NEW acc, Rounded(acc, prev, first)
  PROVE  Rounded(ScanPattern(acc, line, start), prev, first)
<1> DEFINE n == Len(tt.pats[line.pat].stops) - start + 1
           seq == [i \in 1..n |-> start + i - 1]
           base == [row |-> acc.row, best |-> acc.best, marks |-> acc.marks,
                    trip |-> 0, board |-> 0, boardStop |-> 0]
           h == [prev |-> prev, first |-> first, pat |-> line.pat, start |-> start]
<1>0. n \in Nat /\ DOMAIN seq = 1..n /\ start \in Nat /\ Len(tt.pats[line.pat].stops) \in Nat
  <2>1. Len(tt.pats[line.pat].stops) \in Nat
    BY PatternIs
  <2> QED BY <2>1
<1>h. h.prev = prev /\ h.first = first /\ h.pat = line.pat /\ h.start = start
  OBVIOUS
<1> HIDE DEF h
<1>1. ScanGood(h, 0, base)
  <2>1. /\ DOMAIN base = ScanFields /\ base.trip = 0
        /\ base.row = acc.row /\ base.best = acc.best /\ base.marks = acc.marks
    BY DEF ScanFields
  <2> HIDE DEF base
  <2>2. Rounded(base, prev, first)
    BY <2>1 DEF Rounded, Written, ScanFields
  <2> QED BY <1>h, <2>1, <2>2 DEF ScanGood, HoldsTrip
<1>2. ASSUME NEW k \in 1..n, NEW a, ScanGood(h, k - 1, a) PROVE ScanGood(h, k, ScanStep(line, a, seq[k]))
  <2> DEFINE pos == seq[k]
             s == tt.pats[line.pat].stops[pos]
             b == AlightAt(a, pos, s, line.day)
             c == BoardAt(b, line.pat, pos, s, line.active, line.day)
  <2>1. pos \in 1..Len(tt.pats[line.pat].stops) /\ pos = start + k - 1 /\ pos - 1 = start + (k - 1) - 1
    BY <1>0
  <2> HIDE DEF pos
  <2>2. Rounded(a, prev, first) /\ HoldsTrip(a, line.pat, prev, pos - 1)
    BY <1>h, <1>2, <2>1 DEF ScanGood
  <2>3. Rounded(b, prev, first) /\ HoldsTrip(b, line.pat, prev, pos - 1)
    BY <2>1, <2>2, AlightRides
  <2> HIDE DEF b
  <2>4. HoldsTrip(c, line.pat, prev, pos) /\ c.row = b.row /\ c.best = b.best /\ c.marks = b.marks
    BY <2>1, <2>3, BoardHolds
  <2>5. ScanStep(line, a, pos) = c
    BY DEF ScanStep, ServeStop, b
  <2> HIDE DEF c
  <2>6. Rounded(c, prev, first)
    BY <2>3, <2>4 DEF Rounded, Written, HoldsTrip, ScanFields
  <2>7. ScanGood(h, k, c)
    BY <1>h, <2>1, <2>4, <2>6 DEF ScanGood
  <2> QED BY <2>5, <2>7 DEF pos
<1>3. ScanGood(h, n, Scanning!Folded(line, base, seq))
  <2> HIDE DEF seq, base, n
  <2> QED BY <1>0, <1>1, <1>2, Scanning!FoldKeeps, NatsFrom
<1>4. ScanPattern(acc, line, start) = Scanning!Folded(line, base, seq)
  BY DEF ScanPattern, ScanStep, Scanning!Folded,
         FoldLeft, MapThenFoldSet, Max, Scanning!Largest
<1> QED BY <1>h, <1>3, <1>4 DEF ScanGood

-----------------------------------------------------------------------------
(* The queue of patterns                                                   *)

\* Each is queued once, with a position on it, and no other has one.
QueueIs(min, list) ==
  /\ DOMAIN min = Pats /\ IsSeq(list) /\ ToSet(list) \subseteq Pats
  /\ \A i, j \in 1..Len(list) : list[i] = list[j] => i = j
  /\ \A p \in Pats : IF p \in ToSet(list) THEN min[p] \in 1..Len(tt.pats[p].stops) ELSE min[p] = 0

Visits == {at \in [pat : Pats, pos : Nat] : at.pos \in 1..Len(tt.pats[at.pat].stops)}

\* Where a stop is served.
LEMMA ServedAt ==
  ASSUME Loaded, NEW s
  PROVE  IsSeq(PatternsOf(tt, s)) /\ ToSet(PatternsOf(tt, s)) \subseteq Visits
<1> DEFINE At(p) == AscendingIn(Len(tt.pats[p].stops), {i \in 1..Len(tt.pats[p].stops) : tt.pats[p].stops[i] = s})
           visits(p) == [i \in 1..Len(At(p)) |-> [pat |-> p, pos |-> At(p)[i]]]
           seqs == [p \in Pats |-> visits(p)]
<1>0. Len(tt.pats) \in Nat /\ Pats = 1..Len(tt.pats)
  BY TimetablesAssumption DEF Loaded, tt, IsCompiled, Pats
<1>1. ASSUME NEW p \in Pats PROVE IsSeq(visits(p)) /\ ToSet(visits(p)) \subseteq Visits
  <2> DEFINE at == At(p)
             n == Len(at)
  <2>0. Len(tt.pats[p].stops) \in Nat
    BY PatternIs
  <2>1. IsSeq(at) /\ ToSet(at) \subseteq 1..Len(tt.pats[p].stops)
    BY <2>0, AscendingInIs
  <2>2. n \in Nat /\ \A i \in 1..n : at[i] \in 1..Len(tt.pats[p].stops)
    BY <2>1, IsSeqHas
  <2>3. visits(p) = [i \in 1..n |-> [pat |-> p, pos |-> at[i]]]
    OBVIOUS
  <2> HIDE DEF at, n
  <2>4. \A i \in 1..n : [pat |-> p, pos |-> at[i]] \in Visits
    BY <2>2 DEF Visits
  <2>5. [i \in 1..n |-> [pat |-> p, pos |-> at[i]]] \in Seq(Visits)
    BY <2>2, <2>4
  <2> QED BY <2>3, <2>5, SeqIs
<1>2. DOMAIN seqs = 1..Len(tt.pats) /\ \A p \in 1..Len(tt.pats) : IsSeq(seqs[p]) /\ ToSet(seqs[p]) \subseteq Visits
  BY <1>0, <1>1
<1>3. PatternsOf(tt, s) = Joined(seqs)
  BY DEF PatternsOf, Pats
<1> HIDE DEF seqs
<1>4. IsSeq(Joined(seqs)) /\ ToSet(Joined(seqs)) = UNION {ToSet(seqs[p]) : p \in 1..Len(tt.pats)}
  BY <1>0, <1>2, JoinedIs
<1>5. UNION {ToSet(seqs[p]) : p \in 1..Len(tt.pats)} \subseteq Visits
  BY <1>2
<1> QED BY <1>3, <1>4, <1>5

\* Appending what is not yet in a list.
LEMMA AppendNew ==
  ASSUME NEW s, IsSeq(s), \A i, j \in 1..Len(s) : s[i] = s[j] => i = j, NEW x, x \notin ToSet(s)
  PROVE  \A i, j \in 1..Len(Append(s, x)) : Append(s, x)[i] = Append(s, x)[j] => i = j
<1>1. /\ Len(s) \in Nat /\ Len(Append(s, x)) = Len(s) + 1
      /\ \A i \in 1..Len(s) : Append(s, x)[i] = s[i] /\ s[i] \in ToSet(s)
      /\ Append(s, x)[Len(s) + 1] = x
  <2>1. s \in Seq(ToSet(s) \cup {x})
    BY DEF IsSeq
  <2> QED BY <2>1, IsSeqHas
<1> QED BY <1>1

\* Queueing a pattern.
LEMMA QueueOne ==
  ASSUME Loaded, NEW acc, DOMAIN acc = {"min", "list"}, QueueIs(acc.min, acc.list), NEW at \in Visits
  PROVE  DOMAIN Queue(acc, at) = {"min", "list"} /\ QueueIs(Queue(acc, at).min, Queue(acc, at).list)
<1> DEFINE p == at.pat
           pos == at.pos
<1>0. p \in Pats /\ pos \in 1..Len(tt.pats[p].stops) /\ Len(tt.pats[p].stops) \in Nat
  <2>1. p \in Pats /\ pos \in 1..Len(tt.pats[p].stops)
    BY DEF Visits
  <2> QED BY <2>1, PatternIs
<1> HIDE DEF p, pos
<1>1. CASE acc.min[p] = 0
  <2> DEFINE min == [acc.min EXCEPT ![p] = pos]
             list == Append(acc.list, p)
  <2>1. Queue(acc, at) = [min |-> min, list |-> list]
    BY <1>1 DEF Queue, p, pos
  <2>2. IsSeq(list) /\ ToSet(list) = ToSet(acc.list) \cup {p}
    BY AppendIs DEF QueueIs
  <2>3. p \notin ToSet(acc.list)
    BY <1>0, <1>1 DEF QueueIs
  <2>4. \A i, j \in 1..Len(list) : list[i] = list[j] => i = j
    BY <2>3, AppendNew DEF QueueIs
  <2>5. DOMAIN min = Pats /\ min[p] = pos /\ \A x \in Pats : x # p => min[x] = acc.min[x]
    BY <1>0 DEF QueueIs
  <2> HIDE DEF min, list
  <2>6. QueueIs(min, list)
    BY <1>0, <2>2, <2>4, <2>5 DEF QueueIs
  <2> QED BY <2>1, <2>6
<1>2. CASE acc.min[p] # 0
  <2> DEFINE min == [acc.min EXCEPT ![p] = Less(@, pos)]
  <2>1. Queue(acc, at) = [acc EXCEPT !.min = min]
    BY <1>2 DEF Queue, p, pos
  <2>2. p \in ToSet(acc.list) /\ acc.min[p] \in 1..Len(tt.pats[p].stops)
    BY <1>0, <1>2 DEF QueueIs
  <2>3. DOMAIN min = Pats /\ min[p] \in 1..Len(tt.pats[p].stops) /\ \A x \in Pats : x # p => min[x] = acc.min[x]
    BY <1>0, <2>2 DEF QueueIs, Less
  <2> HIDE DEF min
  <2>4. QueueIs(min, acc.list)
    BY <2>2, <2>3 DEF QueueIs
  <2> QED BY <2>1, <2>4
<1> QED BY <1>1, <1>2

QueueStep(p, acc, at) == Queue(acc, at)
QueueGood(h, n, acc) == DOMAIN acc = {"min", "list"} /\ QueueIs(acc.min, acc.list)
Queueing == INSTANCE FoldLaws WITH Step <- QueueStep, Good <- QueueGood

\* Queueing a list of patterns.
LEMMA QueueAll ==
  ASSUME Loaded, NEW acc, DOMAIN acc = {"min", "list"}, QueueIs(acc.min, acc.list),
         NEW serving, IsSeq(serving), ToSet(serving) \subseteq Visits
  PROVE  LET queue == FoldLeft(Queue, acc, serving)
         IN  QueueIs(queue.min, queue.list)
<1>0. Len(serving) \in Nat /\ DOMAIN serving = 1..Len(serving) /\ \A k \in 1..Len(serving) : serving[k] \in Visits
  BY IsSeqHas
<1>1. QueueGood(0, 0, acc)
  BY DEF QueueGood
<1>2. ASSUME NEW k \in 1..Len(serving), NEW a, QueueGood(0, k - 1, a)
      PROVE  QueueGood(0, k, QueueStep(0, a, serving[k]))
  <2> DEFINE at == serving[k]
  <2>1. at \in Visits
    BY <1>0
  <2> HIDE DEF at
  <2>2. QueueGood(0, k, QueueStep(0, a, at))
    BY <1>2, <2>1, QueueOne DEF QueueGood, QueueStep
  <2> QED BY <2>2 DEF at
<1>3. QueueGood(0, Len(serving), Queueing!Folded(0, acc, serving))
  BY <1>0, <1>1, <1>2, Queueing!FoldKeeps, NatsFrom
<1>4. FoldLeft(Queue, acc, serving) = Queueing!Folded(0, acc, serving)
  BY DEF QueueStep, Queueing!Folded,
         FoldLeft, MapThenFoldSet, Max, Queueing!Largest
<1> QED BY <1>3, <1>4 DEF QueueGood

\* The rest of a list.
LEMMA TailIs ==
  ASSUME NEW s, IsSeq(s), s # <<>>, \A i, j \in 1..Len(s) : s[i] = s[j] => i = j
  PROVE  /\ IsSeq(Tail(s)) /\ Head(s) \in ToSet(s) /\ ToSet(Tail(s)) = ToSet(s) \ {Head(s)}
         /\ \A i, j \in 1..Len(Tail(s)) : Tail(s)[i] = Tail(s)[j] => i = j
<1> DEFINE t == Tail(s)
           n == Len(s)
<1>1. /\ n \in Nat /\ n > 0 /\ Head(s) = s[1] /\ t \in Seq(ToSet(s)) /\ Len(t) = n - 1 /\ DOMAIN t = 1..(n - 1)
      /\ \A i \in 1..(n - 1) : t[i] = s[i + 1]
      /\ DOMAIN s = 1..n
  <2>1. s \in Seq(ToSet(s))
    BY DEF IsSeq
  <2> QED BY <2>1
<1> HIDE DEF t, n
<1>2. \A i, j \in 1..n : s[i] = s[j] => i = j
  BY DEF n
<1>3. ToSet(t) = ToSet(s) \ {s[1]}
  <2>1. \A i \in 1..(n - 1) : i + 1 \in 1..n /\ i + 1 # 1
    BY <1>1
  <2>2. \A j \in 1..n : j # 1 => j - 1 \in 1..(n - 1) /\ (j - 1) + 1 = j
    BY <1>1
  <2>3. 1 \in 1..n
    BY <1>1
  <2>4. ToSet(t) = {t[i] : i \in 1..(n - 1)} /\ ToSet(s) = {s[i] : i \in 1..n}
    BY <1>1 DEF ToSet
  <2>5. \A i \in 1..(n - 1) : t[i] \in ToSet(s) /\ t[i] # s[1]
    BY <1>1, <1>2, <2>1, <2>3, <2>4
  <2>6. \A j \in 1..n : s[j] # s[1] => s[j] \in ToSet(t)
    <3> TAKE j \in 1..n
    <3> HAVE s[j] # s[1]
    <3>1. j # 1
      OBVIOUS
    <3>2. t[j - 1] = s[j]
      BY <1>1, <2>2, <3>1
    <3> QED BY <2>2, <2>4, <3>1, <3>2
  <2> QED BY <2>4, <2>5, <2>6
<1>4. \A i, j \in 1..(n - 1) : t[i] = t[j] => i = j
  <2>1. \A i \in 1..(n - 1) : i + 1 \in 1..n
    BY <1>1
  <2>2. \A i, j \in 1..(n - 1) : i + 1 = j + 1 => i = j
    BY <1>1
  <2> QED BY <1>1, <1>2, <2>1, <2>2
<1>5. IsSeq(t) /\ s[1] \in ToSet(s)
  <2>1. IsSeq(t)
    BY <1>1, SeqIs
  <2>2. 1 \in 1..n
    BY <1>1
  <2> QED BY <1>1, <2>1, <2>2 DEF ToSet
<1> QED BY <1>1, <1>3, <1>4, <1>5 DEF t

\* The pattern at the head of the queue, and the queue without it.
LEMMA Dequeue ==
  ASSUME QueueIs(patMin, patList), patList # <<>>
  PROVE  LET p == Head(patList)
         IN  p \in Pats /\ patMin[p] \in 1..Len(tt.pats[p].stops) /\ QueueIs(Scanned(p), Tail(patList))
<1> DEFINE p == Head(patList)
           rest == Tail(patList)
           min == Scanned(p)
<1>1. /\ IsSeq(rest) /\ p \in ToSet(patList) /\ ToSet(rest) = ToSet(patList) \ {p}
      /\ \A i, j \in 1..Len(rest) : rest[i] = rest[j] => i = j
  BY TailIs DEF QueueIs
<1> HIDE DEF p, rest
<1>2. p \in Pats /\ patMin[p] \in 1..Len(tt.pats[p].stops)
  BY <1>1 DEF QueueIs
<1>3. DOMAIN min = Pats /\ min[p] = 0 /\ \A x \in Pats : x # p => min[x] = patMin[x]
  BY <1>2 DEF QueueIs, Scanned
<1> HIDE DEF min
<1>4. QueueIs(min, rest)
  BY <1>1, <1>3 DEF QueueIs
<1> QED BY <1>2, <1>4 DEF p, rest, min

-----------------------------------------------------------------------------
(* A round begins with a copy of the round before.                         *)

\* A round begins with what the one before wrote: the sources ...
LEMMA CopyOfSources ==
  ASSUME NEW row, SourceRow(row)
  PROVE  RideRow(row, row, row) /\ Grows(row, row) /\ Numbered(row) /\ Unreached(row)
<1>1. \A s \in Stops : SourceLabel(row, s)
  BY DEF SourceRow
<1>2. \A s \in Stops : row[s].time \in Nat
  BY <1>1 DEF SourceLabel
<1>3. \A s \in Stops : RideLabel(row, row, row, s)
  BY <1>1, <1>2 DEF SourceLabel, RideLabel
<1> QED BY <1>1, <1>2, <1>3 DEF SourceRow, RideRow, Grows, Numbered, Unreached, SourceLabel

\* ... or the rides.
LEMMA CopyOfRides ==
  ASSUME NEW row, NEW prev, NEW first, RideRow(row, prev, first), Grows(row, prev)
  PROVE  RideRow(row, row, first) /\ Grows(row, row) /\ Unreached(row)
<1>1. \A s \in Stops : RideLabel(row, prev, first, s)
  BY DEF RideRow
<1>2. \A s \in Stops : RideLabel(row, row, first, s)
  BY <1>1 DEF RideLabel, Grows
<1> QED BY <1>1, <1>2 DEF RideRow, RideLabel, Grows, Unreached

-----------------------------------------------------------------------------
(* The rounds of a query                                                   *)

\* A query in seconds, between stops of the timetable.
QueryIs(x) ==
  /\ x.maxRides \in Nat \ {0}
  /\ DOMAIN x.sources \subseteq Stops
  /\ \A s \in DOMAIN x.sources : x.sources[s].sec \in Nat /\ x.sources[s].arr \in Int
  /\ x.slack \in Nat /\ x.entry \in Nat /\ x.change \in Nat
  /\ DOMAIN x.targets \subseteq Stops /\ \A s \in DOMAIN x.targets : x.targets[s] \in Nat

\* The last round with labels of this query, and the last with an arrival.
Completed == IF pc = "round" THEN round - 1 ELSE round
Evaluated == CASE pc = "sourceWalks" -> -1 [] pc \in {"round", "scan"} -> round - 1 [] OTHER -> round

Stage ==
  /\ pc \in {"sourceWalks", "round", "scan", "extract", "answered"}
  /\ IF pc = "sourceWalks" THEN round = 0 ELSE round \in 1..q.maxRides

RoundsAre(l, n) ==
  SourceRow(l[0]) /\ \A k \in 1..n : RideRow(l[k], l[k - 1], l[0]) /\ Grows(l[k], l[k - 1])

ArrivalsAre(l, a, t, n) ==
  \A k \in 0..q.maxRides :
    /\ a[k] \in Nat
    /\ a[k] < Inf => /\ k <= n /\ t[k] \in DOMAIN q.targets
                     /\ a[k] = l[k][t[k]].time + q.targets[t[k]]

\* Without a ride no target is reached before the sources' round says.
LeastAt(l, a) ==
  a[0] <= Inf /\ \A s \in DOMAIN q.targets : l[0][s].time < Inf => a[0] <= l[0][s].time + q.targets[s]

Sized(l, a, t) == DOMAIN l = 0..q.maxRides /\ DOMAIN a = 0..q.maxRides /\ DOMAIN t = 0..q.maxRides

Labelled ==
  /\ QueueIs(patMin, patList) /\ (patList # <<>> => pc = "scan")
  /\ pc # "idle" =>
       /\ Stage /\ QueryIs(q) /\ Sized(lab, arrAt, targetAt)
       /\ RoundsAre(lab, Completed) /\ Written(Round(Completed))
       /\ ArrivalsAre(lab, arrAt, targetAt, Evaluated)
       /\ pc # "sourceWalks" => LeastAt(lab, arrAt)

\* What a row and the best times are after a step.
RoundNext(k) == [row |-> lab'[k], best |-> best', marks |-> [set |-> marked', list |-> markList']]

\* The same after a step that leaves the network and the query as they are.
LabelledNext ==
  /\ QueueIs(patMin', patList') /\ (patList' # <<>> => pc' = "scan")
  /\ Stage' /\ Sized(lab', arrAt', targetAt')
  /\ RoundsAre(lab', Completed') /\ Written(RoundNext(Completed'))
  /\ ArrivalsAre(lab', arrAt', targetAt', Evaluated')
  /\ pc' # "sourceWalks" => LeastAt(lab', arrAt')

\* When the network and the query stay, what was shown of the next state is shown.
LEMMA SameQuery ==
  ASSUME net' = net, q' = q, QueryIs(q), LabelledNext
  PROVE  Labelled'
<1>1. QueueIs(patMin, patList)'
  BY DEF LabelledNext, QueueIs, Pats, tt
<1>2. QueryIs(q)'
  BY DEF QueryIs, Stops, StopsOf, tt
<1>3. Sized(lab, arrAt, targetAt)'
  BY DEF LabelledNext, Sized
<1>4. SourceRow(lab[0])'
  BY DEF LabelledNext, RoundsAre, SourceRow, SourceLabel, Stops, StopsOf, tt
<1>5. ASSUME NEW k \in 1..Completed' PROVE (RideRow(lab[k], lab[k - 1], lab[0]) /\ Grows(lab[k], lab[k - 1]))'
  <2>1. RideRow(lab'[k], lab'[k - 1], lab'[0]) /\ Grows(lab'[k], lab'[k - 1])
    BY DEF LabelledNext, RoundsAre
  <2>2. Grows(lab[k], lab[k - 1])'
    BY <2>1 DEF Grows, Stops, StopsOf, tt
  <2>3. RideRow(lab[k], lab[k - 1], lab[0])'
    <3>1. ASSUME NEW s \in Stops PROVE RideLabel(lab[k], lab[k - 1], lab[0], s)'
      <4>1. RideLabel(lab'[k], lab'[k - 1], lab'[0], s)
        BY <2>1 DEF RideRow
      <4>2. RidesTo(lab'[k][s], s) => RidesTo(lab[k][s], s)'
        BY Zenon DEF RidesTo, Pats, tt
      <4> QED BY <4>1, <4>2 DEF RideLabel, Stops, StopsOf, tt
    <3> QED BY <2>1, <3>1 DEF RideRow, Stops, StopsOf, tt
  <2> QED BY <2>2, <2>3
<1>6. RoundsAre(lab, Completed)'
  BY <1>4, <1>5 DEF RoundsAre
<1>7. Written(Round(Completed))'
  BY DEF LabelledNext, Written, Round, RoundNext, Stops, StopsOf, tt
<1>8. ArrivalsAre(lab, arrAt, targetAt, Evaluated)'
  BY DEF LabelledNext, ArrivalsAre
<1>9. (pc # "sourceWalks" => LeastAt(lab, arrAt))'
  BY DEF LabelledNext, LeastAt
<1> QED BY <1>1, <1>2, <1>3, <1>6, <1>7, <1>8, <1>9 DEF LabelledNext, Labelled

\* evalTargets keeps the earliest arrival of a row, and its target.
LEMMA Evaluates ==
  ASSUME Loaded, QueryIs(q), Sized(lab, arrAt, targetAt), NEW k \in 0..q.maxRides, NEW row,
         \A s \in Stops : row[s].time \in Nat, EvalTargets(k, row)
  PROVE  /\ arrAt' = [arrAt EXCEPT ![k] = arrAt'[k]] /\ targetAt' = [targetAt EXCEPT ![k] = targetAt'[k]]
         /\ arrAt'[k] \in Nat /\ arrAt'[k] <= Inf
         /\ arrAt'[k] < Inf => /\ targetAt'[k] \in DOMAIN q.targets
                               /\ arrAt'[k] = row[targetAt'[k]].time + q.targets[targetAt'[k]]
         /\ \A s \in DOMAIN q.targets : row[s].time < Inf => arrAt'[k] <= row[s].time + q.targets[s]
<1> DEFINE targets == BestTargets(row)
<1>0. Inf \in Nat /\ \A s \in DOMAIN q.targets : row[s].time \in Nat /\ q.targets[s] \in Nat /\ ArrivalAt(row, s) \in Nat
  BY TimesAssumption DEF QueryIs, ArrivalAt
<1>1. PICK t \in (IF targets = {} THEN {0} ELSE targets) :
        /\ arrAt' = [arrAt EXCEPT ![k] = IF t = 0 THEN Inf ELSE ArrivalAt(row, t)]
        /\ targetAt' = [targetAt EXCEPT ![k] = t]
  BY DEF EvalTargets
<1>2. arrAt'[k] = (IF t = 0 THEN Inf ELSE ArrivalAt(row, t)) /\ targetAt'[k] = t
  BY <1>1 DEF Sized
<1>3. arrAt' = [arrAt EXCEPT ![k] = arrAt'[k]] /\ targetAt' = [targetAt EXCEPT ![k] = targetAt'[k]]
  BY <1>1, <1>2
<1>4. CASE targets # {}
  <2>1. /\ t \in DOMAIN q.targets /\ ArrivalAt(row, t) < Inf
        /\ \A u \in DOMAIN q.targets : ArrivalAt(row, t) <= ArrivalAt(row, u)
    BY <1>4 DEF BestTargets
  <2>2. t # 0
    BY <2>1 DEF QueryIs, Stops, StopsOf
  <2>3. ArrivalAt(row, t) = row[t].time + q.targets[t]
    BY <1>0, <2>1 DEF ArrivalAt
  <2>4. \A s \in DOMAIN q.targets : row[s].time < Inf => ArrivalAt(row, s) = row[s].time + q.targets[s]
    BY <1>0 DEF ArrivalAt
  <2> QED BY <1>0, <1>2, <1>3, <2>1, <2>2, <2>3, <2>4
<1>5. CASE targets = {}
  <2>1. t = 0 /\ arrAt'[k] = Inf
    BY <1>1, <1>2, <1>5
  <2>2. ASSUME NEW s \in DOMAIN q.targets, ArrivalAt(row, s) < Inf PROVE FALSE
    <3> DEFINE S == {ArrivalAt(row, u) : u \in DOMAIN q.targets}
    <3>1. S \in SUBSET Nat /\ S # {}
      BY <1>0
    <3>2. PICK x \in S : \A y \in S : x <= y
      <4> HIDE DEF S
      <4> QED BY <3>1, LeastExists
    <3>3. PICK u \in DOMAIN q.targets : ArrivalAt(row, u) = x
      BY <3>2
    <3>4. \A v \in DOMAIN q.targets : ArrivalAt(row, u) <= ArrivalAt(row, v)
      BY <3>2, <3>3
    <3>5. ArrivalAt(row, u) < Inf
      BY <1>0, <2>2, <3>4
    <3>6. u \in targets
      BY <3>4, <3>5 DEF BestTargets
    <3> QED BY <1>5, <3>6
  <2>3. \A s \in DOMAIN q.targets : row[s].time < Inf => Inf <= row[s].time + q.targets[s]
    BY <1>0, <2>2 DEF ArrivalAt
  <2> QED BY <1>0, <1>3, <2>1, <2>3
<1> QED BY <1>4, <1>5

\* A step that writes row k of those done before.
LEMMA Writes ==
  ASSUME Sized(lab, arrAt, targetAt), NEW k \in 0..q.maxRides, NEW acc, Write(k, acc)
  PROVE  /\ DOMAIN lab' = 0..q.maxRides /\ lab'[k] = acc.row
         /\ \A j \in 0..q.maxRides : j # k => lab'[j] = lab[j]
         /\ best' = acc.best /\ marked' = acc.marks.set /\ markList' = acc.marks.list
BY DEF Write, Sized

\* What has been written is written.
LEMMA WrittenNext ==
  ASSUME NEW acc, Written(acc), NEW k, lab'[k] = acc.row, best' = acc.best,
         marked' = acc.marks.set, markList' = acc.marks.list
  PROVE  Written(RoundNext(k))
BY DEF Written, RoundNext

\* The walks from the sources, and the first arrivals.
LEMMA SourceWalksLabelled ==
  ASSUME Loaded, Labelled, SourceWalks
  PROVE  Labelled'
<1> DEFINE acc == Walk(Round(0), markList, Inf, WalksFirst)
<1>1. /\ pc = "sourceWalks" /\ round = 0 /\ QueryIs(q) /\ Sized(lab, arrAt, targetAt) /\ q.maxRides \in Nat \ {0}
      /\ SourceRow(lab[0]) /\ Written(Round(0)) /\ QueueIs(patMin, patList) /\ patList = <<>>
  BY DEF SourceWalks, Labelled, Stage, Completed, RoundsAre, QueryIs
<1>2. Round(0).row = lab[0] /\ Round(0).marks.list = markList
  BY DEF Round
<1>3. IsSeq(markList) /\ ToSet(markList) \subseteq Stops
  BY <1>1, <1>2 DEF Written
<1>4. Written(acc) /\ SourceRow(acc.row)
  BY <1>1, <1>2, <1>3, SourceWalk
<1>5. /\ Write(0, acc) /\ EvalTargets(0, acc.row) /\ pc' = "round" /\ round' = 1
      /\ net' = net /\ q' = q /\ patMin' = patMin /\ patList' = patList
  BY DEF SourceWalks
<1> HIDE DEF acc
<1>6. /\ DOMAIN lab' = 0..q.maxRides /\ lab'[0] = acc.row
      /\ best' = acc.best /\ marked' = acc.marks.set /\ markList' = acc.marks.list
  BY <1>1, <1>5, Writes
<1>7. \A s \in Stops : acc.row[s].time \in Nat
  BY <1>4 DEF SourceRow, SourceLabel
<1>8. /\ arrAt' = [arrAt EXCEPT ![0] = arrAt'[0]] /\ targetAt' = [targetAt EXCEPT ![0] = targetAt'[0]]
      /\ arrAt'[0] \in Nat /\ arrAt'[0] <= Inf
      /\ arrAt'[0] < Inf => /\ targetAt'[0] \in DOMAIN q.targets
                            /\ arrAt'[0] = acc.row[targetAt'[0]].time + q.targets[targetAt'[0]]
      /\ \A s \in DOMAIN q.targets : acc.row[s].time < Inf => arrAt'[0] <= acc.row[s].time + q.targets[s]
  BY <1>1, <1>5, <1>7, Evaluates
<1>9. Completed' = 0 /\ Evaluated' = 0
  BY <1>5 DEF Completed, Evaluated
<1>10. RoundsAre(lab', Completed')
  BY <1>4, <1>6, <1>9 DEF RoundsAre
<1>11. \A k \in 0..q.maxRides : k # 0 => arrAt'[k] = arrAt[k] /\ arrAt[k] \in Nat /\ ~(arrAt[k] < Inf)
  <2>1. ArrivalsAre(lab, arrAt, targetAt, -1)
    BY <1>1 DEF Labelled, Evaluated
  <2> QED BY <1>1, <1>8, <2>1, TimesAssumption DEF ArrivalsAre, Sized
<1>12. ArrivalsAre(lab', arrAt', targetAt', Evaluated')
  BY <1>6, <1>8, <1>9, <1>11 DEF ArrivalsAre
<1>13. Sized(lab', arrAt', targetAt')
  BY <1>1, <1>6, <1>8 DEF Sized
<1>14. LeastAt(lab', arrAt')
  BY <1>6, <1>8 DEF LeastAt
<1>15. Written(RoundNext(Completed'))
  BY <1>4, <1>6, <1>9, WrittenNext
<1>16. Stage'
  BY <1>1, <1>5 DEF Stage
<1>17. LabelledNext
  BY <1>1, <1>5, <1>10, <1>12, <1>13, <1>14, <1>15, <1>16 DEF LabelledNext
<1> QED BY <1>1, <1>5, <1>17, SameQuery

\* The rows of a round begun, and of those before.
LEMMA RowBegun ==
  ASSUME Labelled, pc = "round"
  PROVE  LET row == lab[round - 1]
         IN  /\ RideRow(row, row, lab[0]) /\ Grows(row, row) /\ Numbered(lab[0]) /\ Unreached(row)
<1>0. round \in Nat /\ round >= 1 /\ RoundsAre(lab, round - 1)
  BY DEF Labelled, Completed, Stage, QueryIs
<1>1. SourceRow(lab[0])
  BY <1>0 DEF RoundsAre
<1>2. CASE round = 1
  BY <1>1, <1>2, CopyOfSources
<1>3. CASE round # 1
  <2>1. RideRow(lab[round - 1], lab[round - 1 - 1], lab[0]) /\ Grows(lab[round - 1], lab[round - 1 - 1])
    BY <1>0, <1>3 DEF RoundsAre
  <2> QED BY <1>1, <2>1, CopyOfRides, CopyOfSources
<1> QED BY <1>2, <1>3

\* The stops improved in the round before queue the patterns that serve them.
LEMMA BeginRoundLabelled ==
  ASSUME Loaded, Labelled, BeginRound
  PROVE  Labelled'
<1> DEFINE seqs == [i \in 1..Len(markList) |-> PatternsOf(tt, markList[i])]
           serving == Joined(seqs)
           base == [min |-> patMin, list |-> <<>>]
           queue == FoldLeft(Queue, base, serving)
           row == lab[round - 1]
<1>1. /\ pc = "round" /\ round \in 1..q.maxRides /\ QueryIs(q) /\ Sized(lab, arrAt, targetAt) /\ q.maxRides \in Nat
      /\ RoundsAre(lab, round - 1) /\ Written(Round(round - 1)) /\ QueueIs(patMin, patList) /\ patList = <<>>
      /\ ArrivalsAre(lab, arrAt, targetAt, round - 1) /\ LeastAt(lab, arrAt)
  BY DEF BeginRound, Labelled, Stage, Completed, Evaluated, QueryIs
<1>2. /\ lab' = [lab EXCEPT ![round] = row] /\ patMin' = queue.min /\ patList' = queue.list
      /\ marked' = marked \ ToSet(markList) /\ markList' = <<>> /\ pc' = "scan"
      /\ net' = net /\ q' = q /\ round' = round /\ best' = best /\ arrAt' = arrAt /\ targetAt' = targetAt
  BY DEF BeginRound, answers
<1>3. IsSeq(markList) /\ DOMAIN markList = 1..Len(markList) /\ Len(markList) \in Nat
  BY <1>1, IsSeqHas DEF Written, Round
<1>4. IsSeq(serving) /\ ToSet(serving) \subseteq Visits
  <2>1. DOMAIN seqs = 1..Len(markList) /\ \A i \in 1..Len(markList) : IsSeq(seqs[i]) /\ ToSet(seqs[i]) \subseteq Visits
    BY ServedAt
  <2> HIDE DEF seqs
  <2>2. IsSeq(serving) /\ ToSet(serving) = UNION {ToSet(seqs[i]) : i \in 1..Len(markList)}
    BY <1>3, <2>1, JoinedIs
  <2>3. UNION {ToSet(seqs[i]) : i \in 1..Len(markList)} \subseteq Visits
    BY <2>1
  <2> HIDE DEF serving
  <2> QED BY <2>2, <2>3
<1>5. QueueIs(queue.min, queue.list)
  <2>1. DOMAIN base = {"min", "list"} /\ QueueIs(base.min, base.list)
    BY <1>1
  <2> HIDE DEF base, serving
  <2> QED BY <1>4, <2>1, QueueAll
<1> HIDE DEF queue
<1>6. RideRow(row, row, lab[0]) /\ Grows(row, row)
  BY <1>1, RowBegun
<1>7. /\ lab'[round] = row /\ \A j \in 0..q.maxRides : j # round => lab'[j] = lab[j]
      /\ DOMAIN lab' = 0..q.maxRides
  BY <1>1, <1>2 DEF Sized
<1>8. Completed' = round /\ Evaluated' = round - 1 /\ lab'[0] = lab[0] /\ lab'[round - 1] = row
  BY <1>1, <1>2, <1>7 DEF Completed, Evaluated
<1>9. RoundsAre(lab', Completed')
  <2>1. ASSUME NEW k \in 1..round PROVE RideRow(lab'[k], lab'[k - 1], lab'[0]) /\ Grows(lab'[k], lab'[k - 1])
    <3>1. CASE k = round
      BY <1>6, <1>7, <1>8, <3>1
    <3>2. CASE k # round
      <4>1. k \in 1..(round - 1) /\ k - 1 # round /\ k \in 0..q.maxRides /\ k - 1 \in 0..q.maxRides
        BY <1>1, <3>2
      <4>2. lab'[k] = lab[k] /\ lab'[k - 1] = lab[k - 1]
        BY <1>7, <3>2, <4>1
      <4> QED BY <1>1, <1>8, <4>1, <4>2 DEF RoundsAre
    <3> QED BY <3>1, <3>2
  <2> QED BY <1>1, <1>8, <2>1 DEF RoundsAre
<1>10. ArrivalsAre(lab', arrAt', targetAt', Evaluated')
  BY <1>1, <1>2, <1>7, <1>8 DEF ArrivalsAre
<1>11. LeastAt(lab', arrAt') /\ Sized(lab', arrAt', targetAt')
  BY <1>1, <1>2, <1>7, <1>8 DEF LeastAt, Sized
<1>12. Written(RoundNext(Completed'))
  BY <1>1, <1>2, <1>7, <1>8, NoneIs DEF Written, Round, RoundNext
<1>13. Stage'
  BY <1>1, <1>2 DEF Stage
<1>14. LabelledNext
  BY <1>2, <1>5, <1>9, <1>10, <1>11, <1>12, <1>13 DEF LabelledNext
<1> QED BY <1>1, <1>2, <1>14, SameQuery

\* What a step that improves the row of the round leaves.
LEMMA RoundWritten ==
  ASSUME Labelled, pc = "scan", NEW acc, Rounded(acc, lab[round - 1], lab[0]), Write(round, acc)
  PROVE  /\ RoundsAre(lab', round) /\ Written(RoundNext(round)) /\ DOMAIN lab' = 0..q.maxRides
         /\ \A j \in 0..q.maxRides : j # round => lab'[j] = lab[j]
         /\ lab'[round] = acc.row
<1>1. round \in 1..q.maxRides /\ q.maxRides \in Nat /\ Sized(lab, arrAt, targetAt) /\ RoundsAre(lab, round)
  BY DEF Labelled, Stage, Completed, QueryIs
<1>2. /\ DOMAIN lab' = 0..q.maxRides /\ lab'[round] = acc.row
      /\ \A j \in 0..q.maxRides : j # round => lab'[j] = lab[j]
      /\ best' = acc.best /\ marked' = acc.marks.set /\ markList' = acc.marks.list
  BY <1>1, Writes
<1>3. RideRow(acc.row, lab[round - 1], lab[0]) /\ Grows(acc.row, lab[round - 1]) /\ Written(acc)
  BY DEF Rounded
<1>4. lab'[0] = lab[0] /\ lab'[round - 1] = lab[round - 1]
  BY <1>1, <1>2
<1>5. ASSUME NEW k \in 1..round PROVE RideRow(lab'[k], lab'[k - 1], lab'[0]) /\ Grows(lab'[k], lab'[k - 1])
  <2>1. CASE k = round
    BY <1>2, <1>3, <1>4, <2>1
  <2>2. CASE k # round
    <3>1. k \in 0..q.maxRides /\ k - 1 \in 0..q.maxRides /\ k - 1 # round
      BY <1>1, <2>2
    <3>2. lab'[k] = lab[k] /\ lab'[k - 1] = lab[k - 1]
      BY <1>2, <2>2, <3>1
    <3> QED BY <1>1, <1>4, <3>2 DEF RoundsAre
  <2> QED BY <2>1, <2>2
<1>6. Written(RoundNext(round))
  BY <1>2, <1>3, WrittenNext
<1> QED BY <1>1, <1>2, <1>4, <1>5, <1>6 DEF RoundsAre

\* The round so far, before a step of it.
LEMMA RoundSoFar ==
  ASSUME Labelled, pc = "scan"
  PROVE  /\ Rounded(Round(round), lab[round - 1], lab[0]) /\ Numbered(lab[0]) /\ Unreached(lab[round - 1])
         /\ IsSeq(markList) /\ ToSet(markList) \subseteq Stops
<1>1. round \in Nat /\ round >= 1 /\ RoundsAre(lab, round) /\ Written(Round(round))
  BY DEF Labelled, Stage, Completed, QueryIs
<1>2. RideRow(lab[round], lab[round - 1], lab[0]) /\ Grows(lab[round], lab[round - 1]) /\ SourceRow(lab[0])
  BY <1>1 DEF RoundsAre
<1>3. Unreached(lab[round - 1]) /\ Numbered(lab[0])
  <2>1. CASE round = 1
    BY <1>2, <2>1, CopyOfSources
  <2>2. CASE round # 1
    <3>1. RideRow(lab[round - 1], lab[round - 1 - 1], lab[0]) /\ Grows(lab[round - 1], lab[round - 1 - 1])
      BY <1>1, <2>2 DEF RoundsAre
    <3> QED BY <1>2, <3>1, CopyOfRides, CopyOfSources
  <2> QED BY <2>1, <2>2
<1>4. Rounded(Round(round), lab[round - 1], lab[0])
  BY <1>1, <1>2 DEF Rounded, Round
<1>5. IsSeq(markList) /\ ToSet(markList) \subseteq Stops
  BY <1>1 DEF Written, Round
<1> QED BY <1>3, <1>4, <1>5

\* A pattern is scanned, on both service days.
LEMMA ScanLabelled ==
  ASSUME Loaded, ArrivalsKnown, Labelled, Scan
  PROVE  Labelled'
<1> DEFINE p == Head(patList)
           Line(active, day) == [pat |-> p, active |-> active, day |-> day]
           one == ScanPattern(Round(round), Line(q.yesterday, -DaySec), patMin[p])
           two == ScanPattern(one, Line(q.today, 0), patMin[p])
<1>1. /\ pc = "scan" /\ patList # <<>> /\ QueueIs(patMin, patList) /\ round \in 1..q.maxRides /\ q.maxRides \in Nat
      /\ QueryIs(q) /\ Sized(lab, arrAt, targetAt) /\ ArrivalsAre(lab, arrAt, targetAt, round - 1) /\ LeastAt(lab, arrAt)
  BY DEF Scan, Labelled, Stage, Evaluated, QueryIs
<1>2. /\ Write(round, two) /\ patMin' = Scanned(p) /\ patList' = Tail(patList)
      /\ net' = net /\ q' = q /\ pc' = pc /\ round' = round /\ arrAt' = arrAt /\ targetAt' = targetAt
  BY DEF Scan, answers
<1>3. p \in Pats /\ patMin[p] \in 1..Len(tt.pats[p].stops) /\ QueueIs(Scanned(p), Tail(patList))
  BY <1>1, Dequeue
<1>4. DaySec \in Nat
  BY TimesAssumption
<1> HIDE DEF p
<1>5. Rounded(Round(round), lab[round - 1], lab[0]) /\ Numbered(lab[0]) /\ Unreached(lab[round - 1])
  BY <1>1, RoundSoFar
<1>6. Rounded(one, lab[round - 1], lab[0])
  <2> DEFINE line == Line(q.yesterday, -DaySec)
  <2>1. line.pat = p /\ line.day \in Int
    BY <1>4
  <2> HIDE DEF line
  <2>2. Rounded(ScanPattern(Round(round), line, patMin[p]), lab[round - 1], lab[0])
    BY <1>3, <1>5, <2>1, ScanRides
  <2> QED BY <2>2 DEF line
<1> HIDE DEF one
<1>7. Rounded(two, lab[round - 1], lab[0])
  <2> DEFINE line == Line(q.today, 0)
  <2>1. line.pat = p /\ line.day \in Int
    OBVIOUS
  <2> HIDE DEF line
  <2>2. Rounded(ScanPattern(one, line, patMin[p]), lab[round - 1], lab[0])
    BY <1>3, <1>5, <1>6, <2>1, ScanRides
  <2> QED BY <2>2 DEF line
<1> HIDE DEF two
<1>8. /\ RoundsAre(lab', round) /\ Written(RoundNext(round)) /\ DOMAIN lab' = 0..q.maxRides
      /\ \A j \in 0..q.maxRides : j # round => lab'[j] = lab[j]
  BY <1>1, <1>2, <1>7, RoundWritten
<1>9. Completed' = round /\ Evaluated' = round - 1 /\ lab'[0] = lab[0]
  BY <1>1, <1>2, <1>8 DEF Completed, Evaluated
<1>10. ArrivalsAre(lab', arrAt', targetAt', Evaluated')
  BY <1>1, <1>2, <1>8, <1>9 DEF ArrivalsAre
<1>11. LeastAt(lab', arrAt') /\ Sized(lab', arrAt', targetAt')
  BY <1>1, <1>2, <1>8, <1>9 DEF LeastAt, Sized
<1>12. Stage'
  BY <1>1, <1>2 DEF Stage
<1>13. LabelledNext
  BY <1>1, <1>2, <1>3, <1>8, <1>9, <1>10, <1>11, <1>12 DEF LabelledNext
<1> QED BY <1>1, <1>2, <1>13, SameQuery

\* The walks after a round's rides, and the round's arrival.
LEMMA WalkOnLabelled ==
  ASSUME Loaded, Labelled, WalkOn
  PROVE  Labelled'
<1> DEFINE acc == Walk(Round(round), markList, upper, Rode)
<1>1. /\ pc = "scan" /\ patList = <<>> /\ QueueIs(patMin, patList) /\ round \in 1..q.maxRides /\ q.maxRides \in Nat
      /\ QueryIs(q) /\ Sized(lab, arrAt, targetAt) /\ ArrivalsAre(lab, arrAt, targetAt, round - 1) /\ LeastAt(lab, arrAt)
  BY DEF WalkOn, Labelled, Stage, Evaluated, QueryIs
<1>2. /\ Write(round, acc) /\ EvalTargets(round, acc.row)
      /\ \/ pc' = "extract" /\ round' = round
         \/ round # q.maxRides /\ pc' = "round" /\ round' = round + 1
      /\ net' = net /\ q' = q /\ patMin' = patMin /\ patList' = patList
  BY DEF WalkOn
<1>3. Rounded(acc, lab[round - 1], lab[0])
  BY <1>1, RoundSoFar, RideWalk
<1> HIDE DEF acc
<1>4. /\ RoundsAre(lab', round) /\ Written(RoundNext(round)) /\ DOMAIN lab' = 0..q.maxRides
      /\ \A j \in 0..q.maxRides : j # round => lab'[j] = lab[j]
      /\ lab'[round] = acc.row
  BY <1>1, <1>2, <1>3, RoundWritten
<1>5. \A s \in Stops : acc.row[s].time \in Nat
  BY <1>3 DEF Rounded, RideRow, RideLabel
<1>6. /\ arrAt' = [arrAt EXCEPT ![round] = arrAt'[round]] /\ targetAt' = [targetAt EXCEPT ![round] = targetAt'[round]]
      /\ arrAt'[round] \in Nat
      /\ arrAt'[round] < Inf => /\ targetAt'[round] \in DOMAIN q.targets
                                /\ arrAt'[round] = acc.row[targetAt'[round]].time + q.targets[targetAt'[round]]
  BY <1>1, <1>2, <1>5, Evaluates
<1>7. Completed' = round /\ Evaluated' = round /\ lab'[0] = lab[0] /\ arrAt'[0] = arrAt[0]
  BY <1>1, <1>2, <1>4, <1>6 DEF Completed, Evaluated, Sized
<1>8. \A k \in 0..q.maxRides : k # round => arrAt'[k] = arrAt[k] /\ targetAt'[k] = targetAt[k]
  BY <1>1, <1>6 DEF Sized
<1>9. ArrivalsAre(lab', arrAt', targetAt', Evaluated')
  BY <1>1, <1>4, <1>6, <1>7, <1>8 DEF ArrivalsAre
<1>10. Sized(lab', arrAt', targetAt')
  BY <1>1, <1>4, <1>6 DEF Sized
<1>11. LeastAt(lab', arrAt')
  BY <1>1, <1>7 DEF LeastAt
<1>12. Stage'
  BY <1>1, <1>2 DEF Stage
<1>13. LabelledNext
  BY <1>1, <1>2, <1>4, <1>7, <1>9, <1>10, <1>11, <1>12 DEF LabelledNext
<1> QED BY <1>1, <1>2, <1>13, SameQuery

\* The answer leaves the labels as they are.
LEMMA FinishLabelled ==
  ASSUME Labelled, Finish
  PROVE  Labelled'
<1>1. /\ pc = "extract" /\ round \in 1..q.maxRides /\ QueryIs(q) /\ patList = <<>> /\ Written(Round(round))
  BY DEF Finish, Labelled, Stage, Completed
<1>2. /\ markList' = <<>> /\ pc' = "answered" /\ net' = net /\ q' = q /\ round' = round /\ lab' = lab /\ best' = best
      /\ patMin' = patMin /\ patList' = patList /\ arrAt' = arrAt /\ targetAt' = targetAt
  BY DEF Finish
<1>3. Completed' = Completed /\ Evaluated' = Evaluated /\ Completed = round
  BY <1>1, <1>2 DEF Completed, Evaluated
<1>4. Written(RoundNext(Completed'))
  BY <1>1, <1>2, <1>3, NoneIs DEF Written, Round, RoundNext
<1>5. Stage'
  BY <1>1, <1>2 DEF Stage
<1>6. LabelledNext
  BY <1>1, <1>2, <1>3, <1>4, <1>5 DEF LabelledNext, Labelled
<1> QED BY <1>1, <1>2, <1>6, SameQuery

-----------------------------------------------------------------------------
(* Extraction                                                              *)

\* The rides of a journey with one more leg in front.
LEMMA RidesOneMore ==
  ASSUME NEW legs, IsSeq(legs), RideCount(legs) \in Nat, NEW leg, leg.ride \in BOOLEAN
  PROVE  RideCount(<<leg>> \o legs) = RideCount(legs) + (IF leg.ride THEN 1 ELSE 0)
<1> DEFINE n == Len(legs)
           all == <<leg>> \o legs
           old == {i \in 1..n : legs[i].ride}
           moved == {i \in 2..(n + 1) : all[i].ride}
           new == {i \in 1..(n + 1) : all[i].ride}
           f == [i \in old |-> i + 1]
<1>1. /\ n \in Nat /\ Len(all) = n + 1 /\ all[1] = leg /\ \A i \in 2..(n + 1) : all[i] = legs[i - 1]
  <2>1. legs \in Seq(ToSet(legs) \cup {leg}) /\ <<leg>> \in Seq(ToSet(legs) \cup {leg})
    BY DEF IsSeq
  <2> QED BY <2>1
<1> HIDE DEF all, n
<1>2. RideCount(legs) = Cardinality(old) /\ RideCount(all) = Cardinality(new)
  BY <1>1 DEF RideCount, n
<1>3. IsFiniteSet(old)
  <2>0. n \in Int /\ 1 \in Int
    BY <1>1
  <2>1. IsFiniteSet(1..n)
    BY <2>0, FS_Interval
  <2>2. old \in SUBSET (1..n)
    OBVIOUS
  <2> HIDE DEF old
  <2> QED BY <2>1, <2>2, FS_Subset
<1>4. f \in Bijection(old, moved)
  <2>1. f \in [old -> moved]
    BY <1>1
  <2>2. \A t \in moved : t - 1 \in old /\ f[t - 1] = t
    <3> TAKE t \in moved
    <3>0. t \in 2..(n + 1) /\ n \in Nat
      BY <1>1
    <3>1. \A x \in 2..(n + 1) : x - 1 \in 1..n /\ (x - 1) + 1 = x
      BY <3>0
    <3> HIDE DEF moved
    <3>2. all[t] = legs[t - 1]
      BY <1>1, <3>0
    <3>3. t - 1 \in old
      BY <3>0, <3>1, <3>2 DEF moved
    <3> QED BY <3>0, <3>1, <3>3
  <2>3. IsInjective(f)
    BY <1>1 DEF IsInjective
  <2> QED BY <2>1, <2>2, <2>3 DEF Bijection, Injection, Surjection
<1>5. IsFiniteSet(moved) /\ Cardinality(moved) = Cardinality(old)
  <2> HIDE DEF old, moved, f
  <2> QED BY <1>3, <1>4, FS_Bijection DEF ExistsBijection
<1>6. new = IF leg.ride THEN moved \cup {1} ELSE moved
  BY <1>1
<1>7. 1 \notin moved
  OBVIOUS
<1> HIDE DEF old, moved, new
<1>8. CASE leg.ride
  <2>1. new = moved \cup {1} /\ (IF leg.ride THEN 1 ELSE 0) = 1
    BY <1>6, <1>8
  <2>2. Cardinality(new) = Cardinality(moved) + 1
    BY <1>5, <1>7, <2>1, FS_AddElement
  <2> QED BY <1>2, <1>5, <2>1, <2>2 DEF all
<1>9. CASE ~leg.ride
  <2>1. new = moved /\ (IF leg.ride THEN 1 ELSE 0) = 0
    BY <1>6, <1>9
  <2> QED BY <1>2, <1>5, <2>1 DEF all
<1> QED BY <1>8, <1>9 DEF all

\* Where a leg begins and ends.
LegFrom(l) == IF l.ride THEN tt.trips[l.trip].stops[l.board] ELSE l.from
LegTo(l)   == IF l.ride THEN tt.trips[l.trip].stops[l.alight] ELSE l.to

\* A ride of a trip between two of its stops, or a walk.
LegIs(l) ==
  IF l.ride
  THEN /\ l.trip \in Trips /\ {l.board, l.alight} \in SUBSET (1..Len(tt.trips[l.trip].stops))
       /\ l.board < l.alight /\ l.day \in Int
  ELSE l.sec \in Nat

\* Legs from a stop to another, each from where the last one ended.
Chain(legs, s, target) ==
  /\ IsSeq(legs)
  /\ IF legs = <<>> THEN s = target
     ELSE LegFrom(legs[1]) = s /\ LegTo(legs[Len(legs)]) = target
  /\ \A n \in 1..(Len(legs) - 1) : LegTo(legs[n]) = LegFrom(legs[n + 1])
  /\ \A n \in 1..Len(legs) : LegIs(legs[n])

\* A chain with one more leg in front.
LEMMA ChainLonger ==
  ASSUME NEW legs, NEW s, NEW target, Chain(legs, s, target), NEW leg, LegTo(leg) = s,
         LegIs(leg)
  PROVE  Chain(<<leg>> \o legs, LegFrom(leg), target) /\ <<leg>> \o legs # <<>>
<1> DEFINE n == Len(legs)
           all == <<leg>> \o legs
<1>1. /\ n \in Nat /\ Len(all) = n + 1 /\ all[1] = leg /\ \A i \in 1..n : all[i + 1] = legs[i]
      /\ (legs = <<>> <=> n = 0) /\ all # <<>>
  <2>1. legs \in Seq(ToSet(legs) \cup {leg}) /\ <<leg>> \in Seq(ToSet(legs) \cup {leg})
    BY DEF IsSeq, Chain
  <2> QED BY <2>1
<1>2. IsSeq(all)
  BY OneIs, ConcatIs DEF Chain
<1> HIDE DEF all
<1>3. LegTo(all[n + 1]) = target
  <2>1. CASE legs = <<>>
    BY <1>1, <2>1 DEF Chain
  <2>2. CASE legs # <<>>
    <3>1. n \in 1..n
      BY <1>1, <2>2
    <3>2. all[n + 1] = legs[n]
      BY <1>1, <3>1
    <3> QED BY <2>2, <3>2 DEF Chain
  <2> QED BY <2>1, <2>2
<1>4. ASSUME NEW i \in 1..n PROVE LegTo(all[i]) = LegFrom(all[i + 1])
  <2>1. CASE i = 1
    <3>1. legs # <<>> /\ 1 \in 1..n
      BY <1>1, <2>1
    <3>2. all[1] = leg /\ all[1 + 1] = legs[1]
      BY <1>1, <3>1
    <3> QED BY <2>1, <3>1, <3>2 DEF Chain
  <2>2. CASE i # 1
    <3>1. i - 1 \in 1..(n - 1) /\ i - 1 \in 1..n /\ (i - 1) + 1 = i
      BY <1>1, <2>2
    <3>2. all[i] = legs[i - 1] /\ all[i + 1] = legs[(i - 1) + 1]
      BY <1>1, <3>1
    <3> QED BY <3>1, <3>2 DEF Chain
  <2> QED BY <2>1, <2>2
<1>5. ASSUME NEW i \in 1..(n + 1) PROVE LegIs(all[i])
  <2>1. CASE i = 1
    BY <1>1, <2>1
  <2>2. CASE i # 1
    <3>1. i - 1 \in 1..n /\ (i - 1) + 1 = i
      BY <1>1, <2>2
    <3>2. all[i] = legs[i - 1]
      BY <1>1, <3>1
    <3> QED BY <3>1, <3>2 DEF Chain
  <2> QED BY <2>1, <2>2
<1>6. Chain(all, LegFrom(leg), target)
  BY <1>1, <1>2, <1>3, <1>4, <1>5 DEF Chain
<1> QED BY <1>1, <1>6 DEF all

\* The position at which the rider of a label alights.
LEMMA AlightsAt ==
  ASSUME Loaded, NEW l, NEW s, RidesTo(l, s)
  PROVE  LET alight == PosInPattern(PatternOfTrip(tt, l.trip), s, l.board)
         IN  /\ l.board < alight /\ tt.trips[l.trip].stops[alight] = s
             /\ tt.trips[l.trip].stops[l.board] = l.from
             /\ l.trip \in Trips /\ {l.board, alight} \in SUBSET (1..Len(tt.trips[l.trip].stops))
             /\ l.day \in Int
<1>1. PICK p \in Pats :
        /\ l.trip \in tt.pats[p].lo..tt.pats[p].hi /\ l.day \in Int
        /\ l.board \in 1..Len(tt.pats[p].stops) /\ tt.pats[p].stops[l.board] = l.from
        /\ \E i \in (l.board + 1)..Len(tt.pats[p].stops) : tt.pats[p].stops[i] = s
  BY DEF RidesTo
<1> DEFINE o == PatternOfTrip(tt, l.trip)
           stops == tt.pats[o].stops
           later == {i \in {j \in 1..Len(stops) : stops[j] = s} : i > l.board}
<1>2. o \in Pats /\ l.trip \in tt.pats[o].lo..tt.pats[o].hi
  BY <1>1 DEF PatternOfTrip, Pats
<1> HIDE DEF o, later, stops
<1>3. /\ tt.trips[l.trip].stops = tt.pats[p].stops /\ tt.trips[l.trip].stops = stops
      /\ Len(stops) \in Nat /\ Len(tt.pats[p].stops) \in Nat /\ l.board \in Nat
  <2>1. tt.trips[l.trip].stops = tt.pats[p].stops /\ Len(tt.pats[p].stops) \in Nat
    BY <1>1, PatternIs
  <2>2. tt.trips[l.trip].stops = stops
    BY <1>2, PatternIs DEF stops
  <2> QED BY <1>1, <2>1, <2>2
<1> USE DEF stops, later
<1>4. later # {} /\ later \in SUBSET Nat
  BY <1>1, <1>3
<1>5. PosInPattern(o, s, l.board) = MinOf(later)
  BY <1>4 DEF PosInPattern
<1> HIDE DEF later
<1>6. MinOf(later) \in later
  BY <1>4, LeastExists DEF MinOf
<1> HIDE DEF stops
<1>7. /\ stops[MinOf(later)] = s /\ MinOf(later) > l.board /\ MinOf(later) \in Nat /\ l.board \in Nat
      /\ MinOf(later) \in 1..Len(stops) /\ l.board \in 1..Len(stops)
  BY <1>1, <1>3, <1>4, <1>6 DEF later, stops
<1>8. l.trip \in Trips
  BY <1>1, PatternIs DEF Trips
<1> QED BY <1>1, <1>3, <1>5, <1>7, <1>8 DEF o

\* What was extracted so far: it leads from a label of the row to the target, and
\* by foot alone only where the row is earlier than the first.
WayBack(h, n, b) ==
  /\ DOMAIN b = {"k", "s", "legs"} /\ b.k \in 0..h.k /\ b.s \in Stops /\ lab[b.k][b.s].kind # "none"
  /\ Chain(b.legs, b.s, h.target) /\ RideCount(b.legs) = h.k - b.k
  /\ b.k = h.k => Nearer(lab[b.k], lab[0], b.s)
Backwards == INSTANCE FoldLaws WITH Step <- BackStep, Good <- WayBack

\* One step back.
LEMMA StepBack ==
  ASSUME Loaded, Labelled, pc = "extract", NEW k \in 1..round, NEW target, NEW i, NEW b,
         NEW h, h.k = k, h.target = target, WayBack(h, i - 1, b)
  PROVE  WayBack(h, i, BackStep(0, b, i))
<1> DEFINE l == lab[b.k][b.s]
           a == ParentOf(b)
<1>0. round \in Nat /\ RoundsAre(lab, round) /\ b.k \in 0..k /\ k \in Nat
  BY DEF Labelled, Stage, Completed, QueryIs, WayBack
<1>1. SourceRow(lab[0]) /\ \A x \in Stops : lab[0][x].time \in Nat
  BY <1>0 DEF RoundsAre, SourceRow, SourceLabel
<1>2. CASE b.k < 0 \/ l.kind \in {"access", "none"}
  BY <1>2 DEF BackStep, WayBack
<1>3. CASE ~(b.k < 0 \/ l.kind \in {"access", "none"}) /\ l.kind = "xfer"
  <2> DEFINE leg == [ride |-> FALSE, from |-> l.from, to |-> b.s, sec |-> l.time - lab[b.k][l.from].time]
  <2>1. BackStep(0, b, i) = [b EXCEPT !.s = l.from, !.legs = <<leg>> \o @]
    BY <1>3 DEF BackStep, ParentOf
  <2>2. l.from \in Stops /\ lab[b.k][l.from].kind # "none" /\ lab[b.k][l.from].time <= l.time
        /\ l.time \in Nat /\ lab[b.k][l.from].time \in Nat
        /\ (b.k # 0 /\ l.time < lab[0][b.s].time => lab[b.k][l.from].time < lab[0][l.from].time)
    <3>1. CASE b.k = 0
      BY <1>1, <1>3, <3>1 DEF SourceRow, SourceLabel, WayBack
    <3>2. CASE b.k # 0
      <4>1. RideRow(lab[b.k], lab[b.k - 1], lab[0])
        BY <1>0, <3>2 DEF RoundsAre
      <4> QED BY <1>3, <4>1 DEF RideRow, RideLabel, WayBack
    <3> QED BY Zenon, <3>1, <3>2
  <2>3. ~leg.ride /\ leg.ride \in BOOLEAN /\ LegFrom(leg) = l.from /\ LegTo(leg) = b.s
    BY Zenon DEF LegFrom, LegTo
  <2>3a. LegIs(leg) /\ (IF leg.ride THEN 1 ELSE 0) = 0
    <3>1. leg.sec = l.time - lab[b.k][l.from].time
      OBVIOUS
    <3> HIDE DEF leg, l
    <3> QED BY <2>2, <2>3, <3>1 DEF LegIs
  <2> HIDE DEF leg
  <2>3b. Chain(b.legs, b.s, target) /\ IsSeq(b.legs) /\ RideCount(b.legs) = k - b.k
    BY DEF WayBack, Chain
  <2>4. Chain(<<leg>> \o b.legs, LegFrom(leg), target)
    BY <2>3, <2>3a, <2>3b, ChainLonger
  <2>5. RideCount(<<leg>> \o b.legs) = k - b.k
    <3>1. RideCount(b.legs) \in Nat
      BY <1>0, <2>3b
    <3>2. RideCount(<<leg>> \o b.legs) = RideCount(b.legs) + (IF leg.ride THEN 1 ELSE 0)
      BY <2>3, <2>3b, <3>1, RidesOneMore
    <3> QED BY <2>3a, <2>3b, <3>1, <3>2
  <2>6. b.k = k => Nearer(lab[b.k], lab[0], l.from)
    BY <1>0, <1>1, <2>2 DEF WayBack, Nearer
  <2>7. DOMAIN b = {"k", "s", "legs"}
    BY DEF WayBack
  <2> DEFINE c == [b EXCEPT !.s = l.from, !.legs = <<leg>> \o @]
  <2>8. DOMAIN c = {"k", "s", "legs"} /\ c.k = b.k /\ c.s = l.from /\ c.legs = <<leg>> \o b.legs
    BY <2>7
  <2> HIDE DEF c
  <2>9. WayBack(h, i, c)
    BY <1>0, <2>2, <2>3, <2>4, <2>5, <2>6, <2>8 DEF WayBack
  <2> QED BY <2>1, <2>9 DEF c
<1>4. CASE ~(b.k < 0 \/ l.kind \in {"access", "none"}) /\ l.kind # "xfer"
  <2> DEFINE leg == [ride |-> TRUE, trip |-> l.trip, board |-> l.board, day |-> l.day,
                     alight |-> PosInPattern(PatternOfTrip(tt, l.trip), b.s, l.board)]
  <2>1. BackStep(0, b, i) = [b EXCEPT !.s = l.from, !.k = @ - 1, !.legs = <<leg>> \o @]
    BY <1>4 DEF BackStep, ParentOf
  <2>2. b.k # 0
    BY <1>1, <1>4 DEF SourceRow, SourceLabel, WayBack
  <2>3. RideLabel(lab[b.k], lab[b.k - 1], lab[0], b.s)
    BY <1>0, <2>2 DEF RoundsAre, RideRow, WayBack
  <2>4. l.from \in Stops /\ lab[b.k - 1][l.from].kind # "none" /\ RidesTo(l, b.s)
    BY <1>4, <2>3 DEF RideLabel
  <2> HIDE DEF l
  <2>5. leg.ride /\ LegFrom(leg) = l.from /\ LegTo(leg) = b.s
    BY <2>4, AlightsAt DEF LegFrom, LegTo
  <2>5c. leg.ride \in BOOLEAN
    OBVIOUS
  <2>5a. LegIs(leg) /\ (IF leg.ride THEN 1 ELSE 0) = 1
    BY <2>4, <2>5, AlightsAt DEF LegIs
  <2> HIDE DEF leg
  <2>5b. Chain(b.legs, b.s, target) /\ IsSeq(b.legs) /\ RideCount(b.legs) = k - b.k
    BY DEF WayBack, Chain
  <2>6. Chain(<<leg>> \o b.legs, LegFrom(leg), target)
    BY <2>5, <2>5a, <2>5b, ChainLonger
  <2>7. RideCount(<<leg>> \o b.legs) = k - (b.k - 1)
    <3>1. RideCount(b.legs) \in Nat
      BY <1>0, <2>5b
    <3>2. RideCount(<<leg>> \o b.legs) = RideCount(b.legs) + (IF leg.ride THEN 1 ELSE 0)
      BY <2>5c, <2>5b, <3>1, RidesOneMore
    <3> QED BY <1>0, <2>5a, <2>5b, <3>1, <3>2
  <2>8. DOMAIN b = {"k", "s", "legs"}
    BY DEF WayBack
  <2> DEFINE c == [b EXCEPT !.s = l.from, !.k = @ - 1, !.legs = <<leg>> \o @]
  <2>9. DOMAIN c = {"k", "s", "legs"} /\ c.k = b.k - 1 /\ c.s = l.from /\ c.legs = <<leg>> \o b.legs
    BY <2>8
  <2> HIDE DEF c
  <2>10. c.k \in 0..k /\ c.k # k
    BY <1>0, <2>2, <2>9
  <2>11. WayBack(h, i, c)
    BY <2>4, <2>5, <2>6, <2>7, <2>9, <2>10 DEF WayBack
  <2> QED BY <2>1, <2>11 DEF c
<1> QED BY <1>2, <1>3, <1>4

\* The target of a round that improved on the sources' is labelled, nearer than in
\* theirs, and extraction begins there.
LEMMA BackStarts ==
  ASSUME Loaded, Labelled, pc = "extract", NEW k \in 1..q.maxRides, Improves(k),
         NEW h, h.k = k, h.target = targetAt[k], NEW base, base = [k |-> k, s |-> targetAt[k], legs |-> <<>>]
  PROVE  /\ arrAt[k] < Inf /\ k \in 1..round /\ targetAt[k] \in DOMAIN q.targets /\ targetAt[k] \in Stops
         /\ arrAt[k] = lab[k][targetAt[k]].time + q.targets[targetAt[k]] /\ arrAt[k] < arrAt[0]
         /\ WayBack(h, 0, base)
<1> DEFINE target == targetAt[k]
<1>0. /\ round \in Nat /\ q.maxRides \in Nat /\ k \in Nat /\ QueryIs(q) /\ RoundsAre(lab, round)
      /\ ArrivalsAre(lab, arrAt, targetAt, round) /\ LeastAt(lab, arrAt) /\ Inf \in Nat
  BY TimesAssumption DEF Labelled, Stage, Completed, Evaluated, QueryIs
<1>1. /\ arrAt[k] < Inf /\ k <= round /\ target \in DOMAIN q.targets /\ target \in Stops
      /\ arrAt[k] = lab[k][target].time + q.targets[target] /\ arrAt[k] < arrAt[0]
  <2>1. arrAt[k] < arrAt[0] /\ arrAt[0] <= Inf /\ arrAt[0] \in Nat /\ arrAt[k] \in Nat
    BY <1>0 DEF Improves, LeastAt, ArrivalsAre
  <2>2. arrAt[k] < Inf
    BY <1>0, <2>1
  <2> QED BY <1>0, <2>1, <2>2 DEF ArrivalsAre, QueryIs
<1>2. SourceRow(lab[0]) /\ lab[0][target].time \in Nat
  BY <1>0, <1>1 DEF RoundsAre, SourceRow, SourceLabel
<1>3. RideLabel(lab[k], lab[k - 1], lab[0], target)
  BY <1>0, <1>1 DEF RoundsAre, RideRow
<1>4. Nearer(lab[k], lab[0], target)
  <2>1. lab[k][target].time \in Nat /\ q.targets[target] \in Nat /\ (lab[k][target].kind = "none" => lab[k][target].time >= Inf)
    BY <1>0, <1>1, <1>3 DEF RideLabel, QueryIs
  <2>2. lab[k][target].time < Inf
    BY <1>0, <1>1, <2>1
  <2>3. lab[0][target].time < Inf => arrAt[0] <= lab[0][target].time + q.targets[target]
    BY <1>0, <1>1 DEF LeastAt
  <2>4. arrAt[0] \in Nat
    BY <1>0 DEF ArrivalsAre
  <2>5. lab[k][target].time < lab[0][target].time
    BY <1>0, <1>1, <1>2, <2>1, <2>2, <2>3, <2>4
  <2> QED BY <1>0, <2>1, <2>2, <2>5 DEF Nearer
<1>h. h.k = k /\ h.target = target
  OBVIOUS
<1>6. WayBack(h, 0, base)
  <2>1. RideCount(<<>>) = 0
    <3>1. {i \in 1..Len(<<>>) : (<<>>)[i].ride} = {}
      OBVIOUS
    <3> QED BY <3>1, FS_EmptySet DEF RideCount
  <2>2. Chain(<<>>, target, target)
    BY NoneIs DEF Chain
  <2>3. DOMAIN base = {"k", "s", "legs"} /\ base.k = k /\ base.s = target /\ base.legs = <<>>
    OBVIOUS
  <2> HIDE DEF target
  <2>4. lab[k][target].kind # "none"
    BY <1>4 DEF Nearer
  <2>5. k \in 0..k /\ 0 = k - k
    BY <1>0
  <2> QED BY <1>h, <1>1, <1>4, <2>1, <2>2, <2>3, <2>4, <2>5 DEF WayBack
<1> QED BY <1>0, <1>1, <1>6

\* How many steps back are taken.
LEMMA StepsAre ==
  ASSUME Loaded, NEW k \in Nat
  PROVE  (tt.nstops + 2) * (k + 1) \in Nat
<1>1. tt.nstops \in Nat
  BY TimetablesAssumption DEF Loaded, tt, IsCompiled
<1>2. \A x, y \in Nat : x * y \in Nat
  OBVIOUS
<1>3. tt.nstops + 2 \in Nat /\ k + 1 \in Nat
  BY <1>1
<1> QED BY <1>2, <1>3

\* What is extracted from a round that improved on the sources' leads from a source
\* to the target, with a ride for each round at most.
LEMMA ExtractConnects ==
  ASSUME Loaded, Labelled, pc = "extract", NEW k \in 1..q.maxRides, Improves(k), Extract(k, targetAt[k]).ok
  PROVE  LET legs == Extract(k, targetAt[k]).legs
         IN  /\ legs # <<>> /\ LegFrom(legs[1]) \in DOMAIN q.sources
             /\ \E s \in Stops : Chain(legs, s, targetAt[k])
             /\ RideCount(legs) \in 1..q.maxRides
<1> DEFINE target == targetAt[k]
           n == (tt.nstops + 2) * (k + 1)
           base == [k |-> k, s |-> target, legs |-> <<>>]
           h == [k |-> k, target |-> target]
           end == Backwards!Path(0, base, n)[n]
<1>0. /\ round \in Nat /\ q.maxRides \in Nat /\ k \in Nat /\ QueryIs(q) /\ RoundsAre(lab, round)
      /\ ArrivalsAre(lab, arrAt, targetAt, round) /\ LeastAt(lab, arrAt) /\ Inf \in Nat
  BY TimesAssumption DEF Labelled, Stage, Completed, Evaluated, QueryIs
<1>5. n \in Nat
  BY <1>0, StepsAre
<1>h. h.k = k /\ h.target = target
  OBVIOUS
<1>1. k \in 1..round /\ WayBack(h, 0, base)
  BY BackStarts
<1>2. SourceRow(lab[0])
  BY <1>0 DEF RoundsAre
<1> HIDE DEF n, h, target
<1>6. WayBack(h, 0, base)
  BY <1>1
<1>7. ASSUME NEW i \in 1..n, NEW b, WayBack(h, i - 1, b) PROVE WayBack(h, i, BackStep(0, b, i))
  <2>1. k \in 1..round
    BY <1>0, <1>1
  <2> QED BY <1>h, <1>7, <2>1, StepBack
<1>8. WayBack(h, n, end)
  <2>1. n \in 0..n
    BY <1>5
  <2> HIDE DEF base
  <2> QED BY <1>5, <1>6, <1>7, <2>1, Backwards!PathKeeps, NatsFrom
<1>9. /\ Extract(k, target).legs = end.legs
      /\ Extract(k, target).ok = (end.k >= 0 /\ lab[end.k][end.s].kind = "access")
  BY Zenon DEF Extract, BackStep, Backwards!Path, n
<1> HIDE DEF end
<1>10. lab[end.k][end.s].kind = "access"
  BY <1>9 DEF target
<1>11. end.k \in 0..k /\ end.s \in Stops /\ Chain(end.legs, end.s, target) /\ RideCount(end.legs) = k - end.k
       /\ (end.k = k => Nearer(lab[end.k], lab[0], end.s))
  BY <1>h, <1>8 DEF WayBack
<1>12. end.s \in DOMAIN q.sources /\ (end.k # 0 => lab[end.k][end.s].time = lab[0][end.s].time)
  <2>1. CASE end.k = 0
    BY <1>2, <1>10, <1>11, <2>1 DEF SourceRow, SourceLabel
  <2>2. CASE end.k # 0
    <3>1. RideRow(lab[end.k], lab[end.k - 1], lab[0])
      BY <1>0, <1>1, <1>11, <2>2 DEF RoundsAre
    <3> QED BY <1>10, <1>11, <3>1 DEF RideRow, RideLabel
  <2> QED BY <2>1, <2>2
<1>13. end.k # k
  <2>1. lab[0][end.s].time \in Nat
    BY <1>2, <1>11 DEF SourceRow, SourceLabel
  <2> QED BY <1>0, <1>11, <1>12, <2>1 DEF Nearer
<1>14. RideCount(end.legs) \in 1..q.maxRides
  BY <1>0, <1>11, <1>13
<1>15. end.legs # <<>>
  <2>1. {i \in 1..Len(<<>>) : (<<>>)[i].ride} = {}
    OBVIOUS
  <2>2. RideCount(<<>>) = 0
    BY <2>1, FS_EmptySet DEF RideCount
  <2> QED BY <1>14, <2>2
<1> QED BY <1>9, <1>11, <1>12, <1>14, <1>15 DEF Chain, target

-----------------------------------------------------------------------------
(* Answers                                                                 *)

JourneyIs(j) ==
  LET legs == j.legs
  IN  /\ legs # <<>> /\ LegFrom(legs[1]) \in DOMAIN q.sources
      /\ LegTo(legs[Len(legs)]) = j.target
      /\ \A n \in 1..(Len(legs) - 1) : LegTo(legs[n]) = LegFrom(legs[n + 1])
      /\ \A n \in 1..Len(legs) : legs[n].ride => legs[n].board < legs[n].alight
      /\ j.rides \in 1..q.maxRides

\* Its legs can be timed, and it ends where the query does.
LegsAre(j) == (\A n \in 1..Len(j.legs) : LegIs(j.legs[n])) /\ j.target \in DOMAIN q.targets

\* The journeys of an answer are connected.
LEMMA FinishConnects ==
  ASSUME Loaded, Labelled, Finish
  PROVE  \A i \in 1..Len(journeys') : JourneyIs(journeys'[i]) /\ LegsAre(journeys'[i])
<1> DEFINE improving == {k \in 1..q.maxRides : Improves(k) /\ Extract(k, targetAt[k]).ok}
           rounds == AscendingIn(q.maxRides, improving)
           n == Len(rounds)
           journey(k) == LET legs == Extract(k, targetAt[k]).legs
                         IN  [rides |-> RideCount(legs), arr |-> arrAt[k], target |-> targetAt[k], legs |-> legs]
<1>0. q.maxRides \in Nat /\ pc = "extract"
  BY DEF Finish, Labelled, QueryIs
<1>1. IsSeq(rounds) /\ ToSet(rounds) = (1..q.maxRides) \cap improving
  BY <1>0, AscendingInIs
<1>2. n \in Nat /\ \A i \in 1..n : rounds[i] \in ToSet(rounds)
  BY <1>1, IsSeqHas
<1>3. journeys' = [i \in 1..n |-> journey(rounds[i])]
  BY DEF Finish
<1>4. ASSUME NEW k \in improving PROVE JourneyIs(journey(k)) /\ LegsAre(journey(k))
  <2> DEFINE legs == Extract(k, targetAt[k]).legs
             j == journey(k)
  <2>1. k \in 1..q.maxRides /\ Improves(k) /\ Extract(k, targetAt[k]).ok
    OBVIOUS
  <2>2. /\ legs # <<>> /\ LegFrom(legs[1]) \in DOMAIN q.sources
        /\ \E s \in Stops : Chain(legs, s, targetAt[k])
        /\ RideCount(legs) \in 1..q.maxRides
    BY <1>0, <2>1, ExtractConnects
  <2>3. j.legs = legs /\ j.target = targetAt[k] /\ j.rides = RideCount(legs)
    OBVIOUS
  <2>4. targetAt[k] \in DOMAIN q.targets
    <3> DEFINE h == [k |-> k, target |-> targetAt[k]]
    <3>1. h.k = k /\ h.target = targetAt[k]
      OBVIOUS
    <3> HIDE DEF h
    <3> QED BY <1>0, <2>1, <3>1, BackStarts
  <2> HIDE DEF legs, j
  <2>5. JourneyIs(j) /\ LegsAre(j)
    BY <2>2, <2>3, <2>4 DEF JourneyIs, LegsAre, Chain, LegIs
  <2> QED BY <2>5 DEF j
<1>5. Len(journeys') = n
  <2> HIDE DEF n, rounds, journey
  <2>1. journeys' = [i \in 1..n |-> journeys'[i]]
    BY <1>3
  <2> QED BY <1>2, <2>1, ListIs
<1> HIDE DEF journey, improving, rounds, n
<1>6. ASSUME NEW i \in 1..n PROVE JourneyIs(journeys'[i]) /\ LegsAre(journeys'[i])
  <2>1. rounds[i] \in improving /\ journeys'[i] = journey(rounds[i])
    BY <1>1, <1>2, <1>3
  <2>2. JourneyIs(journey(rounds[i])) /\ LegsAre(journey(rounds[i]))
    BY <1>4, <2>1
  <2> QED BY <2>1, <2>2
<1> QED BY <1>5, <1>6

\* JourneysConnected says it of an answer.
LEMMA ConnectedIs ==
  (pc = "answered" => \A i \in 1..Len(journeys) : JourneyIs(journeys[i])) <=> JourneysConnected
BY DEF JourneysConnected, JourneyIs, LegFrom, LegTo

\* A step that leaves network and query as they are, and what it leaves of them.
LEMMA ConnectedNext ==
  ASSUME net' = net, q' = q, \A i \in 1..Len(journeys') : JourneyIs(journeys'[i])
  PROVE  JourneysConnected'
<1>1. ASSUME NEW i \in 1..Len(journeys') PROVE JourneyIs(journeys[i])'
  BY Zenon, <1>1 DEF JourneyIs, LegFrom, LegTo, tt
<1> QED BY ZenonT(30), <1>1 DEF JourneysConnected, JourneyIs, LegFrom, LegTo

\* A query that begins.
LEMMA SeedLabelled ==
  ASSUME Loaded, Labelled, NEW x, QueryIs(x), Seed(x)
  PROVE  Labelled' /\ journeys' = <<>> /\ net' = net /\ pc' = "sourceWalks"
<1> DEFINE seeded == [s \in Stops |-> IF s \in DOMAIN x.sources
                                      THEN [NoLabel EXCEPT !.time = x.sources[s].sec, !.kind = "access"]
                                      ELSE NoLabel]
           list == AscendingIn(tt.nstops, DOMAIN x.sources)
<1>1. /\ q' = x /\ best' = [s \in Stops |-> seeded[s].time] /\ markList' = list
      /\ arrAt' = [k \in 0..x.maxRides |-> Inf] /\ targetAt' = [k \in 0..x.maxRides |-> 0]
      /\ journeys' = <<>> /\ pc' = "sourceWalks" /\ round' = 0 /\ net' = net
      /\ patMin' = patMin /\ patList' = patList /\ pc = "idle"
  BY Zenon DEF Seed
<1>15. lab' = [k \in 0..x.maxRides |-> IF k = 0 THEN seeded
                                       ELSE IF k \in DOMAIN lab THEN lab[k] ELSE [s \in Stops |-> NoLabel]]
  BY Zenon DEF Seed
<1>2. /\ DOMAIN lab' = 0..x.maxRides
      /\ lab'[0] = seeded
  <2>1. 0 \in 0..x.maxRides
    BY DEF QueryIs
  <2> HIDE DEF seeded
  <2> QED BY <1>15, <2>1
<1>3. Inf \in Nat /\ x.maxRides \in Nat \ {0} /\ tt.nstops \in Nat
  BY TimesAssumption, TimetablesAssumption DEF Loaded, tt, IsCompiled, QueryIs
<1>4. ASSUME NEW s \in Stops
      PROVE  /\ DOMAIN seeded[s] = LabelFields /\ seeded[s].time \in Nat /\ seeded[s].kind \in {"none", "access"}
             /\ (seeded[s].kind = "none" => seeded[s].time >= Inf)
             /\ (seeded[s].kind = "access" => s \in DOMAIN x.sources)
  BY <1>3 DEF NoLabel, LabelFields, QueryIs
<1>5. IsSeq(list) /\ ToSet(list) \subseteq Stops
  BY <1>3, AscendingInIs DEF Stops, StopsOf
<1>6. DOMAIN seeded = Stops
  OBVIOUS
<1> HIDE DEF seeded, list
<1>7. SourceRow(lab[0])'
  <2>1. DOMAIN lab'[0] = Stops'
    BY <1>1, <1>2, <1>6 DEF Stops, StopsOf, tt
  <2>2. ASSUME NEW s \in Stops' PROVE SourceLabel(lab[0], s)'
    <3>1. s \in Stops
      BY <1>1, <2>2 DEF Stops, StopsOf, tt
    <3> QED BY <1>1, <1>2, <1>4, <3>1 DEF SourceLabel
  <2> QED BY <2>1, <2>2 DEF SourceRow
<1>8. Written(Round(Completed))'
  <2>1. Completed' = 0 /\ Stops' = Stops
    BY <1>1 DEF Completed, Stops, StopsOf, tt
  <2>2. DOMAIN lab'[0] = Stops /\ \A s \in Stops : best'[s] = lab'[0][s].time
    BY <1>1, <1>2, <1>6
  <2>3. DOMAIN best' = Stops /\ IsSeq(markList') /\ ToSet(markList') \subseteq Stops
    BY <1>1, <1>5
  <2> QED BY <2>1, <2>2, <2>3 DEF Written, Round
<1>9. QueryIs(q)'
  BY <1>1 DEF QueryIs, Stops, StopsOf, tt
<1>10. QueueIs(patMin, patList)' /\ patList' = <<>>
  BY <1>1 DEF Labelled, QueueIs, Pats, tt
<1>11. Stage' /\ Completed' = 0 /\ Evaluated' = -1
  BY <1>1 DEF Stage, Completed, Evaluated
<1>12. Sized(lab, arrAt, targetAt)'
  BY <1>1, <1>2 DEF Sized
<1>13. ArrivalsAre(lab, arrAt, targetAt, Evaluated)'
  BY <1>1, <1>3 DEF ArrivalsAre
<1>14. RoundsAre(lab, Completed)'
  BY <1>7, <1>11 DEF RoundsAre
<1> QED BY <1>1, <1>8, <1>9, <1>10, <1>11, <1>12, <1>13, <1>14 DEF Labelled

\* The step of RAPTOR on the way.
LEMMA RaptorStepLabelled ==
  ASSUME Loaded, ArrivalsKnown, Labelled, RaptorStep
  PROVE  Labelled'
BY SourceWalksLabelled, BeginRoundLabelled, ScanLabelled, WalkOnLabelled, FinishLabelled DEF RaptorStep

\* A step that leaves RAPTOR as it is.
LEMMA IdleLabelled ==
  ASSUME Labelled, net' = net, UNCHANGED raptorVars
  PROVE  Labelled'
<1>1. UNCHANGED <<q, pc, round, lab, best, marked, markList, patMin, patList, arrAt, targetAt>>
  BY DEF raptorVars, scratch, answers
<1>2. CASE pc # "idle"
  <2>1. Completed' = Completed /\ Evaluated' = Evaluated /\ Stage' = Stage
    BY <1>1 DEF Completed, Evaluated, Stage
  <2>2. RoundNext(Completed') = Round(Completed)
    BY <1>1, <2>1 DEF RoundNext, Round
  <2>3. LabelledNext /\ QueryIs(q)
    BY <1>1, <1>2, <2>1, <2>2 DEF Labelled, LabelledNext
  <2> QED BY <1>1, <2>3, SameQuery
<1>3. CASE pc = "idle"
  <2>1. QueueIs(patMin, patList)'
    BY <1>1 DEF Labelled, QueueIs, Pats, tt
  <2> QED BY <1>1, <1>3, <2>1 DEF Labelled
<1> QED BY <1>2, <1>3

\* Back in the pool.
LEMMA PooledLabelled ==
  ASSUME Labelled, net' = net, pc' = "idle", UNCHANGED <<patMin, patList>>, pc = "answered"
  PROVE  Labelled'
<1>1. QueueIs(patMin, patList)'
  BY DEF Labelled, QueueIs, Pats, tt
<1> QED BY <1>1 DEF Labelled

\* A new network brings new states.
LEMMA FreshLabelled ==
  ASSUME Loaded', FreshRaptor(net')
  PROVE  Labelled'
<1>1. pc' = "idle" /\ patMin' = [p \in 1..Len(net'.tt.pats) |-> 0] /\ patList' = <<>>
  BY DEF FreshRaptor
<1>2. IsSeq(<<>>) /\ ToSet(<<>>) = {} /\ Len(<<>>) = 0
  BY NoneIs
<1>3. QueueIs(patMin, patList)'
  BY <1>1, <1>2 DEF QueueIs, Pats, tt
<1> QED BY <1>1, <1>3 DEF Labelled


-----------------------------------------------------------------------------
(* What a rider must wait, and what a label says of when                   *)

\* A row's labels, whatever the round.
RowIs(row) ==
  DOMAIN row = Stops /\ \A s \in Stops :
    LET l == row[s]
    IN  /\ DOMAIN l = LabelFields /\ l.time \in Nat /\ l.kind \in {"none", "access", "xfer", "ride"}
        /\ l.kind = "none" => l.time >= Inf
        /\ l.kind = "access" => s \in DOMAIN q.sources
        /\ l.kind = "xfer" => l.from \in Stops
        /\ l.kind = "ride" => l.from \in Stops /\ RidesTo(l, s)

\* The greater of two numbers.
LEMMA GreaterIs ==
  ASSUME NEW a \in Int, NEW b \in Int
  PROVE  MaxOf({a, b}) = IF a >= b THEN a ELSE b
<1> DEFINE m == IF a >= b THEN a ELSE b
<1>1. m \in {a, b} /\ \A y \in {a, b} : m >= y
  OBVIOUS
<1>2. \A x \in {a, b} : (\A y \in {a, b} : x >= y) => x = m
  OBVIOUS
<1> QED BY <1>1, <1>2 DEF MaxOf

\* A trip is of its pattern's rail line, or of none.
LEMMA RailIs ==
  ASSUME Loaded, NEW t \in Trips
  PROVE  Rail(t) = tt.trips[t].rail
<1>1. IsCompiled(tt)
  BY TimetablesAssumption DEF Loaded, tt
<1> DEFINE o == PatternOfTrip(tt, t)
<1>2. \E p \in Pats : t \in tt.pats[p].lo..tt.pats[p].hi
  BY <1>1 DEF IsCompiled, Pats, Trips
<1>3. o \in Pats /\ t \in tt.pats[o].lo..tt.pats[o].hi
  BY <1>2 DEF PatternOfTrip, Pats
<1> HIDE DEF o
<1>4. tt.trips[t].rail = tt.pats[o].rail
  BY <1>1, <1>3 DEF IsCompiled, Pats
<1> QED BY <1>4 DEF Rail, o

\* When a rider labelled row[s] may board at s.
ReadyAt(row, s, rail) == row[s].time + WaitAt(row, s, rail)

\* The last stop of a label that was not reached on foot.
Base(row, s) == IF row[s].kind = "xfer" THEN row[s].from ELSE s

\* What WaitAt adds up to, in one expression.
LEMMA WaitIs ==
  ASSUME Loaded, QueryIs(q), NEW row, RowIs(row), NEW s \in Stops, NEW rail
  PROVE  LET b     == Base(row, s)
             rode  == row[b].kind = "ride"
             slack == IF rode /\ (~rail \/ row[s].kind = "ride") THEN q.slack ELSE 0
             from  == row[b].kind = "access" /\ q.sources[b].rail
             off   == rode /\ Rail(row[b].trip)
             arr   == IF from THEN q.sources[b].arr ELSE row[b].time
             ready == row[s].time + slack
         IN  /\ ready \in Nat /\ b \in Stops /\ (from \/ off => arr + q.change \in Int)
             /\ ReadyAt(row, s, rail) = IF ~rail THEN ready
                                        ELSE IF from \/ off
                                        THEN IF ready >= arr + q.change THEN ready ELSE arr + q.change
                                        ELSE IF slack >= q.entry THEN ready ELSE row[s].time + q.entry
<1> DEFINE b == Base(row, s)
           rode  == row[b].kind = "ride"
           slack == IF rode /\ (~rail \/ row[s].kind = "ride") THEN q.slack ELSE 0
           from  == row[b].kind = "access" /\ q.sources[b].rail
           off   == rode /\ Rail(row[b].trip)
           arr   == IF from THEN q.sources[b].arr ELSE row[b].time
           time  == row[s].time
           Until(x) == MaxOf({slack, x + q.change - time})
<1>1. b \in Stops /\ time \in Nat /\ row[b].time \in Nat /\ (row[b].kind = "access" => b \in DOMAIN q.sources)
  BY DEF RowIs, Base
<1>2. q.slack \in Nat /\ q.entry \in Nat /\ q.change \in Nat /\ \A x \in DOMAIN q.sources : q.sources[x].arr \in Int
  BY DEF QueryIs
<1> DEFINE prior == PriorRide(row, s)
           source == PriorRailSource(row, s)
           wait == IF prior.ok /\ (~rail \/ row[s].kind = "ride") THEN q.slack ELSE 0
<1>3. (prior.ok <=> rode) /\ prior.trip = row[b].trip /\ prior.arr = row[b].time
  BY DEF PriorRide, Base
<1>4. (source.ok <=> from) /\ (from => source.arr = q.sources[b].arr)
  BY DEF PriorRailSource, Base
<1>5. slack \in Nat
  BY <1>2
<1>6. arr \in Int
  BY <1>1, <1>2
<1>7. WaitAt(row, s, rail) = IF ~rail THEN slack
                             ELSE IF from \/ off THEN Until(arr) ELSE MaxOf({slack, q.entry})
  <2>1. WaitAt(row, s, rail) =
          CASE ~rail -> wait
            [] rail /\ source.ok -> MaxOf({wait, source.arr + q.change - time})
            [] rail /\ ~source.ok /\ prior.ok /\ Rail(prior.trip) -> MaxOf({wait, prior.arr + q.change - time})
            [] OTHER -> MaxOf({wait, q.entry})
    BY DEF WaitAt
  <2>2. wait = slack
    BY <1>3
  <2> HIDE DEF prior, source, wait, rode, slack, from, time, b
  <2> QED BY <1>3, <1>4, <2>1, <2>2
<1> HIDE DEF b, rode, slack, from, off, arr, time
<1>8. Until(arr) = IF slack >= arr + q.change - time THEN slack ELSE arr + q.change - time
  BY <1>1, <1>2, <1>5, <1>6, GreaterIs
<1>9. MaxOf({slack, q.entry}) = IF slack >= q.entry THEN slack ELSE q.entry
  BY <1>2, <1>5, GreaterIs
<1> HIDE DEF Until
<1>10. ReadyAt(row, s, rail) = time + WaitAt(row, s, rail)
  BY DEF ReadyAt, time
<1>11. time + slack \in Nat /\ arr + q.change \in Int
  BY <1>1, <1>2, <1>5, <1>6
<1>12. time + Until(arr) = IF time + slack >= arr + q.change THEN time + slack ELSE arr + q.change
  BY <1>1, <1>2, <1>5, <1>6, <1>8
<1>13. time + MaxOf({slack, q.entry}) = IF slack >= q.entry THEN time + slack ELSE time + q.entry
  BY <1>9
<1>14. ReadyAt(row, s, rail) = IF ~rail THEN time + slack
                               ELSE IF from \/ off
                               THEN IF time + slack >= arr + q.change THEN time + slack ELSE arr + q.change
                               ELSE IF slack >= q.entry THEN time + slack ELSE time + q.entry
  BY <1>7, <1>10, <1>12, <1>13
<1> QED BY <1>1, <1>11, <1>14 DEF b, rode, slack, from, off, arr, time

\* Labels that are in time: at a source its own, behind a footpath not before one can walk it.
OnTime(row) ==
  \A s \in Stops :
    /\ row[s].kind = "access" => row[s].time = q.sources[s].sec
    /\ row[s].kind = "xfer" => LET foot == net.foot[row[s].from][s]
                               IN  foot < Inf /\ row[row[s].from].time + foot <= row[s].time /\ row[s].time < Inf

\* A label that leads back to a ride or to a source at once.
PlainAt(row, s) == row[Base(row, s)].kind \in {"access", "ride"}

\* The rider that such a label speaks of.
OffAt(row, s) ==
  IF row[s].kind = "access" THEN AtSource(q, s)
  ELSE [stop |-> s, time |-> row[s].time, trip |-> row[s].trip, train |-> tt.trips[row[s].trip].rail,
        arr |-> row[s].time, walked |-> FALSE]
RiderAt(row, s) == IF row[s].kind = "xfer" THEN Walked(OffAt(row, row[s].from), s) ELSE OffAt(row, s)

\* Where the rider is, and since when.
LEMMA RiderIs ==
  ASSUME Loaded, QueryIs(q), NEW row, RowIs(row), OnTime(row), NEW s \in Stops, PlainAt(row, s)
  PROVE  LET r == RiderAt(row, s)
             b == Base(row, s)
         IN  /\ r.stop = s /\ r.time \in Nat /\ r.time <= row[s].time /\ r.arr \in Int
             /\ (r.walked <=> row[s].kind = "xfer")
             /\ r.trip = (IF row[b].kind = "ride" THEN row[b].trip ELSE 0)
             /\ r.train = (IF row[b].kind = "ride" THEN tt.trips[row[b].trip].rail ELSE q.sources[b].rail)
             /\ r.arr = (IF row[b].kind = "ride" THEN row[b].time ELSE q.sources[b].arr)
             /\ row[s].kind # "xfer" => r.time = row[s].time
<1> DEFINE b == Base(row, s)
           o == OffAt(row, b)
<1>1. b \in Stops /\ row[b].kind \in {"access", "ride"} /\ row[b].time \in Nat /\ row[s].time \in Nat
      /\ (row[b].kind = "access" => b \in DOMAIN q.sources)
  BY DEF RowIs, Base, PlainAt
<1>2. /\ o.stop = b /\ o.time = row[b].time /\ o.walked = FALSE
      /\ o.trip = (IF row[b].kind = "ride" THEN row[b].trip ELSE 0)
      /\ o.train = (IF row[b].kind = "ride" THEN tt.trips[row[b].trip].rail ELSE q.sources[b].rail)
      /\ o.arr = (IF row[b].kind = "ride" THEN row[b].time ELSE q.sources[b].arr)
      /\ DOMAIN o = {"stop", "time", "trip", "train", "arr", "walked"}
  BY <1>1 DEF OffAt, AtSource, OnTime
<1> HIDE DEF o
<1>3. o.arr \in Int
  BY <1>1, <1>2 DEF QueryIs
<1>4. CASE row[s].kind = "xfer"
  <2>1. RiderAt(row, s) = Walked(o, s) /\ b = row[s].from
    BY <1>4 DEF RiderAt, Base, o
  <2>2. net.foot[b][s] \in Nat /\ row[b].time + net.foot[b][s] <= row[s].time
    BY <1>1, <1>4, <2>1, FootpathIs DEF OnTime
  <2> DEFINE r == Walked(o, s)
  <2>3. /\ r.stop = s /\ r.time = o.time + net.foot[b][s] /\ r.walked = TRUE
        /\ r.trip = o.trip /\ r.train = o.train /\ r.arr = o.arr
    BY <1>2 DEF Walked
  <2> HIDE DEF r
  <2> QED BY <1>1, <1>2, <1>3, <1>4, <2>1, <2>2, <2>3 DEF r, b
<1>5. CASE row[s].kind # "xfer"
  <2>1. RiderAt(row, s) = o /\ b = s
    BY <1>5 DEF RiderAt, Base, o
  <2> QED BY <1>1, <1>2, <1>3, <1>5, <2>1
<1> QED BY <1>4, <1>5

\* A label waits long enough for the rider it speaks of.
LEMMA ReadyEnough ==
  ASSUME Loaded, QueryIs(q), NEW row, RowIs(row), OnTime(row), NEW s \in Stops, PlainAt(row, s), NEW t
  PROVE  /\ ReadyFor(q, RiderAt(row, s), t) \in Int
         /\ ReadyFor(q, RiderAt(row, s), t) <= ReadyAt(row, s, tt.trips[t].rail)
<1> DEFINE r == RiderAt(row, s)
           b == Base(row, s)
           rail == tt.trips[t].rail
           rode  == row[b].kind = "ride"
           slack == IF rode /\ (~rail \/ row[s].kind = "ride") THEN q.slack ELSE 0
           from  == row[b].kind = "access" /\ q.sources[b].rail
           off   == rode /\ Rail(row[b].trip)
           arr   == IF from THEN q.sources[b].arr ELSE row[b].time
           less  == IF r.trip # 0 /\ ~(rail /\ r.walked) THEN q.slack ELSE 0
<1>1. /\ row[s].time + slack \in Nat /\ b \in Stops /\ (from \/ off => arr + q.change \in Int)
      /\ ReadyAt(row, s, rail) = IF ~rail THEN row[s].time + slack
                                 ELSE IF from \/ off
                                 THEN IF row[s].time + slack >= arr + q.change THEN row[s].time + slack ELSE arr + q.change
                                 ELSE IF slack >= q.entry THEN row[s].time + slack ELSE row[s].time + q.entry
  BY WaitIs
<1>2. /\ r.stop = s /\ r.time \in Nat /\ r.time <= row[s].time /\ r.arr \in Int /\ row[s].time \in Nat
      /\ (r.walked <=> row[s].kind = "xfer")
      /\ r.trip = (IF rode THEN row[b].trip ELSE 0)
      /\ r.train = (IF rode THEN tt.trips[row[b].trip].rail ELSE q.sources[b].rail)
      /\ r.arr = (IF rode THEN row[b].time ELSE q.sources[b].arr)
  BY RiderIs DEF RowIs
<1>3. q.slack \in Nat /\ q.entry \in Nat /\ q.change \in Nat
  BY DEF QueryIs
<1>4. row[b].kind \in {"access", "ride"} /\ (row[s].kind # "xfer" => b = s)
  BY DEF PlainAt, Base
<1>5. rode => row[b].trip \in Trips /\ row[b].trip # 0
  <2>1. ASSUME rode PROVE RidesTo(row[b], b)
    BY <1>1, <2>1 DEF RowIs
  <2> HIDE DEF b
  <2>2. rode => row[b].trip \in Trips
    BY <2>1, PatternIs DEF RidesTo, Trips
  <2> QED BY <2>2 DEF Trips
<1>6. rode => Rail(row[b].trip) = tt.trips[row[b].trip].rail
  BY <1>5, RailIs
<1>7. less = slack
  <2>1. rode => (row[s].kind = "ride" <=> row[s].kind # "xfer")
    BY <1>4
  <2> HIDE DEF r, b, rail
  <2> QED BY <1>2, <1>5, <2>1
<1>8. from \/ off <=> r.train
  <2> HIDE DEF r, b
  <2> QED BY <1>2, <1>4, <1>6
<1>9. r.train => r.arr = arr
  BY <1>2, <1>4, <1>8
<1>10. ReadyFor(q, r, t) = IF rail /\ r.train THEN MaxOf({r.time + less, r.arr + q.change})
                           ELSE r.time + (IF rail THEN MaxOf({less, q.entry}) ELSE less)
  BY DEF ReadyFor
<1>11. less \in Nat /\ r.time + less \in Int /\ r.arr + q.change \in Int
  BY <1>2, <1>3
<1> HIDE DEF r, b, rail, from, off, rode, less, slack, arr
<1>12. MaxOf({r.time + less, r.arr + q.change}) = IF r.time + less >= r.arr + q.change THEN r.time + less ELSE r.arr + q.change
  BY <1>11, GreaterIs
<1>13. MaxOf({less, q.entry}) = IF less >= q.entry THEN less ELSE q.entry
  BY <1>3, <1>11, GreaterIs
<1>14. ReadyFor(q, r, t) \in Int /\ ReadyFor(q, r, t) <= ReadyAt(row, s, rail)
  <2>1. CASE ~rail
    BY <1>1, <1>2, <1>3, <1>7, <1>10, <1>11, <2>1
  <2>2. CASE rail /\ r.train
    <3>1. ReadyFor(q, r, t) = IF r.time + less >= r.arr + q.change THEN r.time + less ELSE r.arr + q.change
      BY <1>10, <1>12, <2>2
    <3>2. ReadyAt(row, s, rail) = IF row[s].time + less >= r.arr + q.change THEN row[s].time + less ELSE r.arr + q.change
      BY <1>1, <1>7, <1>8, <1>9, <2>2
    <3> QED BY <1>2, <1>3, <1>11, <3>1, <3>2
  <2>3. CASE rail /\ ~r.train
    <3>1. ReadyFor(q, r, t) = r.time + (IF less >= q.entry THEN less ELSE q.entry)
      BY <1>10, <1>13, <2>3
    <3>2. ReadyAt(row, s, rail) = IF less >= q.entry THEN row[s].time + less ELSE row[s].time + q.entry
      BY <1>1, <1>7, <1>8, <2>3
    <3> QED BY <1>2, <1>3, <1>11, <3>1, <3>2
  <2> QED BY <2>1, <2>2, <2>3
<1> QED BY <1>14 DEF r, rail

-----------------------------------------------------------------------------
(* Walking from one stop                                                   *)

\* What a walk from one stop makes of a label.
OfferTo(row, way, d) ==
  LET cand == row[way.from].time + net.foot[way.from][d]
  IN  IF net.foot[way.from][d] < Inf /\ cand < row[d].time /\ cand < way.ub
      THEN [row[d] EXCEPT !.time = cand, !.kind = "xfer", !.from = way.from] ELSE row[d]

\* A label that a walk offers is of a walk, and earlier; the walk's own stop keeps its own.
LEMMA OfferIs ==
  ASSUME Loaded, NEW row, RowIs(row), NEW way, way.from \in Stops, NEW d \in Stops
  PROVE  LET l == OfferTo(row, way, d)
             s == way.from
         IN  \/ l = row[d] /\ ~(net.foot[s][d] < Inf /\ row[s].time + net.foot[s][d] < row[d].time
                                /\ row[s].time + net.foot[s][d] < way.ub)
             \/ /\ d # s /\ DOMAIN l = LabelFields /\ l.kind = "xfer" /\ l.from = s
                /\ l.time = row[s].time + net.foot[s][d] /\ l.time \in Nat
                /\ net.foot[s][d] < Inf /\ l.time < row[d].time /\ l.time < way.ub
<1> DEFINE s == way.from
           foot == net.foot[s][d]
           cand == row[s].time + foot
           l == [row[d] EXCEPT !.time = cand, !.kind = "xfer", !.from = s]
<1>1. foot \in Nat /\ row[s].time \in Nat /\ row[d].time \in Nat /\ DOMAIN row[d] = LabelFields
  BY FootpathIs DEF RowIs
<1>2. CASE ~(foot < Inf /\ cand < row[d].time /\ cand < way.ub)
  <2>1. OfferTo(row, way, d) = row[d]
    BY <1>2 DEF OfferTo
  <2> QED BY <1>2, <2>1
<1>3. CASE foot < Inf /\ cand < row[d].time /\ cand < way.ub
  <2>1. OfferTo(row, way, d) = l
    BY <1>3 DEF OfferTo
  <2>2. DOMAIN l = LabelFields /\ l.time = cand /\ l.kind = "xfer" /\ l.from = s
    BY <1>1 DEF LabelFields
  <2>3. d # s /\ cand \in Nat
    BY <1>1, <1>3
  <2> HIDE DEF l, foot
  <2> QED BY <1>3, <2>1, <2>2, <2>3 DEF foot
<1> QED BY <1>2, <1>3

OfferedTo(row, way, n, new) ==
  DOMAIN new = Stops /\ \A d \in Stops : new[d] = IF d <= n THEN OfferTo(row, way, d) ELSE row[d]
OfferGood(h, n, acc) == Written(acc) /\ OfferedTo(h.row, h.way, n, acc.row)
Offering == INSTANCE FoldLaws WITH Step <- WalkStep, Good <- OfferGood

\* One footpath of a walk writes one label.
LEMMA OfferOne ==
  ASSUME Loaded, NEW row, RowIs(row), NEW way, way.from \in Stops, NEW d \in Stops,
         NEW h, h.row = row, h.way = way, NEW acc, OfferGood(h, d - 1, acc)
  PROVE  OfferGood(h, d, WalkStep(way, acc, d))
<1> DEFINE s == way.from
           foot == net.foot[s][d]
           cand == row[s].time + foot
           l == [row[d] EXCEPT !.time = cand, !.kind = "xfer", !.from = s]
           a == [acc EXCEPT !.row[d] = l, !.best[d] = cand, !.marks = Marks(acc.marks, d)]
<1>1. /\ Written(acc) /\ OfferedTo(row, way, d - 1, acc.row) /\ d \in Nat /\ foot \in Nat /\ row[s].time \in Nat
      /\ DOMAIN row[d] = LabelFields
  BY FootpathIs DEF OfferGood, RowIs, Stops, StopsOf
<1>2. DOMAIN acc.row = Stops /\ acc.row[d] = row[d] /\ acc.row[s] = row[s] /\ acc.best[d] = row[d].time
  <2>1. OfferTo(row, way, s) = row[s]
    BY OfferIs
  <2>2. DOMAIN acc.row = Stops /\ \A x \in Stops : acc.row[x] = IF x <= d - 1 THEN OfferTo(row, way, x) ELSE row[x]
    BY <1>1 DEF OfferedTo
  <2>3. ~(d <= d - 1)
    BY <1>1
  <2>4. acc.row[d] = row[d]
    BY <2>2, <2>3
  <2>5. acc.row[s] = row[s]
    BY <2>1, <2>2
  <2> QED BY <1>1, <2>2, <2>4, <2>5 DEF Written
<1>3. ASSUME NEW new, DOMAIN new = Stops, new[d] = OfferTo(row, way, d), \A x \in Stops : x # d => new[x] = acc.row[x]
      PROVE  OfferedTo(row, way, d, new)
  <2>1. ASSUME NEW x \in Stops PROVE new[x] = IF x <= d THEN OfferTo(row, way, x) ELSE row[x]
    <3>1. CASE x = d
      BY <1>1, <1>3, <3>1
    <3>2. CASE x # d
      <4>1. x \in Nat /\ (x <= d - 1 <=> x <= d)
        BY <1>1, <3>2 DEF Stops, StopsOf
      <4> QED BY <1>1, <1>3, <3>2, <4>1 DEF OfferedTo
    <3> QED BY <3>1, <3>2
  <2> QED BY <1>3, <2>1 DEF OfferedTo
<1>4. CASE ~(foot < Inf /\ cand < row[d].time /\ cand < way.ub)
  <2>1. OfferTo(row, way, d) = acc.row[d]
    BY <1>2, <1>4 DEF OfferTo
  <2>2. WalkStep(way, acc, d) = acc
    BY <1>1, <1>2, <1>4, TimesAssumption DEF WalkStep, WalkOnce
  <2>3. OfferedTo(row, way, d, acc.row)
    BY <1>2, <1>3, <2>1
  <2> QED BY <1>1, <2>2, <2>3 DEF OfferGood
<1>5. CASE foot < Inf /\ cand < row[d].time /\ cand < way.ub
  <2>1. OfferTo(row, way, d) = l
    BY <1>5 DEF OfferTo
  <2>2. WalkStep(way, acc, d) = a
    BY <1>1, <1>2, <1>5, TimesAssumption DEF WalkStep, WalkOnce
  <2>3. l.time = cand
    BY <1>1 DEF LabelFields
  <2> HIDE DEF l, cand
  <2>4. /\ {"row", "best", "marks"} \subseteq DOMAIN a /\ a.row = [acc.row EXCEPT ![d] = l]
        /\ a.best = [acc.best EXCEPT ![d] = cand] /\ a.marks = Marks(acc.marks, d)
    BY <1>1 DEF Written
  <2> HIDE DEF a
  <2>5. Written(a)
    BY <1>1, <2>3, <2>4, MarksAre DEF Written
  <2>6. DOMAIN a.row = Stops /\ a.row[d] = l /\ \A x \in Stops : x # d => a.row[x] = acc.row[x]
    BY <1>2, <2>4
  <2>7. OfferedTo(row, way, d, a.row)
    BY <1>3, <2>1, <2>6
  <2> QED BY <2>2, <2>5, <2>7 DEF OfferGood
<1> QED BY <1>4, <1>5

\* Walking from a stop offers every other a footpath.
LEMMA AroundIs ==
  ASSUME Loaded, NEW acc, Written(acc), RowIs(acc.row), NEW way, way.from \in Stops
  PROVE  Written(WalkAround(acc, way)) /\ \A d \in Stops : WalkAround(acc, way).row[d] = OfferTo(acc.row, way, d)
<1> DEFINE seq == Ascending(tt.nstops)
           h == [row |-> acc.row, way |-> way]
<1>0. tt.nstops \in Nat /\ DOMAIN seq = 1..tt.nstops /\ (\A k \in 1..tt.nstops : seq[k] = k) /\ Stops = 1..tt.nstops
  BY TimetablesAssumption DEF Loaded, tt, IsCompiled, Ascending, Stops, StopsOf
<1>h. h.row = acc.row /\ h.way = way
  OBVIOUS
<1> HIDE DEF h
<1>1. OfferGood(h, 0, acc)
  <2>1. OfferedTo(acc.row, way, 0, acc.row)
    BY <1>0 DEF OfferedTo, RowIs
  <2> QED BY <1>h, <2>1 DEF OfferGood
<1>2. ASSUME NEW k \in 1..tt.nstops, NEW a, OfferGood(h, k - 1, a) PROVE OfferGood(h, k, WalkStep(way, a, seq[k]))
  <2>1. k \in Stops /\ seq[k] = k
    BY <1>0
  <2> HIDE DEF seq
  <2> QED BY <1>h, <1>2, <2>1, OfferOne
<1>3. OfferGood(h, tt.nstops, Offering!Folded(way, acc, seq))
  <2> HIDE DEF seq
  <2> QED BY <1>0, <1>1, <1>2, Offering!FoldKeeps, NatsFrom
<1>4. WalkAround(acc, way) = Offering!Folded(way, acc, seq)
  BY DEF WalkAround, WalkStep, Offering!Folded,
         FoldLeft, MapThenFoldSet, Max, Offering!Largest
<1>5. \A d \in Stops : d <= tt.nstops
  BY <1>0
<1> QED BY <1>h, <1>3, <1>4, <1>5 DEF OfferGood, OfferedTo

\* Where a row is earlier than the one before.
Bettered(row, prev, s) == row[s].time < prev[s].time

\* No detour of walks is shorter: a walk that is new in a row leads from a stop that is
\* new too, exactly, and one that is kept does so unless it is too late to matter.
WalkTimed(row, prev, ub, kind) ==
  WalksClosed =>
    \A s \in Stops : row[s].kind = "xfer" =>
      IF Bettered(row, prev, s)
      THEN LET from == row[s].from
           IN  row[from].kind = kind /\ Bettered(row, prev, from) /\ row[s].time = row[from].time + net.foot[from][s]
      ELSE PlainAt(row, s) \/ row[s].time >= ub

\* What walking leaves of a row.
Rewalked(row, old) == \A s \in Stops : row[s] = old[s] \/ (row[s].kind = "xfer" /\ row[s].time < old[s].time)

\* A row between two walks: h is the row before, the time to beat, where walks begin, and
\* the row as the walks found it.
Walking(row, h) ==
  /\ RowIs(row) /\ OnTime(row) /\ WalkTimed(row, h.prev, h.ub, h.kind) /\ Rewalked(row, h.row)
  /\ \A s \in Stops : /\ row[s].kind = "xfer" /\ Bettered(row, h.prev, s) => row[s].time < h.ub
                      /\ row[s].time <= h.prev[s].time \/ h.ub <= h.prev[s].time
Walks(h) == h.kind \in {"access", "ride"} /\ h.ub \in Nat /\ h.ub <= Inf /\ Numbered(h.prev) /\ Numbered(h.row)

\* Walking from one more stop.
LEMMA WalkFrom ==
  ASSUME Loaded, NEW h, Walks(h), NEW row, Walking(row, h), NEW way, way.from \in Stops, way.ub = h.ub,
         row[way.from].kind = h.kind, Bettered(row, h.prev, way.from) \/ row[way.from].time >= h.ub,
         NEW new, DOMAIN new = Stops, \A d \in Stops : new[d] = OfferTo(row, way, d)
  PROVE  Walking(new, h)
<1> DEFINE s == way.from
           Foot(a, d) == net.foot[a][d]
           Changed(d) == new[d].kind = "xfer" /\ new[d].from = s /\ new[d].time = row[s].time + Foot(s, d)
                         /\ Foot(s, d) < Inf /\ new[d].time < row[d].time /\ new[d].time < h.ub /\ new[d].time \in Nat
                         /\ DOMAIN new[d] = LabelFields
           Kept(d) == new[d] = row[d] /\ ~(Foot(s, d) < Inf /\ row[s].time + Foot(s, d) < row[d].time
                                           /\ row[s].time + Foot(s, d) < h.ub)
<1>1. RowIs(row) /\ OnTime(row) /\ WalkTimed(row, h.prev, h.ub, h.kind) /\ Rewalked(row, h.row)
  BY DEF Walking
<1>2. \A d \in Stops : row[d].time \in Nat /\ h.prev[d].time \in Nat /\ h.row[d].time \in Nat
  BY <1>1 DEF RowIs, Walks, Numbered
<1>3. \A a \in Stops : \A d \in Stops : Foot(a, d) \in Nat
  BY FootpathIs
<1>4. h.ub \in Nat /\ h.ub <= Inf /\ Inf \in Nat /\ h.kind \in {"access", "ride"}
  BY TimesAssumption DEF Walks
<1>5. \A d \in Stops : Kept(d) \/ (d # s /\ Changed(d))
  BY <1>1, OfferIs
<1>6. new[s] = row[s]
  BY <1>5
<1>7. \A d \in Stops : Changed(d) => Bettered(row, h.prev, s) /\ Bettered(new, h.prev, d)
  <2> TAKE d \in Stops
  <2> HAVE Changed(d)
  <2>1. row[s].time < h.ub
    BY <1>2, <1>3, <1>4
  <2>2. Bettered(row, h.prev, s)
    BY <1>2, <1>4, <2>1
  <2>3. row[d].time <= h.prev[d].time \/ h.ub <= h.prev[d].time
    BY DEF Walking
  <2>4. new[d].time < h.prev[d].time
    BY <1>2, <1>4, <2>3
  <2> QED BY <2>2, <2>4 DEF Bettered
<1>8. \A d \in Stops : new[d].time \in Nat /\ new[d].time <= row[d].time
  BY <1>2, <1>5
<1> HIDE DEF Foot
<1>9. RowIs(new)
  <2>1. ASSUME NEW d \in Stops, Kept(d)
        PROVE  /\ DOMAIN new[d] = LabelFields /\ new[d].time \in Nat /\ new[d].kind \in {"none", "access", "xfer", "ride"}
               /\ new[d].kind = "none" => new[d].time >= Inf
               /\ new[d].kind = "access" => d \in DOMAIN q.sources
               /\ new[d].kind = "xfer" => new[d].from \in Stops
               /\ new[d].kind = "ride" => new[d].from \in Stops /\ RidesTo(new[d], d)
    BY <1>1, <2>1 DEF RowIs
  <2> QED BY <1>5, <2>1 DEF RowIs
<1>10. OnTime(new)
  <2>1. ASSUME NEW d \in Stops, Changed(d)
        PROVE  new[d].kind = "xfer" /\ Foot(new[d].from, d) < Inf /\ new[s].time + Foot(s, d) <= new[d].time /\ new[d].time < Inf
    BY <1>2, <1>3, <1>4, <1>6, <2>1
  <2>2. ASSUME NEW d \in Stops, Kept(d), new[d].kind = "xfer"
        PROVE  Foot(new[d].from, d) < Inf /\ new[new[d].from].time + Foot(new[d].from, d) <= new[d].time /\ new[d].time < Inf
    <3> DEFINE a == row[d].from
    <3>1. a \in Stops /\ Foot(a, d) < Inf /\ row[a].time + Foot(a, d) <= row[d].time /\ row[d].time < Inf /\ new[d].from = a
      BY <1>1, <2>2 DEF RowIs, OnTime, Foot
    <3> HIDE DEF a
    <3> QED BY <1>2, <1>3, <1>8, <2>2, <3>1
  <2>3. ASSUME NEW d \in Stops, new[d].kind = "access" PROVE new[d].time = q.sources[d].sec
    BY <1>1, <1>5, <2>3 DEF OnTime
  <2>4. ASSUME NEW d \in Stops, new[d].kind = "xfer"
        PROVE  Foot(new[d].from, d) < Inf /\ new[new[d].from].time + Foot(new[d].from, d) <= new[d].time /\ new[d].time < Inf
    BY <1>5, <2>1, <2>2, <2>4
  <2> QED BY <2>3, <2>4 DEF OnTime, Foot
<1>11. Rewalked(new, h.row)
  <2> SUFFICES ASSUME NEW d \in Stops PROVE new[d] = h.row[d] \/ (new[d].kind = "xfer" /\ new[d].time < h.row[d].time)
    BY DEF Rewalked
  <2>1. row[d] = h.row[d] \/ (row[d].kind = "xfer" /\ row[d].time < h.row[d].time)
    BY <1>1 DEF Rewalked
  <2> QED BY <1>2, <1>5, <2>1
<1>12. WalkTimed(new, h.prev, h.ub, h.kind)
  <2> SUFFICES ASSUME WalksClosed, NEW d \in Stops, new[d].kind = "xfer"
      PROVE  LET from == new[d].from
             IN  IF Bettered(new, h.prev, d)
                 THEN new[from].kind = h.kind /\ Bettered(new, h.prev, from) /\ new[d].time = new[from].time + net.foot[from][d]
                 ELSE PlainAt(new, d) \/ new[d].time >= h.ub
    BY DEF WalkTimed
  <2>1. CASE Changed(d)
    BY <1>6, <1>7, <2>1 DEF Foot, Bettered
  <2>2. CASE Kept(d)
    <3> DEFINE a == row[d].from
    <3>1. a \in Stops /\ new[d].from = a /\ row[d].kind = "xfer" /\ new[d] = row[d]
          /\ Foot(a, d) < Inf /\ row[a].time + Foot(a, d) <= row[d].time /\ row[d].time < Inf
      BY <1>1, <2>2 DEF RowIs, OnTime, Foot
    <3>2. IF Bettered(row, h.prev, d)
          THEN row[a].kind = h.kind /\ Bettered(row, h.prev, a) /\ row[d].time = row[a].time + Foot(a, d) /\ row[d].time < h.ub
          ELSE PlainAt(row, d) \/ row[d].time >= h.ub
      BY <1>1, <3>1 DEF WalkTimed, Foot, Walking
    <3>3. Bettered(new, h.prev, d) <=> Bettered(row, h.prev, d)
      BY <3>1 DEF Bettered
    <3>4. PlainAt(row, d) <=> row[a].kind \in {"access", "ride"}
      BY <3>1 DEF PlainAt, Base
    <3>5. PlainAt(new, d) <=> new[a].kind \in {"access", "ride"}
      BY <3>1 DEF PlainAt, Base
    <3> HIDE DEF a
    <3>6. CASE Kept(a)
      BY <3>1, <3>2, <3>3, <3>4, <3>5, <3>6 DEF Foot, Bettered
    <3>7. CASE a # s /\ Changed(a)
      <4>1. CASE d = s
        BY <1>4, <3>1, <4>1
      <4>2. CASE d # s
        <5>1. Foot(s, a) < Inf /\ Foot(s, d) <= Foot(s, a) + Foot(a, d)
          BY <3>1, <3>7, <4>2 DEF WalksClosed, Foot
        <5>2. row[s].time + Foot(s, a) < row[a].time
          BY <3>7
        <5>3. row[s].time + Foot(s, d) < row[d].time
          BY <1>2, <1>3, <3>1, <5>1, <5>2
        <5>4. Foot(s, d) < Inf
          BY <1>2, <1>3, <1>4, <3>1, <5>3
        <5>5. row[s].time + Foot(s, d) >= h.ub
          BY <1>2, <1>3, <1>4, <2>2, <5>3, <5>4
        <5>6. row[d].time >= h.ub
          BY <1>2, <1>3, <1>4, <5>3, <5>5
        <5> QED BY <1>2, <1>4, <3>1, <3>2, <3>3, <5>6
      <4> QED BY <4>1, <4>2
    <3> QED BY <1>5, <3>1, <3>6, <3>7
  <2> QED BY <1>5, <2>1, <2>2
<1>13. ASSUME NEW d \in Stops
       PROVE  /\ new[d].kind = "xfer" /\ Bettered(new, h.prev, d) => new[d].time < h.ub
              /\ new[d].time <= h.prev[d].time \/ h.ub <= h.prev[d].time
  <2>1. /\ row[d].kind = "xfer" /\ Bettered(row, h.prev, d) => row[d].time < h.ub
        /\ row[d].time <= h.prev[d].time \/ h.ub <= h.prev[d].time
    BY DEF Walking
  <2> QED BY <1>2, <1>4, <1>5, <1>8, <2>1 DEF Bettered
<1> QED BY <1>9, <1>10, <1>11, <1>12, <1>13 DEF Walking

\* Walking from a stop that was reached in this round.
LEMMA MarchOne ==
  ASSUME Loaded, NEW h, Walks(h), NEW acc, Written(acc), Walking(acc.row, h), NEW s \in Stops,
         acc.row[s].kind = h.kind, Bettered(h.row, h.prev, s) \/ h.row[s].time >= h.ub,
         NEW way, way.from = s, way.ub = h.ub
  PROVE  Written(WalkAround(acc, way)) /\ Walking(WalkAround(acc, way).row, h)
<1> DEFINE new == WalkAround(acc, way)
<1>1. RowIs(acc.row)
  BY DEF Walking
<1>2. Written(new) /\ \A d \in Stops : new.row[d] = OfferTo(acc.row, way, d)
  BY <1>1, AroundIs
<1> HIDE DEF new
<1>3. acc.row[s] = h.row[s]
  BY DEF Walking, Rewalked, Walks
<1>4. Bettered(acc.row, h.prev, s) \/ acc.row[s].time >= h.ub
  BY <1>3 DEF Bettered
<1>5. DOMAIN new.row = Stops
  BY <1>2 DEF Written
<1> DEFINE row == new.row
<1>6. DOMAIN row = Stops /\ \A d \in Stops : row[d] = OfferTo(acc.row, way, d)
  BY <1>2, <1>5
<1> HIDE DEF row
<1>7. Walking(row, h)
  BY <1>4, <1>6, WalkFrom
<1> QED BY <1>2, <1>7 DEF new, row

\* A list of stops that rides, or sources, improved.
MarchGood(h, n, acc) == Written(acc) /\ Walking(acc.row, h)
Marches(list, h) ==
  \A s \in ToSet(list) : h.row[s].kind = h.kind => Bettered(h.row, h.prev, s) \/ h.row[s].time >= h.ub
Departing == INSTANCE FoldLaws WITH Step <- LeaveStep, Good <- MarchGood
Marching == INSTANCE FoldLaws WITH Step <- RodeStep, Good <- MarchGood

\* Walking from the sources ...
LEMMA SourceMarch ==
  ASSUME Loaded, NEW h, Walks(h), h.kind = "access", NEW acc, Written(acc), Walking(acc.row, h),
         NEW list, IsSeq(list), ToSet(list) \subseteq Stops, Marches(list, h)
  PROVE  Walking(Walk(acc, list, h.ub, WalksFirst).row, h)
<1>0. Len(list) \in Nat /\ DOMAIN list = 1..Len(list)
      /\ \A k \in 1..Len(list) : list[k] \in Stops /\ list[k] \in ToSet(list)
  BY IsSeqHas
<1> DEFINE ub == h.ub
<1> HIDE DEF ub
<1>1. MarchGood(h, 0, acc)
  BY DEF MarchGood
<1>2. ASSUME NEW k \in 1..Len(list), NEW a, MarchGood(h, k - 1, a) PROVE MarchGood(h, k, LeaveStep(ub, a, list[k]))
  <2> DEFINE s == list[k]
             way == [from |-> s, ub |-> ub]
  <2>1. s \in Stops /\ s \in ToSet(list) /\ way.from = s /\ way.ub = h.ub
    BY <1>0 DEF ub
  <2> HIDE DEF s, way
  <2>2. CASE ~WalksFirst(a.row, s)
    BY <1>2, <2>2 DEF MarchGood, LeaveStep, s
  <2>3. CASE WalksFirst(a.row, s)
    <3>1. a.row[s].kind = h.kind /\ Written(a) /\ Walking(a.row, h)
      BY <1>2, <2>3 DEF WalksFirst, MarchGood
    <3>2. h.row[s].kind = h.kind
      BY <2>1, <3>1 DEF Walking, Rewalked, Walks
    <3>3. Bettered(h.row, h.prev, s) \/ h.row[s].time >= h.ub
      BY <2>1, <3>2 DEF Marches
    <3>4. Written(WalkAround(a, way)) /\ Walking(WalkAround(a, way).row, h)
      BY <2>1, <3>1, <3>3, MarchOne
    <3> QED BY <2>3, <3>4 DEF MarchGood, LeaveStep, s, way
  <2> QED BY <2>2, <2>3
<1>3. MarchGood(h, Len(list), Departing!Folded(ub, acc, list))
  BY <1>0, <1>1, <1>2, Departing!FoldKeeps, NatsFrom
<1>4. Walk(acc, list, ub, WalksFirst) = Departing!Folded(ub, acc, list)
  BY DEF Walk, LeaveStep, Departing!Folded,
         FoldLeft, MapThenFoldSet, Max, Departing!Largest
<1> QED BY <1>3, <1>4 DEF MarchGood, ub

\* ... and from the stops that rides improved.
LEMMA RideMarch ==
  ASSUME Loaded, NEW h, Walks(h), h.kind = "ride", NEW acc, Written(acc), Walking(acc.row, h),
         NEW list, IsSeq(list), ToSet(list) \subseteq Stops, Marches(list, h)
  PROVE  Walking(Walk(acc, list, h.ub, Rode).row, h)
<1>0. Len(list) \in Nat /\ DOMAIN list = 1..Len(list)
      /\ \A k \in 1..Len(list) : list[k] \in Stops /\ list[k] \in ToSet(list)
  BY IsSeqHas
<1> DEFINE ub == h.ub
<1> HIDE DEF ub
<1>1. MarchGood(h, 0, acc)
  BY DEF MarchGood
<1>2. ASSUME NEW k \in 1..Len(list), NEW a, MarchGood(h, k - 1, a) PROVE MarchGood(h, k, RodeStep(ub, a, list[k]))
  <2> DEFINE s == list[k]
             way == [from |-> s, ub |-> ub]
  <2>1. s \in Stops /\ s \in ToSet(list) /\ way.from = s /\ way.ub = h.ub
    BY <1>0 DEF ub
  <2> HIDE DEF s, way
  <2>2. CASE ~Rode(a.row, s)
    BY <1>2, <2>2 DEF MarchGood, RodeStep, s
  <2>3. CASE Rode(a.row, s)
    <3>1. a.row[s].kind = h.kind /\ Written(a) /\ Walking(a.row, h)
      BY <1>2, <2>3 DEF Rode, MarchGood
    <3>2. h.row[s].kind = h.kind
      BY <2>1, <3>1 DEF Walking, Rewalked, Walks
    <3>3. Bettered(h.row, h.prev, s) \/ h.row[s].time >= h.ub
      BY <2>1, <3>2 DEF Marches
    <3>4. Written(WalkAround(a, way)) /\ Walking(WalkAround(a, way).row, h)
      BY <2>1, <3>1, <3>3, MarchOne
    <3> QED BY <2>3, <3>4 DEF MarchGood, RodeStep, s, way
  <2> QED BY <2>2, <2>3
<1>3. MarchGood(h, Len(list), Marching!Folded(ub, acc, list))
  BY <1>0, <1>1, <1>2, Marching!FoldKeeps, NatsFrom
<1>4. Walk(acc, list, ub, Rode) = Marching!Folded(ub, acc, list)
  BY DEF Walk, RodeStep, Marching!Folded,
         FoldLeft, MapThenFoldSet, Max, Marching!Largest
<1> QED BY <1>3, <1>4 DEF MarchGood, ub

-----------------------------------------------------------------------------
(* What a round's labels say of when                                       *)

\* A row in which a walk that may matter leads from a ride or a source.
PlainBelow(row, ub) == WalksClosed => \A s \in Stops : row[s].kind = "xfer" => PlainAt(row, s) \/ row[s].time >= ub

\* A ride was caught from a row.
Caught(row, l) ==
  /\ row[l.from].time < Inf
  /\ TripDep(tt, ov, l.trip, l.board) + l.day >= ReadyAt(row, l.from, tt.trips[l.trip].rail)
  /\ Regular => PlainAt(row, l.from)

\* A ride runs, and serves both ends.
RideRuns(l, s) ==
  /\ \E day \in Days(q) : l.day = day.off /\ tt.trips[l.trip].service \in day.active
  /\ ~ov.skip[l.trip] /\ ~StopSkipped(ov, l.trip, l.board)
  /\ LoopsPlain => LET at == PosInPattern(PatternOfTrip(tt, l.trip), s, l.board)
                   IN  ~StopSkipped(ov, l.trip, at) /\ l.time = AddDay(TripArr(tt, ov, l.trip, at), l.day)

\* Before the sources' round, and after it.
Nowhere == [s \in Stops |-> NoLabel]
Seeded(row) == \A s \in Stops : row[s].kind \in {"none", "access"}
FirstTimed(row) == RowIs(row) /\ OnTime(row) /\ PlainBelow(row, Inf)

\* Row k of the rows l, and how it became so.
RideTimed(l, k, s) ==
  l[k][s].kind = "ride" =>
    /\ RideRuns(l[k][s], s)
    /\ \E m \in 0..(k - 1) : Caught(l[m], l[k][s])
    /\ Bettered(l[k], l[k - 1], s) => Caught(l[k - 1], l[k][s])
RowTimed(l, k, ub) ==
  /\ RowIs(l[k]) /\ OnTime(l[k]) /\ WalkTimed(l[k], l[k - 1], ub, "ride")
  /\ \A s \in Stops : /\ \A j \in 0..(k - 1) : l[k][s].time <= l[j][s].time
                      /\ l[k][s].time = l[0][s].time => l[k][s] = l[0][s]
                      /\ RideTimed(l, k, s)

\* A row in the middle of a round: as before, or a ride caught from there.
ScanTimed(row, prev) ==
  \A s \in Stops : \/ row[s] = prev[s]
                   \/ row[s].kind = "ride" /\ Bettered(row, prev, s) /\ RideRuns(row[s], s) /\ Caught(prev, row[s])

\* The walks from the sources.
LEMMA SourcesTimed ==
  ASSUME Loaded, QueryIs(q), NEW acc, Written(acc), RowIs(acc.row), OnTime(acc.row), Seeded(acc.row),
         NEW list, IsSeq(list), ToSet(list) \subseteq Stops
  PROVE  FirstTimed(Walk(acc, list, Inf, WalksFirst).row)
<1> DEFINE h == [prev |-> Nowhere, ub |-> Inf, kind |-> "access", row |-> acc.row]
           new == Walk(acc, list, Inf, WalksFirst).row
<1>0. Inf \in Nat
  BY TimesAssumption
<1>h. h.prev = Nowhere /\ h.ub = Inf /\ h.kind = "access" /\ h.row = acc.row
  OBVIOUS
<1> HIDE DEF h
<1>1. \A s \in Stops : Nowhere[s].time = Inf /\ acc.row[s].time \in Nat
  BY DEF Nowhere, NoLabel, RowIs
<1>2. Walks(h)
  BY <1>0, <1>1, <1>h DEF Walks, Numbered
<1>3. Walking(acc.row, h)
  <2>1. \A s \in Stops : acc.row[s].kind # "xfer"
    BY DEF Seeded
  <2>2. WalkTimed(acc.row, h.prev, h.ub, h.kind)
    BY <2>1 DEF WalkTimed
  <2>3. Rewalked(acc.row, h.row)
    BY <1>h DEF Rewalked
  <2>4. \A s \in Stops : h.ub <= h.prev[s].time
    BY <1>0, <1>1, <1>h
  <2> QED BY <2>1, <2>2, <2>3, <2>4 DEF Walking
<1>4. Marches(list, h)
  <2>1. ASSUME NEW s \in Stops PROVE Bettered(acc.row, Nowhere, s) \/ acc.row[s].time >= Inf
    BY <1>0, <1>1 DEF Bettered
  <2> QED BY <1>h, <2>1 DEF Marches
<1>5. Walking(new, h)
  <2>1. Walking(Walk(acc, list, h.ub, WalksFirst).row, h)
    BY <1>2, <1>3, <1>4, <1>h, SourceMarch
  <2> QED BY <1>h, <2>1
<1> HIDE DEF new
<1>6. ASSUME WalksClosed, NEW s \in Stops, new[s].kind = "xfer" PROVE PlainAt(new, s) \/ new[s].time >= Inf
  <2>1. IF Bettered(new, h.prev, s)
        THEN new[new[s].from].kind = "access"
        ELSE PlainAt(new, s) \/ new[s].time >= Inf
    BY <1>5, <1>6, <1>h DEF Walking, WalkTimed
  <2> QED BY <1>6, <2>1 DEF PlainAt, Base
<1> QED BY <1>5, <1>6 DEF FirstTimed, Walking, PlainBelow, new

\* A later row's walks that may matter lead from a ride or a source, too.
LEMMA RowPlain ==
  ASSUME NEW row, NEW prev, NEW ub, NEW kind, kind \in {"access", "ride"}, WalkTimed(row, prev, ub, kind)
  PROVE  PlainBelow(row, ub)
<1> SUFFICES ASSUME WalksClosed, NEW s \in Stops, row[s].kind = "xfer" PROVE PlainAt(row, s) \/ row[s].time >= ub
  BY DEF PlainBelow
<1>1. IF Bettered(row, prev, s)
      THEN row[row[s].from].kind = kind
      ELSE PlainAt(row, s) \/ row[s].time >= ub
  BY DEF WalkTimed
<1> QED BY <1>1 DEF PlainAt, Base

\* The walks of a later round: what they leave is timed, if the rides were.
LEMMA RoundTimed ==
  ASSUME Loaded, QueryIs(q), NEW l, NEW k \in Nat \ {0}, NEW ub \in Nat, ub <= Inf,
         RowIs(l[k - 1]), OnTime(l[k - 1]), PlainBelow(l[k - 1], ub),
         k = 1 => \A s \in Stops : l[0][s].kind # "ride",
         k # 1 => RowTimed(l, k - 1, ub), \A j \in 0..(k - 1) : RowIs(l[j]),
         NEW acc, Written(acc), RowIs(acc.row), ScanTimed(acc.row, l[k - 1]),
         NEW list, IsSeq(list), ToSet(list) \subseteq Stops, \A s \in ToSet(list) : Bettered(acc.row, l[k - 1], s),
         NEW new, \A j \in 0..(k - 1) : new[j] = l[j], new[k] = Walk(acc, list, ub, Rode).row
  PROVE  RowTimed(new, k, ub)
<1> DEFINE prev == l[k - 1]
           row == acc.row
           h == [prev |-> prev, ub |-> ub, kind |-> "ride", row |-> row]
<1>h. h.prev = prev /\ h.ub = ub /\ h.kind = "ride" /\ h.row = row
  OBVIOUS
<1> HIDE DEF h, prev
<1>0. RowIs(prev) /\ OnTime(prev) /\ PlainBelow(prev, ub) /\ ScanTimed(row, prev) /\ new[k - 1] = prev /\ new[0] = l[0]
  BY DEF prev
<1>1. \A s \in Stops : prev[s].time \in Nat /\ row[s].time \in Nat /\ row[s].time <= prev[s].time /\ l[0][s].time \in Nat
  <2>1. \A s \in Stops : prev[s].time \in Nat /\ row[s].time \in Nat /\ l[0][s].time \in Nat
    <3>1. RowIs(l[0])
      OBVIOUS
    <3> QED BY <1>0, <3>1 DEF RowIs
  <2> QED BY <1>0, <2>1 DEF ScanTimed, Bettered
<1>2. Walks(h)
  BY <1>1, <1>h DEF Walks, Numbered
<1>3. Walking(row, h)
  <2>1. \A s \in Stops : row[s].kind = "xfer" => row[s] = prev[s]
    BY <1>0 DEF ScanTimed
  <2>2. OnTime(row)
    <3> SUFFICES ASSUME NEW s \in Stops
                 PROVE  /\ row[s].kind = "access" => row[s].time = q.sources[s].sec
                        /\ row[s].kind = "xfer" => LET foot == net.foot[row[s].from][s]
                                                   IN  foot < Inf /\ row[row[s].from].time + foot <= row[s].time /\ row[s].time < Inf
      BY DEF OnTime
    <3>1. CASE row[s].kind = "xfer"
      <4> DEFINE from == row[s].from
                 foot == net.foot[from][s]
      <4>1. row[s] = prev[s] /\ from \in Stops
        BY <2>1, <3>1 DEF RowIs
      <4>2. foot < Inf /\ prev[from].time + foot <= prev[s].time /\ prev[s].time < Inf /\ foot \in Nat
        BY <1>0, <3>1, <4>1, FootpathIs DEF OnTime
      <4>3. row[from].time + foot <= row[s].time
        <5> HIDE DEF from
        <5> QED BY <1>1, <4>1, <4>2
      <4> QED BY <3>1, <4>1, <4>2, <4>3
    <3>2. CASE row[s].kind # "xfer"
      BY <1>0, <3>2 DEF ScanTimed, OnTime
    <3> QED BY <3>1, <3>2
  <2>3. ASSUME NEW s \in Stops, PlainAt(prev, s), row[s].kind = "xfer" PROVE PlainAt(row, s)
    <3>1. row[s] = prev[s] /\ row[s].from \in Stops
      BY <2>1, <2>3 DEF RowIs
    <3>2. prev[row[s].from].kind \in {"access", "ride"}
      BY <2>3, <3>1 DEF PlainAt, Base
    <3>3. row[row[s].from].kind \in {"access", "ride"}
      BY <1>0, <3>1, <3>2 DEF ScanTimed
    <3> QED BY <2>3, <3>3 DEF PlainAt, Base
  <2>4. WalkTimed(row, prev, ub, "ride")
    <3> SUFFICES ASSUME WalksClosed, NEW s \in Stops, row[s].kind = "xfer"
                 PROVE  ~Bettered(row, prev, s) /\ (PlainAt(row, s) \/ row[s].time >= ub)
      BY DEF WalkTimed
    <3>1. row[s] = prev[s]
      BY <2>1
    <3>2. ~Bettered(row, prev, s)
      BY <1>1, <3>1 DEF Bettered
    <3>3. PlainAt(prev, s) \/ row[s].time >= ub
      BY <1>0, <3>1 DEF PlainBelow
    <3> QED BY <2>3, <3>2, <3>3
  <2>5. Rewalked(row, row)
    BY DEF Rewalked
  <2>6. \A s \in Stops : row[s].kind = "xfer" => ~Bettered(row, prev, s)
    BY <1>1, <2>1 DEF Bettered
  <2> QED BY <1>1, <1>h, <2>2, <2>4, <2>5, <2>6 DEF Walking
<1>4. Marches(list, h)
  BY <1>h DEF Marches, prev
<1>5. Walking(new[k], h)
  <2>1. Walking(Walk(acc, list, h.ub, Rode).row, h)
    BY <1>2, <1>3, <1>4, <1>h, RideMarch
  <2> QED BY <1>h, <2>1
<1> DEFINE now == new[k]
<1> HIDE DEF now
<1>6. RowIs(now) /\ OnTime(now) /\ WalkTimed(now, prev, ub, "ride") /\ Rewalked(now, row)
  BY <1>5, <1>h DEF Walking, now
<1>7. \A s \in Stops : now[s].time \in Nat /\ now[s].time <= row[s].time
  BY <1>1, <1>6 DEF RowIs, Rewalked
<1>8. ASSUME NEW s \in Stops, k # 1
      PROVE  /\ \A j \in 0..(k - 2) : prev[s].time <= l[j][s].time
             /\ prev[s].time = l[0][s].time => prev[s] = l[0][s]
             /\ prev[s].kind = "ride" => RideRuns(prev[s], s) /\ \E m \in 0..(k - 2) : Caught(l[m], prev[s])
  <2>1. k - 1 - 1 = k - 2
    OBVIOUS
  <2> QED BY <1>8, <2>1 DEF RowTimed, RideTimed, prev
<1>9. ASSUME NEW s \in Stops, NEW j \in 0..(k - 1) PROVE now[s].time <= new[j][s].time
  <2>1. now[s].time <= prev[s].time
    BY <1>1, <1>7
  <2>2. CASE j = k - 1
    BY <1>0, <2>1, <2>2
  <2>3. CASE j # k - 1
    <3>1. j \in 0..(k - 2) /\ k # 1 /\ new[j] = l[j]
      BY <2>3
    <3>2. k - 1 # 0 /\ l[k - 1] = prev
      BY <3>1 DEF prev
    <3>3. prev[s].time <= l[j][s].time
      BY <1>8, <3>1
    <3>4. RowIs(l[j])
      OBVIOUS
    <3>5. l[j][s].time \in Nat /\ prev[s].time \in Nat /\ now[s].time \in Nat
      BY <1>1, <1>7, <3>4 DEF RowIs
    <3> QED BY <2>1, <3>1, <3>3, <3>5
  <2> QED BY <2>2, <2>3
<1>10. ASSUME NEW s \in Stops, now[s].time = l[0][s].time PROVE now[s] = l[0][s]
  <2>1. prev[s].time <= l[0][s].time /\ (prev[s].time = l[0][s].time => prev[s] = l[0][s])
    <3>1. CASE k = 1
      BY <1>1, <3>1 DEF prev
    <3>2. CASE k # 1
      <4>1. 0 \in 0..(k - 2)
        BY <3>2
      <4> QED BY <1>8, <3>2, <4>1
    <3> QED BY <3>1, <3>2
  <2>2. now[s].time = row[s].time /\ row[s].time = prev[s].time /\ prev[s].time = l[0][s].time
    BY <1>1, <1>7, <1>10, <2>1
  <2>3. now[s] = row[s]
    BY <1>6, <1>7, <1>1, <2>2 DEF Rewalked
  <2>4. row[s] = prev[s]
    BY <1>0, <1>1, <2>2 DEF ScanTimed, Bettered
  <2> QED BY <2>1, <2>2, <2>3, <2>4
<1>11. ASSUME NEW s \in Stops, now[s].kind = "ride"
       PROVE  /\ RideRuns(now[s], s)
              /\ \E m \in 0..(k - 1) : Caught(new[m], now[s])
              /\ Bettered(now, prev, s) => Caught(prev, now[s])
  <2>1. now[s] = row[s]
    BY <1>6, <1>11 DEF Rewalked
  <2>2. CASE row[s] # prev[s]
    <3>1. RideRuns(row[s], s) /\ Caught(prev, row[s])
      BY <1>0, <2>2 DEF ScanTimed
    <3>2. k - 1 \in 0..(k - 1)
      OBVIOUS
    <3> QED BY <1>0, <2>1, <3>1, <3>2
  <2>3. CASE row[s] = prev[s]
    <3>1. k # 1
      BY <1>11, <2>1, <2>3 DEF prev
    <3>2. PICK m \in 0..(k - 2) : Caught(l[m], prev[s])
      BY <1>8, <1>11, <2>1, <2>3, <3>1
    <3>3. m \in 0..(k - 1) /\ new[m] = l[m]
      BY <3>2
    <3>4. RideRuns(prev[s], s)
      BY <1>8, <1>11, <2>1, <2>3, <3>1
    <3>5. ~Bettered(now, prev, s)
      BY <1>1, <2>1, <2>3 DEF Bettered
    <3> QED BY <2>1, <2>3, <3>2, <3>3, <3>4, <3>5
  <2> QED BY <2>2, <2>3
<1> QED BY <1>0, <1>6, <1>9, <1>10, <1>11 DEF RowTimed, RideTimed, now

-----------------------------------------------------------------------------
(* Scanning a pattern: which rides are written                             *)

DeparturesKnown == \A t \in 1..Len(tt.trips) : \A i \in 1..Len(tt.trips[t].stops) : TripDep(tt, ov, t, i) \in Int

ArrivesOn(t, i, day) == AddDay(TripArr(tt, ov, t, i), day)

\* The trip held can be ridden, and no stop it has served since is reached later.
HoldsTimed(acc, line, prev, pos) ==
  acc.trip # 0 =>
    /\ tt.trips[acc.trip].service \in line.active /\ ~ov.skip[acc.trip] /\ ~StopSkipped(ov, acc.trip, acc.board)
    /\ prev[acc.boardStop].time < Inf
    /\ TripDep(tt, ov, acc.trip, acc.board) + line.day >= ReadyAt(prev, acc.boardStop, tt.trips[acc.trip].rail)
    /\ \A i \in (acc.board + 1)..pos :
         LET arr == ArrivesOn(acc.trip, i, line.day)
         IN  StopSkipped(ov, acc.trip, i) \/ acc.best[tt.pats[line.pat].stops[i]] <= arr \/ upper <= arr

\* What a scan has written so far, and marked.
ScansTimed(acc, prev) == ScanTimed(acc.row, prev) /\ \A s \in ToSet(acc.marks.list) : Bettered(acc.row, prev, s)

\* Waiting makes no one earlier.
LEMMA ReadyLater ==
  ASSUME Loaded, QueryIs(q), NEW row, RowIs(row), NEW s \in Stops, NEW rail
  PROVE  ReadyAt(row, s, rail) \in Int /\ ReadyAt(row, s, rail) >= row[s].time
<1> DEFINE b == Base(row, s)
           rode  == row[b].kind = "ride"
           slack == IF rode /\ (~rail \/ row[s].kind = "ride") THEN q.slack ELSE 0
           from  == row[b].kind = "access" /\ q.sources[b].rail
           off   == rode /\ Rail(row[b].trip)
           arr   == IF from THEN q.sources[b].arr ELSE row[b].time
           ready == row[s].time + slack
<1>1. /\ from \/ off => arr + q.change \in Int
      /\ ReadyAt(row, s, rail) = IF ~rail THEN ready
                                 ELSE IF from \/ off
                                 THEN IF ready >= arr + q.change THEN ready ELSE arr + q.change
                                 ELSE IF slack >= q.entry THEN ready ELSE row[s].time + q.entry
  BY WaitIs
<1>2. row[s].time \in Nat /\ q.slack \in Nat /\ q.entry \in Nat
  BY DEF RowIs, QueryIs
<1>3. slack \in Nat
  BY <1>2
<1> HIDE DEF slack, arr, from, off, rode
<1>4. ready \in Nat /\ ready >= row[s].time
  BY <1>2, <1>3
<1> QED BY <1>1, <1>2, <1>3, <1>4

\* A trip that is caught is one that runs, and that the rider is ready for.
LEMMA CatchFits ==
  ASSUME Loaded, NEW p \in Pats, NEW held \in Int, held # 0 => held \in tt.pats[p].lo..tt.pats[p].hi,
         NEW pos, NEW active, NEW day, NEW ready,
         CatchAt(held, p, pos, active, day, ready) # 0
  PROVE  LET t == CatchAt(held, p, pos, active, day, ready)
         IN  t \in tt.pats[p].lo..tt.pats[p].hi /\ Boardable(t, pos, active) /\ Catchable(t, pos, day, ready)
<1> DEFINE trips == tt.pats[p].lo..(IF held = 0 THEN tt.pats[p].hi ELSE held - 1)
           board == {x \in trips : Boardable(x, pos, active)}
           catch == {x \in board : Catchable(x, pos, day, ready)}
           lost  == board \ catch
           after == IF held = 0 \/ lost = {} THEN catch ELSE {x \in catch : x > MaxOf(lost)}
<1>0. tt.pats[p].lo \in Nat /\ tt.pats[p].hi \in Nat
  BY PatternIs
<1>1. trips \in SUBSET (tt.pats[p].lo..tt.pats[p].hi)
  BY <1>0
<1>2. after \in SUBSET trips /\ \A x \in after : Boardable(x, pos, active) /\ Catchable(x, pos, day, ready)
  OBVIOUS
<1>3. after # {} /\ CatchAt(held, p, pos, active, day, ready) = MinOf(after)
  BY DEF CatchAt
<1> HIDE DEF after, trips
<1>4. after \in SUBSET Nat
  BY <1>0, <1>1, <1>2
<1>5. MinOf(after) \in after
  BY <1>3, <1>4, LeastExists DEF MinOf
<1> QED BY <1>1, <1>2, <1>3, <1>5

\* Boarding: the trip held was caught here.
LEMMA BoardTimed ==
  ASSUME Loaded, NEW prev, lab[round - 1] = prev, NEW line, line.pat \in Pats,
         NEW pos \in 1..Len(tt.pats[line.pat].stops),
         NEW acc, HoldsTrip(acc, line.pat, prev, pos - 1), HoldsTimed(acc, line, prev, pos),
         \A x \in Stops : prev[x].time \in Nat
  PROVE  HoldsTimed(BoardAt(acc, line.pat, pos, tt.pats[line.pat].stops[pos], line.active, line.day), line, prev, pos)
<1> DEFINE p == line.pat
           s == tt.pats[p].stops[pos]
           ready == prev[s].time + WaitAt(prev, s, tt.pats[p].rail)
           t == CatchAt(acc.trip, p, pos, line.active, line.day, ready)
           a == [acc EXCEPT !.trip = t, !.board = pos, !.boardStop = s]
<1>0. Len(tt.pats[p].stops) \in Nat /\ s \in Stops /\ tt.pats[p].lo \in Nat /\ tt.pats[p].hi \in Nat
  BY PatternIs
<1>1. CASE prev[s].time >= Inf \/ t = 0
  BY <1>1 DEF BoardAt
<1>2. CASE ~(prev[s].time >= Inf \/ t = 0)
  <2>1. BoardAt(acc, p, pos, s, line.active, line.day) = a
    BY <1>2 DEF BoardAt
  <2>2. DOMAIN acc = ScanFields
    BY DEF HoldsTrip
  <2>3. acc.trip \in Int /\ (acc.trip # 0 => acc.trip \in tt.pats[p].lo..tt.pats[p].hi)
    BY <1>0 DEF HoldsTrip
  <2>4. t \in tt.pats[p].lo..tt.pats[p].hi /\ Boardable(t, pos, line.active) /\ Catchable(t, pos, line.day, ready)
    <3> HIDE DEF ready, s, p
    <3>1. p \in Pats
      BY DEF p
    <3> HIDE DEF t
    <3>2. CatchAt(acc.trip, p, pos, line.active, line.day, ready) # 0
      BY <1>2 DEF t
    <3> QED BY <2>3, <3>1, <3>2, CatchFits DEF t
  <2>5. tt.trips[t].rail = tt.pats[p].rail
    <3>1. IsCompiled(tt)
      BY TimetablesAssumption DEF Loaded, tt
    <3> HIDE DEF t
    <3> QED BY Zenon, <2>4, <3>1 DEF IsCompiled, Pats
  <2> HIDE DEF t
  <2>6. a.trip = t /\ a.board = pos /\ a.boardStop = s
    BY <2>2 DEF ScanFields
  <2> HIDE DEF a
  <2>7. ReadyAt(prev, s, tt.trips[t].rail) = ready
    BY <2>5 DEF ReadyAt
  <2>8. prev[s].time < Inf
    BY <1>0, <1>2, TimesAssumption
  <2> HIDE DEF ready, s, p
  <2>9. tt.trips[t].service \in line.active /\ ~ov.skip[t] /\ ~StopSkipped(ov, t, pos)
        /\ TripDep(tt, ov, t, pos) + line.day >= ready
    BY <2>4 DEF Boardable, Usable, Catchable, TripSkipped
  <2>10. \A i \in (pos + 1)..pos : FALSE
    BY <1>0
  <2>11. HoldsTimed(a, line, prev, pos)
    BY <2>6, <2>7, <2>8, <2>9, <2>10 DEF HoldsTimed
  <2> QED BY <2>1, <2>11 DEF p, s
<1> QED BY <1>1, <1>2 

\* What is known of the trip held, and of the ride that alighting at pos would write.
LEMMA RideIs ==
  ASSUME Loaded, QueryIs(q), ArrivalsKnown, DeparturesKnown, NEW prev, RowIs(prev), PlainBelow(prev, upper), upper \in Nat,
         NEW line, line.pat \in Pats, [off |-> line.day, active |-> line.active] \in Days(q),
         NEW pos \in 1..Len(tt.pats[line.pat].stops),
         NEW acc, HoldsTrip(acc, line.pat, prev, pos - 1), HoldsTimed(acc, line, prev, pos - 1),
         acc.trip # 0, ~StopSkipped(ov, acc.trip, pos),
         NEW s \in Stops, s = tt.pats[line.pat].stops[pos], acc.best[s] \in Nat,
         NEW l, l.time = ArrivesOn(acc.trip, pos, line.day), l.trip = acc.trip, l.board = acc.board,
         l.from = acc.boardStop, l.day = line.day, l.time < acc.best[s], l.time < upper
  PROVE  RideRuns(l, s) /\ Caught(prev, l)
<1> DEFINE p == line.pat
           stops == tt.pats[p].stops
           t == acc.trip
           board == acc.board
           day == line.day
           Arr(i) == TripArr(tt, ov, t, i)
           dep == TripDep(tt, ov, t, board)
           ready == ReadyAt(prev, acc.boardStop, tt.trips[t].rail)
<1>0. /\ Len(stops) \in Nat /\ t \in tt.pats[p].lo..tt.pats[p].hi /\ t \in Trips /\ tt.trips[t].stops = stops
      /\ board \in 1..(pos - 1) /\ stops[board] = acc.boardStop /\ acc.boardStop \in Stops
      /\ \A i \in 1..Len(stops) : stops[i] \in Stops
      /\ DOMAIN stops = 1..Len(stops) /\ s = stops[pos] /\ pos \in 1..Len(stops)
  <2>0. DOMAIN stops = 1..Len(stops)
    <3>1. IsCompiled(tt)
      BY TimetablesAssumption DEF Loaded, tt
    <3>2. stops \in Seq(1..tt.nstops)
      BY <3>1 DEF Pats, IsCompiled
    <3> QED BY <3>2
  <2>1. Len(stops) \in Nat /\ t \in tt.pats[p].lo..tt.pats[p].hi /\ board \in 1..(pos - 1) /\ stops[board] = acc.boardStop
    BY PatternIs DEF HoldsTrip
  <2>2. t \in 1..Len(tt.trips) /\ tt.trips[t].stops = stops /\ \A i \in 1..Len(stops) : stops[i] \in Stops
    BY <2>1, PatternIs
  <2>3. board \in 1..Len(stops)
    BY <2>1
  <2> QED BY Zenon, <2>0, <2>1, <2>2, <2>3 DEF Trips
<1>1. TripLen(tt, t) = Len(stops) /\ dep \in Int /\ \A i \in 1..Len(stops) : Arr(i) \in Int
  <2> HIDE DEF t, stops, board
  <2>1. Len(tt.trips[t].stops) = Len(stops) /\ t \in 1..Len(tt.trips) /\ board \in 1..Len(stops)
    BY <1>0 DEF Trips
  <2> QED BY <2>1, TripIs DEF ArrivalsKnown, DeparturesKnown
<1>2. day \in Int /\ \E d \in Days(q) : day = d.off /\ line.active = d.active
  BY TimesAssumption DEF Days
<1>3. /\ tt.trips[t].service \in line.active /\ ~ov.skip[t] /\ ~StopSkipped(ov, t, board)
      /\ prev[acc.boardStop].time < Inf /\ dep + day >= ready
      /\ \A i \in (board + 1)..(pos - 1) :
           StopSkipped(ov, t, i) \/ acc.best[stops[i]] <= ArrivesOn(t, i, day) \/ upper <= ArrivesOn(t, i, day)
  BY Zenon DEF HoldsTimed
<1>4. ready \in Int /\ ready >= prev[acc.boardStop].time /\ prev[acc.boardStop].time \in Nat
  BY <1>0, ReadyLater DEF RowIs
<1> DEFINE o == PatternOfTrip(tt, t)
           at == PosInPattern(o, s, board)
<1>5. at \in (board + 1)..pos /\ stops[at] = s
  <2>1. o \in Pats /\ t \in tt.pats[o].lo..tt.pats[o].hi
    BY ZenonT(30), <1>0 DEF PatternOfTrip, Pats
  <2> HIDE DEF o
  <2>2. tt.pats[o].stops = stops
    BY <1>0, <2>1, PatternIs
  <2> HIDE DEF stops, board
  <2> DEFINE later == {i \in {j \in 1..Len(tt.pats[o].stops) : tt.pats[o].stops[j] = s} : i > board}
  <2>3. pos \in later /\ later \in SUBSET Nat
    BY <1>0, <2>2
  <2>4. at = MinOf(later)
    BY Zenon, <2>3 DEF PosInPattern
  <2>5. MinOf(later) \in later /\ \A y \in later : MinOf(later) <= y
    <3> HIDE DEF later
    <3> QED BY <2>3, LeastExists DEF MinOf
  <2>6. at \in Nat /\ at <= pos /\ at > board /\ stops[at] = s
    <3> HIDE DEF at
    <3> QED BY Zenon, <2>2, <2>3, <2>4, <2>5
  <2> HIDE DEF at
  <2> QED BY <1>0, <2>6
<1> HIDE DEF at, o, t, board, day, p, stops
<1>6. dep + day >= 0
  BY <1>1, <1>2, <1>3, <1>4
<1>7. ASSUME NEW i \in (board + 1)..pos, dep <= Arr(i) PROVE ArrivesOn(t, i, day) = Arr(i) + day
  <2>1. Arr(i) \in Int
    <3>1. i \in 1..Len(stops)
      BY <1>0
    <3> QED BY <1>1, <3>1
  <2> HIDE DEF dep, Arr
  <2>2. ~(Arr(i) + day < 0)
    BY <1>1, <1>2, <1>6, <1>7, <2>1
  <2> QED BY <2>2 DEF ArrivesOn, AddDay, Arr
<1>8. ASSUME LoopsPlain PROVE ~StopSkipped(ov, t, at) /\ l.time = ArrivesOn(t, at, day)
  <2>1. CASE at = pos
    BY <2>1 DEF t, day
  <2>2. CASE at # pos
    <3>1. VisitsTwice(t)
      <4>1. at \in DOMAIN stops /\ pos \in DOMAIN stops /\ stops[at] = stops[pos]
        BY <1>0, <1>5
      <4> QED BY <1>0, <2>2, <4>1 DEF VisitsTwice, IsInjective
    <3>2. Ascends(t) /\ \A i \in 1..TripLen(tt, t) : ~StopSkipped(ov, t, i)
      BY <1>0, <1>8, <3>1 DEF LoopsPlain
    <3>3. at \in 1..Len(stops) /\ pos \in 1..Len(stops) /\ board \in 1..Len(stops) /\ board < at /\ at < pos
      BY <1>0, <1>5, <2>2
    <3>4. dep <= Arr(at) /\ Arr(at) <= Arr(pos) /\ dep <= Arr(pos)
      BY <1>1, <3>2, <3>3 DEF Ascends
    <3>5. ArrivesOn(t, at, day) = Arr(at) + day /\ ArrivesOn(t, pos, day) = Arr(pos) + day
      BY <1>5, <1>7, <3>3, <3>4
    <3>6. at \in (board + 1)..(pos - 1) /\ ~StopSkipped(ov, t, at)
      BY <1>1, <1>5, <3>2, <3>3
    <3>7. acc.best[s] <= ArrivesOn(t, at, day) \/ upper <= ArrivesOn(t, at, day)
      BY <1>3, <1>5, <3>6
    <3>8. l.time = ArrivesOn(t, pos, day)
      BY DEF t, day
    <3>9. Arr(at) \in Int /\ Arr(pos) \in Int
      BY <1>1, <3>3
    <3>10. Arr(at) + day <= Arr(pos) + day
      <4> HIDE DEF Arr
      <4> QED BY <1>2, <3>4, <3>9
    <3>11. ArrivesOn(t, at, day) \in Int /\ ArrivesOn(t, at, day) <= l.time
      <4> HIDE DEF Arr
      <4> QED BY <1>2, <3>5, <3>8, <3>9, <3>10
    <3>12. l.time \in Int
      <4> HIDE DEF Arr
      <4> QED BY <1>2, <3>5, <3>8, <3>9
    <3> DEFINE first == ArrivesOn(t, at, day)
               gone == l.time
               known == acc.best[s]
    <3>13. first \in Int /\ gone \in Int /\ known \in Int /\ upper \in Int /\ first <= gone /\ gone < known /\ gone < upper
           /\ (known <= first \/ upper <= first)
      BY <3>7, <3>11, <3>12
    <3> HIDE DEF first, gone, known
    <3> QED BY <3>13
  <2> QED BY <2>1, <2>2
<1>9. ASSUME Regular PROVE PlainAt(prev, acc.boardStop)
  <2> DEFINE from == acc.boardStop
  <2>1. prev[from].kind # "none" /\ prev[from].kind \in {"none", "access", "xfer", "ride"}
    <3>1. prev[from].kind = "none" => prev[from].time >= Inf
      BY <1>0 DEF RowIs
    <3>2. prev[from].kind \in {"none", "access", "xfer", "ride"}
      BY <1>0 DEF RowIs
    <3>3. prev[from].time < Inf /\ prev[from].time \in Nat /\ Inf \in Nat
      BY <1>3, <1>4, TimesAssumption
    <3> QED BY <3>1, <3>2, <3>3
  <2>2. CASE prev[from].kind = "xfer"
    <3>1. Ascends(t) /\ WalksClosed
      BY <1>0, <1>9 DEF Regular
    <3>2. dep <= Arr(pos)
      <4>1. board \in 1..Len(stops) /\ pos \in 1..Len(stops) /\ board < pos
        BY <1>0
      <4> QED BY <1>1, <3>1, <4>1 DEF Ascends
    <3>3. l.time = Arr(pos) + day
      <4>1. pos \in (board + 1)..pos /\ l.time = ArrivesOn(t, pos, day)
        BY <1>0 DEF t, day
      <4> QED BY <1>7, <3>2, <4>1
    <3>4. Arr(pos) \in Int
      BY <1>0, <1>1
    <3>5. prev[from].time < upper
      <4>1. dep + day >= ready /\ dep \in Int
        BY <1>1, <1>3
      <4> HIDE DEF Arr, dep, ready
      <4>2. ready <= Arr(pos) + day
        BY <1>2, <1>4, <3>2, <3>4, <4>1
      <4>3. ready < upper
        BY <1>2, <1>4, <3>3, <3>4, <4>2
      <4> QED BY <1>4, <4>3
    <3>6. PlainAt(prev, from) \/ prev[from].time >= upper
      BY <1>0, <2>2, <3>1 DEF PlainBelow
    <3> QED BY <1>4, <3>5, <3>6
  <2>3. CASE prev[from].kind # "xfer"
    BY <2>1, <2>3 DEF PlainAt, Base
  <2> QED BY <2>2, <2>3
<1>10. RideRuns(l, s)
  <2>1. l.trip = t /\ l.board = board /\ l.day = day
    BY DEF t, board, day
  <2> QED BY <1>2, <1>3, <1>8, <2>1 DEF RideRuns, ArrivesOn, at, o
<1>11. Caught(prev, l)
  <2>1. l.trip = t /\ l.board = board /\ l.day = day
    BY DEF t, board, day
  <2> QED BY <1>3, <1>9, <2>1 DEF Caught
<1> QED BY <1>10, <1>11

\* Alighting: what is written is a ride that was caught from the row before.
LEMMA AlightTimed ==
  ASSUME Loaded, QueryIs(q), ArrivalsKnown, DeparturesKnown, NEW prev, RowIs(prev), PlainBelow(prev, upper), upper \in Nat,
         NEW line, line.pat \in Pats, [off |-> line.day, active |-> line.active] \in Days(q),
         NEW pos \in 1..Len(tt.pats[line.pat].stops),
         NEW acc, Written(acc), RowIs(acc.row), HoldsTrip(acc, line.pat, prev, pos - 1),
         HoldsTimed(acc, line, prev, pos - 1), ScansTimed(acc, prev)
  PROVE  LET a == AlightAt(acc, pos, tt.pats[line.pat].stops[pos], line.day)
         IN  HoldsTimed(a, line, prev, pos) /\ ScansTimed(a, prev)
<1> DEFINE p == line.pat
           stops == tt.pats[p].stops
           s == stops[pos]
           t == acc.trip
           day == line.day
           arr == ArrivesOn(t, pos, day)
           l == [time |-> arr, kind |-> "ride", trip |-> t, board |-> acc.board, from |-> acc.boardStop, day |-> day]
           a == [acc EXCEPT !.row[s] = l, !.best[s] = arr, !.marks = Marks(acc.marks, s)]
           Open(i, known) == StopSkipped(ov, t, i) \/ known[stops[i]] <= ArrivesOn(t, i, day) \/ upper <= ArrivesOn(t, i, day)
<1>0. /\ Len(stops) \in Nat /\ s \in Stops /\ \A i \in 1..Len(stops) : stops[i] \in Stops
  BY PatternIs
<1>1. /\ DOMAIN acc.row = Stops /\ DOMAIN acc.best = Stops
      /\ \A x \in Stops : acc.best[x] = acc.row[x].time /\ acc.best[x] \in Nat /\ prev[x].time \in Nat
  BY DEF Written, RowIs
<1>2. day \in Int
  BY TimesAssumption DEF Days
<1>3. CASE t = 0
  BY <1>3 DEF AlightAt, HoldsTimed
<1>4. CASE t # 0
  <2>1. /\ DOMAIN acc = ScanFields /\ t \in 1..Len(tt.trips) /\ Len(tt.trips[t].stops) = Len(stops) /\ acc.board \in 1..(pos - 1)
    <3>1. t \in tt.pats[p].lo..tt.pats[p].hi
      BY <1>4 DEF HoldsTrip
    <3> QED BY <1>4, <3>1, PatternIs DEF HoldsTrip
  <2>2. ASSUME NEW i \in 1..Len(stops) PROVE ArrivesOn(t, i, day) \in Nat
    <3>1. TripArr(tt, ov, t, i) \in Int
      BY <2>1 DEF ArrivalsKnown
    <3> QED BY <1>2, <3>1, TimesAssumption DEF ArrivesOn, AddDay
  <2>3. \A i \in (acc.board + 1)..(pos - 1) : Open(i, acc.best) /\ i \in 1..Len(stops)
    BY <1>0, <1>4, <2>1 DEF HoldsTimed
  <2> HIDE DEF s, l, p, t, stops, day
  <2>4. CASE StopSkipped(ov, t, pos) \/ ~(arr < acc.best[s] /\ arr < upper)
    <3>1. AlightAt(acc, pos, s, day) = acc
      BY <2>4 DEF AlightAt, DropAt, ArrivesOn, t
    <3>2. Open(pos, acc.best)
      <4>1. arr \in Nat /\ acc.best[s] \in Nat
        BY <1>0, <1>1, <2>2 DEF stops, p
      <4> QED BY <2>4, <4>1 DEF s
    <3>3. \A i \in (acc.board + 1)..pos : Open(i, acc.best)
      BY <2>1, <2>3, <3>2
    <3>4. HoldsTimed(acc, line, prev, pos)
      BY <3>3 DEF HoldsTimed, t, stops, p, day
    <3> QED BY <3>1, <3>4 DEF s, stops, p, day
  <2>5. CASE ~(StopSkipped(ov, t, pos) \/ ~(arr < acc.best[s] /\ arr < upper))
    <3>1. AlightAt(acc, pos, s, day) = a
      BY <1>4, <2>5 DEF AlightAt, DropAt, ArrivesOn, t, l
    <3>2. /\ DOMAIN a = DOMAIN acc /\ a.row = [acc.row EXCEPT ![s] = l] /\ a.best = [acc.best EXCEPT ![s] = arr]
          /\ a.marks = Marks(acc.marks, s) /\ a.trip = t /\ a.board = acc.board /\ a.boardStop = acc.boardStop
      BY <2>1 DEF ScanFields, t
    <3>3. /\ l.time = arr /\ l.kind = "ride" /\ l.from = acc.boardStop
          /\ l.trip = t /\ l.board = acc.board /\ l.day = day
      BY DEF l
    <3> HIDE DEF a
    <3>4. /\ a.row[s] = l /\ a.best[s] = arr
          /\ \A x \in Stops : x # s => a.row[x] = acc.row[x] /\ a.best[x] = acc.best[x]
      BY <1>0, <1>1, <3>2
    <3>5. RideRuns(l, s) /\ Caught(prev, l)
      BY <1>0, <1>1, <1>4, <2>5, <3>3, RideIs DEF s, stops, p, t, day
    <3>6. arr \in Nat /\ acc.best[s] \in Nat /\ arr < acc.best[s]
      BY <1>0, <1>1, <2>2, <2>5 DEF stops, p
    <3>7. HoldsTimed(a, line, prev, pos)
      <4>1. ASSUME NEW i \in (acc.board + 1)..pos PROVE Open(i, a.best)
        <5>1. CASE i = pos
          BY <3>4, <3>6, <5>1 DEF s
        <5>2. CASE i # pos
          <6>1. Open(i, acc.best) /\ i \in 1..Len(stops)
            BY <2>1, <2>3, <5>2
          <6>2. stops[i] \in Stops /\ ArrivesOn(t, i, day) \in Nat /\ acc.best[stops[i]] \in Nat
            BY <1>0, <1>1, <2>2, <6>1 DEF stops, p
          <6>3. a.best[stops[i]] <= acc.best[stops[i]] /\ a.best[stops[i]] \in Nat
            BY <3>4, <3>6, <6>2
          <6> QED BY <6>1, <6>2, <6>3
        <5> QED BY <5>1, <5>2
      <4> QED BY <3>2, <4>1, <1>4 DEF HoldsTimed, t, stops, p, day
    <3>8. ScanTimed(a.row, prev)
      <4>1. acc.row[s].time <= prev[s].time
        BY <1>0, <1>1 DEF ScansTimed, ScanTimed, Bettered
      <4>2. Bettered(a.row, prev, s)
        BY <1>0, <1>1, <3>3, <3>4, <3>6, <4>1 DEF Bettered
      <4>3. ASSUME NEW x \in Stops, x # s
            PROVE  \/ a.row[x] = prev[x]
                   \/ a.row[x].kind = "ride" /\ Bettered(a.row, prev, x) /\ RideRuns(a.row[x], x) /\ Caught(prev, a.row[x])
        BY <3>4, <4>3 DEF ScansTimed, ScanTimed, Bettered
      <4> QED BY <3>3, <3>4, <3>5, <4>2, <4>3 DEF ScanTimed
    <3>9. ASSUME NEW x \in ToSet(a.marks.list) PROVE Bettered(a.row, prev, x)
      <4>1. x \in ToSet(acc.marks.list) \cup {s}
        <5>1. IsSeq(acc.marks.list) /\ ToSet(acc.marks.list) \subseteq Stops
          BY DEF Written
        <5> QED BY <3>2, <3>9, <5>1, AppendIs DEF Marks
      <4>2. Bettered(a.row, prev, s)
        <5>1. acc.row[s].time <= prev[s].time
          BY <1>0, <1>1 DEF ScansTimed, ScanTimed, Bettered
        <5> QED BY <1>0, <1>1, <3>3, <3>4, <3>6, <5>1 DEF Bettered
      <4>3. ASSUME x # s PROVE Bettered(a.row, prev, x)
        <5>1. x \in ToSet(acc.marks.list) /\ x \in Stops
          BY <4>1, <4>3 DEF Written
        <5> QED BY <3>4, <4>3, <5>1 DEF ScansTimed, Bettered
      <4> QED BY <4>2, <4>3
    <3> QED BY <3>1, <3>7, <3>8, <3>9 DEF ScansTimed, s, stops, p, day
  <2> QED BY <2>4, <2>5
<1> QED BY <1>3, <1>4

TimedGood(h, n, acc) ==
  /\ ScanGood(h, n, acc) /\ ScansTimed(acc, h.prev) /\ HoldsTimed(acc, h.line, h.prev, h.start + n - 1)
TimedScan == INSTANCE FoldLaws WITH Step <- ScanStep, Good <- TimedGood

\* Rows of a round have labels, whatever the round.
LEMMA RowsAre ==
  ASSUME NEW row, (SourceRow(row) \/ \E prev, first : RideRow(row, prev, first))
  PROVE  RowIs(row)
<1>1. CASE SourceRow(row)
  BY <1>1 DEF SourceRow, SourceLabel, RowIs
<1>2. ASSUME NEW prev, NEW first, RideRow(row, prev, first) PROVE RowIs(row)
  BY <1>2 DEF RideRow, RideLabel, RowIs
<1> QED BY <1>1, <1>2

\* A pattern scanned writes rides that were caught from the row before.
LEMMA ScanTimes ==
  ASSUME Loaded, QueryIs(q), ArrivalsKnown, DeparturesKnown, NEW prev, NEW first, Numbered(first), RowIs(prev),
         PlainBelow(prev, upper), upper \in Nat, lab[round - 1] = prev,
         NEW line, line.pat \in Pats, [off |-> line.day, active |-> line.active] \in Days(q),
         NEW start \in 1..Len(tt.pats[line.pat].stops), NEW acc, Rounded(acc, prev, first), ScansTimed(acc, prev)
  PROVE  LET new == ScanPattern(acc, line, start)
         IN  Rounded(new, prev, first) /\ ScansTimed(new, prev)
<1> DEFINE n == Len(tt.pats[line.pat].stops) - start + 1
           seq == [i \in 1..n |-> start + i - 1]
           base == [row |-> acc.row, best |-> acc.best, marks |-> acc.marks,
                    trip |-> 0, board |-> 0, boardStop |-> 0]
           h == [prev |-> prev, first |-> first, pat |-> line.pat, line |-> line, start |-> start]
<1>0. n \in Nat /\ DOMAIN seq = 1..n /\ start \in Nat /\ Len(tt.pats[line.pat].stops) \in Nat
  <2>1. Len(tt.pats[line.pat].stops) \in Nat
    BY PatternIs
  <2> QED BY <2>1
<1>h. h.prev = prev /\ h.first = first /\ h.pat = line.pat /\ h.line = line /\ h.start = start
  OBVIOUS
<1> HIDE DEF h
<1>n. Unreached(prev) /\ \A x \in Stops : prev[x].time \in Nat
  BY DEF RowIs, Unreached
<1>d. line.day \in Int
  BY TimesAssumption DEF Days
<1>1. TimedGood(h, 0, base)
  <2>1. /\ DOMAIN base = ScanFields /\ base.trip = 0
        /\ base.row = acc.row /\ base.best = acc.best /\ base.marks = acc.marks
    BY DEF ScanFields
  <2> HIDE DEF base
  <2>2. Rounded(base, prev, first)
    BY <2>1 DEF Rounded, Written, ScanFields
  <2>3. ScanGood(h, 0, base)
    BY <1>h, <2>1, <2>2 DEF ScanGood, HoldsTrip
  <2>4. ScansTimed(base, prev) /\ HoldsTimed(base, line, prev, start + 0 - 1)
    BY <2>1 DEF ScansTimed, HoldsTimed
  <2> QED BY <1>h, <2>3, <2>4 DEF TimedGood
<1>2. ASSUME NEW k \in 1..n, NEW a, TimedGood(h, k - 1, a) PROVE TimedGood(h, k, ScanStep(line, a, seq[k]))
  <2> DEFINE pos == seq[k]
             s == tt.pats[line.pat].stops[pos]
             b == AlightAt(a, pos, s, line.day)
             c == BoardAt(b, line.pat, pos, s, line.active, line.day)
  <2>1. pos \in 1..Len(tt.pats[line.pat].stops) /\ pos = start + k - 1 /\ pos - 1 = start + (k - 1) - 1
    BY <1>0
  <2> HIDE DEF pos
  <2>2. Rounded(a, prev, first) /\ HoldsTrip(a, line.pat, prev, pos - 1) /\ ScansTimed(a, prev) /\ HoldsTimed(a, line, prev, pos - 1)
    BY <1>h, <1>2, <2>1 DEF TimedGood, ScanGood
  <2>3. Rounded(b, prev, first) /\ HoldsTrip(b, line.pat, prev, pos - 1)
    BY <1>d, <2>1, <2>2, AlightRides
  <2>4. HoldsTimed(b, line, prev, pos) /\ ScansTimed(b, prev)
    <3>1. Written(a) /\ RowIs(a.row)
      BY <2>2, RowsAre DEF Rounded
    <3> QED BY <2>1, <2>2, <3>1, AlightTimed
  <2> HIDE DEF b
  <2>5. HoldsTrip(c, line.pat, prev, pos) /\ c.row = b.row /\ c.best = b.best /\ c.marks = b.marks
    <3>1. Unreached(prev)
      BY <1>n
    <3>2. pos \in 1..Len(tt.pats[line.pat].stops) /\ HoldsTrip(b, line.pat, prev, pos - 1)
      BY <2>1, <2>3
    <3> HIDE DEF base, seq, n
    <3> QED BY <3>1, <3>2, BoardHolds
  <2>6. HoldsTimed(c, line, prev, pos)
    BY <1>n, <2>1, <2>3, <2>4, BoardTimed
  <2>7. ScanStep(line, a, pos) = c
    BY DEF ScanStep, ServeStop, b
  <2> HIDE DEF c
  <2>8. Rounded(c, prev, first)
    BY <2>3, <2>5 DEF Rounded, Written, HoldsTrip, ScanFields
  <2>9. ScansTimed(c, prev)
    BY <2>4, <2>5 DEF ScansTimed
  <2>10. TimedGood(h, k, c)
    BY <1>h, <2>1, <2>5, <2>6, <2>8, <2>9 DEF TimedGood, ScanGood
  <2> QED BY <2>7, <2>10 DEF pos
<1>3. TimedGood(h, n, TimedScan!Folded(line, base, seq))
  <2> HIDE DEF seq, base, n
  <2> QED BY <1>0, <1>1, <1>2, TimedScan!FoldKeeps, NatsFrom
<1>4. ScanPattern(acc, line, start) = TimedScan!Folded(line, base, seq)
  BY DEF ScanPattern, ScanStep, TimedScan!Folded,
         FoldLeft, MapThenFoldSet, Max, TimedScan!Largest
<1> QED BY <1>h, <1>3, <1>4 DEF TimedGood, ScanGood

-----------------------------------------------------------------------------
(* The times of a query's labels                                           *)

\* Completed rounds, and the arrivals that they had.
RowsTimed(l, n, ub) == \A k \in 1..n : RowTimed(l, k, ub)
ArrivesBy(l, a, n) ==
  \A k \in 0..n : \A s \in DOMAIN q.targets : l[k][s].time < Inf => a[k] <= l[k][s].time + q.targets[s]

Noted(row, list) == [row |-> row, marks |-> [list |-> list]]

\* At stage and round n of Plan, with the rows l, the arrivals a, the best of them up and
\* the stops of list marked.
TimesAre(l, up, a, stage, n, list) ==
  LET done == IF stage \in {"round", "scan"} THEN n - 1 ELSE n
  IN  /\ up \in Nat /\ up <= Inf
      /\ IF stage = "sourceWalks" THEN OnTime(l[0]) /\ Seeded(l[0])
         ELSE FirstTimed(l[0]) /\ RowsTimed(l, done, up) /\ ArrivesBy(l, a, done)
      /\ stage = "scan" => ScansTimed(Noted(l[n], list), l[n - 1])

\* What the labels of a query say of when its riders came, while the overlay stays as it was.
Timed == pc # "idle" /\ ~swapped => TimesAre(lab, upper, arrAt, pc, round, markList)
TimesNext == TimesAre(lab', upper', arrAt', pc', round', markList')

\* A row keeps its times when later rows are written, and when the time to beat falls.
LEMMA RowTimedSame ==
  ASSUME NEW l, NEW m, NEW k \in Nat \ {0}, \A j \in 0..k : m[j] = l[j], NEW ub \in Int, NEW less \in Int, less <= ub,
         RowTimed(l, k, ub)
  PROVE  RowTimed(m, k, less)
<1>1. m[k] = l[k] /\ m[k - 1] = l[k - 1] /\ m[0] = l[0] /\ \A j \in 0..(k - 1) : m[j] = l[j]
  OBVIOUS
<1>2. RowIs(m[k]) /\ OnTime(m[k]) /\ WalkTimed(l[k], l[k - 1], ub, "ride")
  BY <1>1 DEF RowTimed
<1>3. WalkTimed(m[k], m[k - 1], less, "ride")
  <2> SUFFICES ASSUME WalksClosed, NEW s \in Stops, m[k][s].kind = "xfer"
               PROVE  IF Bettered(m[k], m[k - 1], s)
                      THEN LET from == m[k][s].from
                           IN  /\ m[k][from].kind = "ride" /\ Bettered(m[k], m[k - 1], from)
                               /\ m[k][s].time = m[k][from].time + net.foot[from][s]
                      ELSE PlainAt(m[k], s) \/ m[k][s].time >= less
    BY DEF WalkTimed
  <2>1. m[k][s].time \in Nat
    BY <1>2 DEF RowIs
  <2>2. CASE Bettered(m[k], m[k - 1], s)
    BY <1>1, <1>2, <2>2 DEF WalkTimed
  <2>3. CASE ~Bettered(m[k], m[k - 1], s)
    <3>1. PlainAt(m[k], s) \/ m[k][s].time >= ub
      BY <1>1, <1>2, <2>3 DEF WalkTimed
    <3> QED BY <2>1, <2>3, <3>1
  <2> QED BY <2>2, <2>3
<1>4. ASSUME NEW s \in Stops
      PROVE  /\ \A j \in 0..(k - 1) : m[k][s].time <= m[j][s].time
             /\ m[k][s].time = m[0][s].time => m[k][s] = m[0][s]
             /\ RideTimed(m, k, s)
  <2>1. /\ \A j \in 0..(k - 1) : l[k][s].time <= l[j][s].time
        /\ l[k][s].time = l[0][s].time => l[k][s] = l[0][s]
        /\ RideTimed(l, k, s)
    BY DEF RowTimed
  <2>2. RideTimed(m, k, s)
    BY <1>1, <2>1 DEF RideTimed
  <2> QED BY <1>1, <2>1, <2>2
<1> QED BY <1>2, <1>3, <1>4 DEF RowTimed

\* The same for all rows of completed rounds.
LEMMA RowsTimedSame ==
  ASSUME NEW l, NEW m, NEW n \in Nat, \A j \in 0..n : m[j] = l[j], NEW ub \in Int, NEW less \in Int, less <= ub,
         RowsTimed(l, n, ub)
  PROVE  RowsTimed(m, n, less)
<1> SUFFICES ASSUME NEW k \in 1..n PROVE RowTimed(m, k, less)
  BY DEF RowsTimed
<1>1. RowTimed(l, k, ub) /\ k \in Nat \ {0} /\ \A j \in 0..k : m[j] = l[j]
  BY DEF RowsTimed
<1> QED BY <1>1, RowTimedSame

\* The rows of completed rounds have labels.
LEMMA LabelRows ==
  ASSUME NEW n \in Nat, RoundsAre(lab, n), NEW k \in 0..n
  PROVE  RowIs(lab[k])
<1>1. CASE k = 0
  BY <1>1, RowsAre DEF RoundsAre
<1>2. CASE k # 0
  <2>1. RideRow(lab[k], lab[k - 1], lab[0])
    BY <1>2 DEF RoundsAre
  <2> QED BY <2>1, RowsAre
<1> QED BY <1>1, <1>2

\* The time to beat falls.
LEMMA UpperFalls ==
  ASSUME NEW k, NEW row, Loaded, QueryIs(q), upper \in Nat, \A s \in Stops : row[s].time \in Nat, EvalTargets(k, row)
  PROVE  upper' \in Nat /\ upper' <= upper
<1> DEFINE targets == BestTargets(row)
<1>1. PICK t \in (IF targets = {} THEN {0} ELSE targets) :
        upper' = Less(upper, IF t = 0 THEN Inf ELSE ArrivalAt(row, t))
  BY DEF EvalTargets
<1>2. targets \subseteq DOMAIN q.targets /\ \A s \in DOMAIN q.targets : ArrivalAt(row, s) \in Nat
  BY TimesAssumption DEF BestTargets, ArrivalAt, QueryIs
<1> DEFINE arr == IF t = 0 THEN Inf ELSE ArrivalAt(row, t)
<1>3. arr \in Nat
  <2>1. t = 0 \/ t \in targets
    OBVIOUS
  <2> HIDE DEF targets
  <2> QED BY <1>2, <2>1, TimesAssumption
<1> HIDE DEF arr
<1>4. upper' = Less(upper, arr)
  BY <1>1 DEF arr
<1> QED BY <1>3, <1>4 DEF Less

\* What a step reads of the times: the sources' row, and what walks in it wait for.
LEMMA FirstIs ==
  ASSUME FirstTimed(lab[0]), NEW ub \in Nat, ub <= Inf
  PROVE  PlainBelow(lab[0], ub)
<1> SUFFICES ASSUME WalksClosed, NEW s \in Stops, lab[0][s].kind = "xfer" PROVE PlainAt(lab[0], s) \/ lab[0][s].time >= ub
  BY DEF PlainBelow
<1>1. lab[0][s].time \in Nat /\ (PlainAt(lab[0], s) \/ lab[0][s].time >= Inf)
  BY DEF FirstTimed, PlainBelow, RowIs
<1> QED BY <1>1, TimesAssumption

\* What a round begins with.
LEMMA RoundStarts ==
  ASSUME Loaded, Labelled, pc = "scan", TimesAre(lab, upper, arrAt, pc, round, markList)
  PROVE  /\ round \in 1..q.maxRides /\ q.maxRides \in Nat /\ QueryIs(q) /\ upper \in Nat /\ upper <= Inf
         /\ FirstTimed(lab[0]) /\ RowsTimed(lab, round - 1, upper) /\ ArrivesBy(lab, arrAt, round - 1)
         /\ ScansTimed(Round(round), lab[round - 1])
         /\ RowIs(lab[round - 1]) /\ OnTime(lab[round - 1]) /\ PlainBelow(lab[round - 1], upper)
         /\ \A k \in 0..round : RowIs(lab[k])
         /\ Sized(lab, arrAt, targetAt)
<1>1. round \in 1..q.maxRides /\ q.maxRides \in Nat /\ QueryIs(q) /\ RoundsAre(lab, round) /\ Sized(lab, arrAt, targetAt)
  BY DEF Labelled, Stage, Completed, QueryIs
<1>2. /\ upper \in Nat /\ upper <= Inf
      /\ FirstTimed(lab[0]) /\ RowsTimed(lab, round - 1, upper) /\ ArrivesBy(lab, arrAt, round - 1)
      /\ ScansTimed(Noted(lab[round], markList), lab[round - 1])
  BY DEF TimesAre
<1>3. ScansTimed(Round(round), lab[round - 1])
  BY <1>2 DEF ScansTimed, Noted, Round
<1>4. \A k \in 0..round : RowIs(lab[k])
  BY <1>1, LabelRows
<1>5. OnTime(lab[round - 1]) /\ PlainBelow(lab[round - 1], upper)
  <2>1. CASE round = 1
    BY <1>2, <2>1, FirstIs DEF FirstTimed
  <2>2. CASE round # 1
    <3>1. round - 1 \in 1..(round - 1) /\ round - 1 \in Nat
      BY <1>1, <2>2
    <3>2. RowTimed(lab, round - 1, upper)
      BY <1>2, <3>1 DEF RowsTimed
    <3>3. OnTime(lab[round - 1]) /\ WalkTimed(lab[round - 1], lab[round - 1 - 1], upper, "ride")
      BY <3>2 DEF RowTimed
    <3> QED BY <3>3, RowPlain
  <2> QED BY <2>1, <2>2
<1>6. RowIs(lab[round - 1])
  BY <1>1, <1>4
<1> QED BY <1>1, <1>2, <1>3, <1>4, <1>5, <1>6

\* The walks from the sources, and the first arrivals.
LEMMA SourceWalksTimed ==
  ASSUME Loaded, Labelled, SourceWalks, TimesAre(lab, upper, arrAt, pc, round, markList)
  PROVE  TimesNext
<1> DEFINE acc == Walk(Round(0), markList, Inf, WalksFirst)
<1>1. /\ pc = "sourceWalks" /\ QueryIs(q) /\ Sized(lab, arrAt, targetAt) /\ q.maxRides \in Nat \ {0}
      /\ SourceRow(lab[0]) /\ Written(Round(0))
  BY DEF SourceWalks, Labelled, Stage, Completed, RoundsAre, QueryIs
<1>2. Round(0).row = lab[0] /\ Round(0).marks.list = markList
  BY DEF Round
<1>3. IsSeq(markList) /\ ToSet(markList) \subseteq Stops /\ RowIs(lab[0])
  BY <1>1, <1>2, RowsAre DEF Written
<1>4. OnTime(lab[0]) /\ Seeded(lab[0]) /\ upper \in Nat /\ upper <= Inf
  BY <1>1 DEF TimesAre
<1>5. FirstTimed(acc.row)
  BY <1>1, <1>2, <1>3, <1>4, SourcesTimed
<1>6. Write(0, acc) /\ EvalTargets(0, acc.row) /\ pc' = "round" /\ round' = 1
  BY DEF SourceWalks
<1> HIDE DEF acc
<1>7. lab'[0] = acc.row
  BY <1>1, <1>6, Writes
<1>8. \A s \in Stops : acc.row[s].time \in Nat
  BY <1>5 DEF FirstTimed, RowIs
<1>9. \A s \in DOMAIN q.targets : acc.row[s].time < Inf => arrAt'[0] <= acc.row[s].time + q.targets[s]
  BY <1>1, <1>6, <1>8, Evaluates
<1>10. upper' \in Nat /\ upper' <= Inf
  BY <1>1, <1>4, <1>6, <1>8, UpperFalls, TimesAssumption
<1>11. RowsTimed(lab', 0, upper') /\ ArrivesBy(lab', arrAt', 0)
  BY <1>7, <1>9 DEF RowsTimed, ArrivesBy
<1> QED BY <1>5, <1>6, <1>7, <1>10, <1>11 DEF TimesNext, TimesAre

\* A round begins with the labels of the round before.
LEMMA BeginRoundTimed ==
  ASSUME Loaded, Labelled, BeginRound, TimesAre(lab, upper, arrAt, pc, round, markList)
  PROVE  TimesNext
<1>1. pc = "round" /\ round \in 1..q.maxRides /\ Sized(lab, arrAt, targetAt) /\ q.maxRides \in Nat
  BY DEF BeginRound, Labelled, Stage, QueryIs
<1>2. /\ upper \in Nat /\ upper <= Inf
      /\ FirstTimed(lab[0]) /\ RowsTimed(lab, round - 1, upper) /\ ArrivesBy(lab, arrAt, round - 1)
  BY <1>1 DEF TimesAre
<1>3. /\ lab' = [lab EXCEPT ![round] = lab[round - 1]] /\ markList' = <<>> /\ pc' = "scan"
      /\ round' = round /\ arrAt' = arrAt /\ upper' = upper
  BY DEF BeginRound, answers
<1>4. lab'[round] = lab[round - 1] /\ \A j \in 0..(round - 1) : lab'[j] = lab[j]
  BY <1>1, <1>3 DEF Sized
<1>5. lab'[0] = lab[0] /\ lab'[round - 1] = lab[round - 1]
  BY <1>1, <1>4
<1>6. RowsTimed(lab', round - 1, upper)
  BY <1>1, <1>2, <1>4, RowsTimedSame
<1>7. ArrivesBy(lab', arrAt, round - 1)
  BY <1>2, <1>4 DEF ArrivesBy
<1>8. ScansTimed(Noted(lab'[round], <<>>), lab'[round - 1])
  <2>1. ToSet(<<>>) = {}
    BY NoneIs
  <2> QED BY <1>4, <1>5, <2>1 DEF ScansTimed, ScanTimed, Noted
<1> QED BY <1>2, <1>3, <1>5, <1>6, <1>7, <1>8 DEF TimesNext, TimesAre

\* A pattern is scanned, on both service days.
LEMMA ScanKeepsTime ==
  ASSUME Loaded, ArrivalsKnown, DeparturesKnown, Labelled, Scan, TimesAre(lab, upper, arrAt, pc, round, markList)
  PROVE  TimesNext
<1> DEFINE p == Head(patList)
           Line(active, day) == [pat |-> p, active |-> active, day |-> day]
           one == ScanPattern(Round(round), Line(q.yesterday, -DaySec), patMin[p])
           two == ScanPattern(one, Line(q.today, 0), patMin[p])
<1>1. pc = "scan" /\ patList # <<>> /\ QueueIs(patMin, patList)
  BY DEF Scan, Labelled
<1>2. /\ Write(round, two) /\ pc' = pc /\ round' = round /\ arrAt' = arrAt /\ upper' = upper
  BY DEF Scan, answers
<1>3. p \in Pats /\ patMin[p] \in 1..Len(tt.pats[p].stops)
  BY <1>1, Dequeue
<1> HIDE DEF p
<1>4. /\ round \in 1..q.maxRides /\ q.maxRides \in Nat /\ QueryIs(q) /\ upper \in Nat /\ upper <= Inf
      /\ FirstTimed(lab[0]) /\ RowsTimed(lab, round - 1, upper) /\ ArrivesBy(lab, arrAt, round - 1)
      /\ ScansTimed(Round(round), lab[round - 1]) /\ RowIs(lab[round - 1]) /\ PlainBelow(lab[round - 1], upper)
      /\ Sized(lab, arrAt, targetAt)
  BY <1>1, RoundStarts
<1>5. Rounded(Round(round), lab[round - 1], lab[0]) /\ Numbered(lab[0])
  BY <1>1, RoundSoFar
<1>6. Rounded(one, lab[round - 1], lab[0]) /\ ScansTimed(one, lab[round - 1])
  <2> DEFINE line == Line(q.yesterday, -DaySec)
  <2>1. line.pat = p /\ [off |-> line.day, active |-> line.active] \in Days(q)
    BY DEF Days
  <2> HIDE DEF line
  <2>2. LET new == ScanPattern(Round(round), line, patMin[p])
        IN  Rounded(new, lab[round - 1], lab[0]) /\ ScansTimed(new, lab[round - 1])
    BY <1>3, <1>4, <1>5, <2>1, ScanTimes
  <2> QED BY <2>2 DEF line
<1> HIDE DEF one
<1>7. ScansTimed(two, lab[round - 1])
  <2> DEFINE line == Line(q.today, 0)
  <2>1. line.pat = p /\ [off |-> line.day, active |-> line.active] \in Days(q)
    BY DEF Days
  <2> HIDE DEF line
  <2>2. LET new == ScanPattern(one, line, patMin[p])
        IN  ScansTimed(new, lab[round - 1])
    BY <1>3, <1>4, <1>5, <1>6, <2>1, ScanTimes
  <2> QED BY <2>2 DEF line
<1> HIDE DEF two
<1>8. /\ \A j \in 0..(round - 1) : lab'[j] = lab[j]
      /\ lab'[round] = two.row /\ markList' = two.marks.list
  BY <1>2, <1>4, Writes
<1>9. lab'[0] = lab[0] /\ lab'[round - 1] = lab[round - 1]
  BY <1>4, <1>8
<1>10. RowsTimed(lab', round - 1, upper)
  BY <1>4, <1>8, RowsTimedSame
<1>11. ArrivesBy(lab', arrAt, round - 1)
  BY <1>4, <1>8 DEF ArrivesBy
<1>12. ScansTimed(Noted(lab'[round], markList'), lab'[round - 1])
  BY <1>7, <1>8, <1>9 DEF ScansTimed, Noted
<1> QED BY <1>1, <1>2, <1>4, <1>9, <1>10, <1>11, <1>12 DEF TimesNext, TimesAre

\* The walks after a round's rides, and the round's arrival.
LEMMA WalkOnTimed ==
  ASSUME Loaded, Labelled, WalkOn, TimesAre(lab, upper, arrAt, pc, round, markList)
  PROVE  TimesNext
<1> DEFINE acc == Walk(Round(round), markList, upper, Rode)
<1>1. pc = "scan"
  BY DEF WalkOn
<1>2. /\ Write(round, acc) /\ EvalTargets(round, acc.row)
      /\ \/ pc' = "extract" /\ round' = round
         \/ pc' = "round" /\ round' = round + 1
  BY DEF WalkOn
<1>3. /\ round \in 1..q.maxRides /\ q.maxRides \in Nat /\ QueryIs(q) /\ upper \in Nat /\ upper <= Inf
      /\ FirstTimed(lab[0]) /\ RowsTimed(lab, round - 1, upper) /\ ArrivesBy(lab, arrAt, round - 1)
      /\ ScansTimed(Round(round), lab[round - 1]) /\ RowIs(lab[round - 1]) /\ OnTime(lab[round - 1])
      /\ PlainBelow(lab[round - 1], upper) /\ Sized(lab, arrAt, targetAt)
      /\ \A j \in 0..round : RowIs(lab[j])
  BY <1>1, RoundStarts
<1>4. Rounded(Round(round), lab[round - 1], lab[0]) /\ IsSeq(markList) /\ ToSet(markList) \subseteq Stops
  BY <1>1, RoundSoFar
<1>5. Written(Round(round)) /\ RowIs(Round(round).row) /\ Round(round).marks.list = markList
  BY <1>4, RowsAre DEF Rounded, Round
<1>6. \A s \in Stops : lab[0][s].kind # "ride"
  BY <1>1 DEF Labelled, RoundsAre, SourceRow, SourceLabel
<1>7. \A j \in 0..(round - 1) : lab'[j] = lab[j]
  <2> HIDE DEF acc
  <2> QED BY <1>2, <1>3, Writes
<1>8. lab'[round] = acc.row
  <2> HIDE DEF acc
  <2> QED BY <1>2, <1>3, Writes
<1>9. RowTimed(lab', round, upper)
  <2>1. round # 1 => RowTimed(lab, round - 1, upper)
    BY <1>3 DEF RowsTimed
  <2>2. ScanTimed(Round(round).row, lab[round - 1])
    BY <1>3 DEF ScansTimed
  <2>3. \A s \in ToSet(markList) : Bettered(Round(round).row, lab[round - 1], s)
    BY <1>3, <1>5 DEF ScansTimed
  <2>4. round \in Nat \ {0} /\ \A j \in 0..(round - 1) : RowIs(lab[j])
    BY <1>3
  <2> QED BY <1>3, <1>4, <1>5, <1>6, <1>7, <1>8, <2>1, <2>2, <2>3, <2>4, RoundTimed
<1> HIDE DEF acc
<1>10. RowIs(acc.row) /\ \A s \in Stops : acc.row[s].time \in Nat
  BY <1>8, <1>9 DEF RowTimed, RowIs
<1>11. /\ arrAt' = [arrAt EXCEPT ![round] = arrAt'[round]]
       /\ \A s \in DOMAIN q.targets : acc.row[s].time < Inf => arrAt'[round] <= acc.row[s].time + q.targets[s]
  BY <1>2, <1>3, <1>10, Evaluates
<1>12. upper' \in Nat /\ upper' <= upper /\ upper' <= Inf
  <2>1. upper' \in Nat /\ upper' <= upper
    BY <1>2, <1>3, <1>10, UpperFalls
  <2> QED BY <1>3, <2>1, TimesAssumption
<1>13. RowsTimed(lab', round, upper')
  <2> SUFFICES ASSUME NEW k \in 1..round PROVE RowTimed(lab', k, upper')
    BY DEF RowsTimed
  <2>1. CASE k = round
    <3> DEFINE l == lab'
    <3>1. RowTimed(l, k, upper) /\ k \in Nat \ {0}
      BY <1>3, <1>9, <2>1
    <3>2. upper \in Int /\ upper' \in Int /\ upper' <= upper
      BY <1>3, <1>12
    <3> HIDE DEF l
    <3>3. \A j \in 0..k : l[j] = l[j]
      OBVIOUS
    <3>4. RowTimed(l, k, upper')
      BY <3>1, <3>2, <3>3, RowTimedSame
    <3> QED BY <3>4 DEF l
  <2>2. CASE k # round
    <3>1. RowTimed(lab, k, upper) /\ k \in Nat \ {0} /\ \A j \in 0..k : lab'[j] = lab[j]
      BY <1>3, <1>7, <2>2 DEF RowsTimed
    <3> QED BY <1>3, <1>12, <3>1, RowTimedSame
  <2> QED BY <2>1, <2>2
<1>14. ArrivesBy(lab', arrAt', round)
  <2> SUFFICES ASSUME NEW k \in 0..round, NEW s \in DOMAIN q.targets, lab'[k][s].time < Inf
               PROVE  arrAt'[k] <= lab'[k][s].time + q.targets[s]
    BY DEF ArrivesBy
  <2>1. CASE k = round
    BY <1>8, <1>11, <2>1
  <2>2. CASE k # round
    <3>1. k \in 0..(round - 1) /\ lab'[k] = lab[k] /\ k \in 0..q.maxRides
      BY <1>3, <1>7, <2>2
    <3>2. arrAt'[k] = arrAt[k]
      BY <1>3, <1>11, <2>2, <3>1 DEF Sized
    <3> QED BY <1>3, <3>1, <3>2 DEF ArrivesBy
  <2> QED BY <2>1, <2>2
<1>15. FirstTimed(lab'[0])
  BY <1>3, <1>7
<1>16. CASE pc' = "extract" /\ round' = round
  BY <1>12, <1>13, <1>14, <1>15, <1>16 DEF TimesNext, TimesAre
<1>17. CASE pc' = "round" /\ round' = round + 1
  <2>1. round' - 1 = round
    BY <1>3, <1>17
  <2> HIDE DEF RowsTimed, ArrivesBy
  <2> QED BY <1>12, <1>13, <1>14, <1>15, <1>17, <2>1 DEF TimesNext, TimesAre
<1> QED BY <1>2, <1>16, <1>17

\* The answer leaves the labels as they are.
LEMMA FinishTimed ==
  ASSUME Finish, TimesAre(lab, upper, arrAt, pc, round, markList)
  PROVE  TimesNext
<1>1. pc = "extract" /\ pc' = "answered" /\ lab' = lab /\ upper' = upper /\ arrAt' = arrAt /\ round' = round
  BY DEF Finish
<1> QED BY <1>1 DEF TimesNext, TimesAre

\* A query begins with what its sources say.
LEMMA SeedTimed ==
  ASSUME NEW x, QueryIs(x), Seed(x)
  PROVE  TimesAre(lab, upper, arrAt, pc, round, markList)'
<1> DEFINE seeded == [s \in Stops |-> IF s \in DOMAIN x.sources
                                      THEN [NoLabel EXCEPT !.time = x.sources[s].sec, !.kind = "access"]
                                      ELSE NoLabel]
<1>1. /\ q' = x /\ pc' = "sourceWalks" /\ upper' = Inf /\ net' = net
      /\ lab' = [k \in 0..x.maxRides |-> IF k = 0 THEN seeded
                                         ELSE IF k \in DOMAIN lab THEN lab[k] ELSE [s \in Stops |-> NoLabel]]
  BY Zenon DEF Seed
<1>2. \A s \in Stops : /\ seeded[s].kind \in {"none", "access"}
                       /\ seeded[s].kind = "access" => seeded[s].time = x.sources[s].sec
  BY DEF NoLabel
<1> HIDE DEF seeded
<1>3. lab'[0] = seeded
  BY <1>1 DEF QueryIs
<1>4. (OnTime(lab[0]) /\ Seeded(lab[0]))'
  BY <1>1, <1>2, <1>3 DEF OnTime, Seeded, Stops, StopsOf, tt
<1>5. (upper \in Nat /\ upper <= Inf)'
  BY <1>1, TimesAssumption
<1> QED BY <1>1, <1>4, <1>5 DEF TimesAre

\* What the network and the overlay allow, after a step that leaves them as they are.
LEMMA SameRules ==
  ASSUME net' = net, ov' = ov, q' = q
  PROVE  /\ WalksClosed' = WalksClosed /\ Regular' = Regular /\ LoopsPlain' = LoopsPlain
         /\ Stops' = Stops /\ tt' = tt /\ Days(q)' = Days(q)
<1>1. Stops' = Stops /\ tt' = tt /\ Trips' = Trips
  BY DEF Stops, tt, Trips
<1>2. WalksClosed' = WalksClosed
  BY <1>1 DEF WalksClosed
<1>3. \A t : /\ Ascends(t)' = Ascends(t) /\ VisitsTwice(t)' = VisitsTwice(t)
  BY <1>1 DEF Ascends, VisitsTwice
<1>4. LoopsPlain' = LoopsPlain /\ Regular' = Regular
  BY <1>1, <1>2, <1>3 DEF LoopsPlain, Regular
<1>5. Days(q)' = Days(q)
  BY DEF Days
<1> QED BY <1>1, <1>2, <1>4, <1>5

\* The same for a row, ...
LEMMA SameRow ==
  ASSUME net' = net, ov' = ov, q' = q, NEW k
  PROVE  /\ RowIs(lab'[k]) => RowIs(lab[k])'
         /\ OnTime(lab'[k]) => OnTime(lab[k])'
         /\ Seeded(lab'[k]) => Seeded(lab[k])'
         /\ \A ub : PlainBelow(lab'[k], ub) => PlainBelow(lab[k], ub)'
<1>0. Stops' = Stops /\ tt' = tt /\ WalksClosed' = WalksClosed
  BY SameRules
<1>1. ASSUME RowIs(lab'[k]) PROVE RowIs(lab[k])'
  <2>1. ASSUME NEW s \in Stops, RidesTo(lab'[k][s], s) PROVE RidesTo(lab[k][s], s)'
    BY <1>0, <2>1 DEF RidesTo, Pats
  <2> QED BY <1>0, <1>1, <2>1 DEF RowIs
<1>2. ASSUME OnTime(lab'[k]) PROVE OnTime(lab[k])'
  BY <1>0, <1>2 DEF OnTime
<1>3. ASSUME Seeded(lab'[k]) PROVE Seeded(lab[k])'
  BY <1>0, <1>3 DEF Seeded
<1>4. ASSUME NEW ub, PlainBelow(lab'[k], ub) PROVE PlainBelow(lab[k], ub)'
  BY <1>0, <1>4 DEF PlainBelow, PlainAt, Base
<1> QED BY <1>1, <1>2, <1>3, <1>4

\* ... for a ride, ...
LEMMA SameRide ==
  ASSUME net' = net, ov' = ov, q' = q, NEW k, NEW m, NEW s
  PROVE  /\ RideRuns(lab'[k][s], s) => RideRuns(lab[k][s], s)'
         /\ Caught(lab'[m], lab'[k][s]) => Caught(lab[m], lab[k][s])'
<1>0. Stops' = Stops /\ tt' = tt /\ Regular' = Regular /\ LoopsPlain' = LoopsPlain /\ Days(q)' = Days(q)
  BY SameRules
<1>1. ASSUME RideRuns(lab'[k][s], s) PROVE RideRuns(lab[k][s], s)'
  BY Zenon, <1>0, <1>1 DEF RideRuns, PosInPattern
<1>2. ASSUME NEW x, NEW rail PROVE ReadyAt(lab[m], x, rail)' = ReadyAt(lab'[m], x, rail)
  BY <1>0 DEF ReadyAt, WaitAt, PriorRide, PriorRailSource, Rail
<1>3. ASSUME Caught(lab'[m], lab'[k][s]) PROVE Caught(lab[m], lab[k][s])'
  BY Zenon, <1>0, <1>2, <1>3 DEF Caught, PlainAt, Base
<1> QED BY <1>1, <1>3

\* ... for the rows of a round, ...
LEMMA SameRowTimed ==
  ASSUME net' = net, ov' = ov, q' = q, NEW k, RowTimed(lab', k, upper')
  PROVE  RowTimed(lab, k, upper)'
<1>0. Stops' = Stops /\ WalksClosed' = WalksClosed
  BY SameRules
<1>1. (RowIs(lab[k]) /\ OnTime(lab[k]))'
  BY SameRow DEF RowTimed
<1>2. WalkTimed(lab[k], lab[k - 1], upper, "ride")'
  BY <1>0 DEF RowTimed, WalkTimed, PlainAt, Base, Bettered
<1>3. ASSUME NEW s \in Stops
      PROVE  /\ \A j \in 0..(k - 1) : lab'[k][s].time <= lab'[j][s].time
             /\ lab'[k][s].time = lab'[0][s].time => lab'[k][s] = lab'[0][s]
             /\ RideTimed(lab, k, s)'
  <2>1. /\ \A j \in 0..(k - 1) : lab'[k][s].time <= lab'[j][s].time
        /\ lab'[k][s].time = lab'[0][s].time => lab'[k][s] = lab'[0][s]
        /\ RideTimed(lab', k, s)
    BY DEF RowTimed
  <2>2. ASSUME lab'[k][s].kind = "ride"
        PROVE  (/\ RideRuns(lab[k][s], s)
                /\ \E m \in 0..(k - 1) : Caught(lab[m], lab[k][s])
                /\ Bettered(lab[k], lab[k - 1], s) => Caught(lab[k - 1], lab[k][s]))'
    BY <2>1, <2>2, SameRide DEF RideTimed, Bettered
  <2> QED BY <2>1, <2>2 DEF RideTimed
<1> QED BY <1>0, <1>1, <1>2, <1>3 DEF RowTimed

\* ... and for all that a query has labelled.
LEMMA SameTimes ==
  ASSUME net' = net, ov' = ov, q' = q, TimesNext
  PROVE  TimesAre(lab, upper, arrAt, pc, round, markList)'
<1> DEFINE done == IF pc \in {"round", "scan"} THEN round - 1 ELSE round
<1>0. Stops' = Stops
  BY SameRules
<1>1. (upper \in Nat /\ upper <= Inf)'
  BY DEF TimesNext, TimesAre
<1>2. (IF pc = "sourceWalks" THEN OnTime(lab[0]) /\ Seeded(lab[0])
       ELSE FirstTimed(lab[0]) /\ RowsTimed(lab, done, upper) /\ ArrivesBy(lab, arrAt, done))'
  <2>1. CASE pc' = "sourceWalks"
    BY <2>1, SameRow DEF TimesNext, TimesAre
  <2>2. CASE pc' # "sourceWalks"
    <3>1. FirstTimed(lab'[0]) /\ RowsTimed(lab', done', upper') /\ ArrivesBy(lab', arrAt', done')
      BY <2>2 DEF TimesNext, TimesAre
    <3> HIDE DEF done
    <3>2. FirstTimed(lab[0])'
      BY <3>1, SameRow DEF FirstTimed
    <3>3. RowsTimed(lab, done, upper)'
      BY <3>1, SameRowTimed DEF RowsTimed
    <3>4. ArrivesBy(lab, arrAt, done)'
      BY <3>1 DEF ArrivesBy
    <3> QED BY <2>2, <3>2, <3>3, <3>4
  <2> QED BY <2>1, <2>2
<1>3. (pc = "scan" => ScansTimed(Noted(lab[round], markList), lab[round - 1]))'
  <2> SUFFICES ASSUME pc' = "scan" PROVE ScansTimed(Noted(lab[round], markList), lab[round - 1])'
    OBVIOUS
  <2>1. ScansTimed(Noted(lab'[round'], markList'), lab'[round' - 1])
    BY DEF TimesNext, TimesAre
  <2>2. ScanTimed(lab'[round'], lab'[round' - 1]) /\ \A s \in ToSet(markList') : Bettered(lab'[round'], lab'[round' - 1], s)
    BY <2>1 DEF ScansTimed, Noted
  <2>3. ASSUME NEW s \in Stops
        PROVE (\/ lab[round][s] = lab[round - 1][s]
               \/ /\ lab[round][s].kind = "ride" /\ Bettered(lab[round], lab[round - 1], s)
                  /\ RideRuns(lab[round][s], s) /\ Caught(lab[round - 1], lab[round][s]))'
    <3> DEFINE k == round'
               m == round' - 1
    <3>1. \/ lab'[k][s] = lab'[m][s]
          \/ /\ lab'[k][s].kind = "ride" /\ Bettered(lab'[k], lab'[m], s)
             /\ RideRuns(lab'[k][s], s) /\ Caught(lab'[m], lab'[k][s])
      BY <2>2 DEF ScanTimed
    <3> QED BY <3>1, SameRide DEF Bettered
  <2>4. ScanTimed(lab[round], lab[round - 1])'
    BY <1>0, <2>3 DEF ScanTimed
  <2> QED BY <2>2, <2>4 DEF ScansTimed, Noted, Bettered
<1> QED BY <1>1, <1>2, <1>3 DEF TimesAre

\* A step of RAPTOR keeps the times.
LEMMA RaptorStepTimed ==
  ASSUME Loaded, ArrivalsKnown, DeparturesKnown, Labelled, Timed, RaptorStep
  PROVE  Timed'
<1>1. pc # "idle" /\ net' = net /\ ov' = ov /\ swapped' = swapped /\ q' = q
  BY Zenon DEF RaptorStep, SourceWalks, BeginRound, Scan, WalkOn, Finish
<1> SUFFICES ASSUME ~swapped PROVE TimesAre(lab, upper, arrAt, pc, round, markList)'
  BY <1>1 DEF Timed
<1>2. TimesAre(lab, upper, arrAt, pc, round, markList)
  BY <1>1 DEF Timed
<1>3. TimesNext
  BY <1>2, SourceWalksTimed, BeginRoundTimed, ScanKeepsTime, WalkOnTimed, FinishTimed DEF RaptorStep
<1> QED BY <1>1, <1>3, SameTimes

\* So does a step that leaves RAPTOR, the network and the overlay as they are.
LEMMA IdleTimed ==
  ASSUME Timed, net' = net, ov' = ov, swapped' = swapped \/ pc = "idle", UNCHANGED raptorVars
  PROVE  Timed'
<1>1. UNCHANGED <<q, pc, round, lab, upper, arrAt, markList>>
  BY DEF raptorVars, scratch, answers
<1>2. CASE pc = "idle"
  BY <1>1, <1>2 DEF Timed
<1>3. CASE pc # "idle"
  <2>1. TimesNext \/ swapped
    BY <1>1, <1>3 DEF Timed, TimesNext
  <2>2. TimesNext => TimesAre(lab, upper, arrAt, pc, round, markList)'
    BY <1>1, SameTimes
  <2> QED BY <1>1, <1>3, <2>1, <2>2 DEF Timed
<1> QED BY <1>2, <1>3

-----------------------------------------------------------------------------
(* Journeys are ridden                                                     *)

RiderFields == {"stop", "time", "trip", "train", "arr", "walked"}

\* A label that is still the sources' round's, with what it leads back to.
Original(n, s) ==
  /\ lab[n][s] = lab[0][s]
  /\ lab[n][s].kind = "xfer" => lab[n][lab[n][s].from] = lab[0][lab[n][s].from]

\* A rider who is at s no later than row n says, and just then where the row is new.
Speaks(r, n, s) ==
  /\ DOMAIN r = RiderFields /\ r.stop = s /\ r.time \in Int /\ r.time <= lab[n][s].time
  /\ PlainAt(lab[n], s) => r = RiderAt(lab[n], s)
  /\ r.trip = 0 => Original(n, s)
  /\ WalksClosed /\ n # 0 /\ Bettered(lab[n], lab[n - 1], s) => r.time = lab[n][s].time

\* What the rows of a query that was not disturbed say.
Rows == FirstTimed(lab[0]) /\ RowsTimed(lab, round, upper) /\ RoundsAre(lab, round)
        /\ QueryIs(q) /\ round \in Nat /\ upper \in Nat

\* The label of a row, and the rows before it.
LEMMA RowOf ==
  ASSUME Rows, NEW n \in 0..round
  PROVE  /\ RowIs(lab[n]) /\ OnTime(lab[n]) /\ (n # 0 => RowTimed(lab, n, upper))
         /\ \A m \in 0..n : \A s \in Stops : lab[m][s].time \in Nat /\ lab[n][s].time <= lab[m][s].time
         /\ \A s \in Stops : lab[n][s].time = lab[0][s].time => lab[n][s] = lab[0][s]
         /\ \A s \in Stops : lab[0][s].time \in Nat
<1>1. n # 0 => RowTimed(lab, n, upper)
  BY DEF Rows, RowsTimed
<1>2. RowIs(lab[n]) /\ OnTime(lab[n])
  BY <1>1 DEF Rows, FirstTimed, RowTimed
<1>3. \A m \in 0..n : \A s \in Stops : lab[m][s].time \in Nat
  BY LabelRows DEF Rows, RowIs
<1>4. \A m \in 0..n : \A s \in Stops : lab[n][s].time <= lab[m][s].time
  <2> SUFFICES ASSUME NEW m \in 0..n, NEW s \in Stops PROVE lab[n][s].time <= lab[m][s].time
    OBVIOUS
  <2>1. CASE m = n
    BY <1>3, <2>1
  <2>2. CASE m # n
    <3>1. n # 0 /\ m \in 0..(n - 1)
      BY <2>2 DEF Rows
    <3> QED BY <1>1, <3>1 DEF RowTimed
  <2> QED BY <2>1, <2>2
<1>5. \A s \in Stops : lab[n][s].time = lab[0][s].time => lab[n][s] = lab[0][s]
  BY <1>1 DEF RowTimed
<1>6. 0 \in 0..n
  BY DEF Rows
<1> QED BY <1>1, <1>2, <1>3, <1>4, <1>5, <1>6

\* A label of the sources' round that a later row still has, rows between have too.
LEMMA StillOriginal ==
  ASSUME Rows, NEW n \in 0..round, NEW s \in Stops, lab[n][s] = lab[0][s], NEW m \in 0..n
  PROVE  lab[m][s] = lab[n][s]
<1>1. m \in 0..round /\ m \in Nat /\ 0 \in 0..m
  BY DEF Rows
<1>2. lab[n][s].time <= lab[m][s].time /\ lab[m][s].time \in Nat /\ lab[0][s].time \in Nat
  BY RowOf
<1>3. lab[m][s].time <= lab[0][s].time
  BY <1>1, RowOf
<1>4. lab[m][s].time = lab[0][s].time
  BY <1>2, <1>3
<1> QED BY <1>1, <1>4, RowOf

\* A rider at a source is one that its label speaks of.
LEMMA SourceSpeaks ==
  ASSUME Rows, NEW n \in 0..round, NEW s \in Stops, lab[n][s].kind = "access"
  PROVE  s \in DOMAIN q.sources /\ Speaks(AtSource(q, s), n, s)
<1> DEFINE r == AtSource(q, s)
<1>1. RowIs(lab[n]) /\ OnTime(lab[n])
  BY RowOf
<1>2. s \in DOMAIN q.sources /\ lab[n][s].time = q.sources[s].sec /\ lab[n][s].time \in Nat
  BY <1>1 DEF RowIs, OnTime
<1>3. DOMAIN r = RiderFields /\ r.stop = s /\ r.time = q.sources[s].sec
  BY DEF AtSource, RiderFields
<1>4. RiderAt(lab[n], s) = r
  BY DEF RiderAt, OffAt
<1>5. lab[n][s].time = lab[0][s].time
  <2>1. CASE n = 0
    BY <2>1
  <2>2. CASE n # 0
    <3>1. RideRow(lab[n], lab[n - 1], lab[0])
      BY <2>2 DEF Rows, RoundsAre
    <3> QED BY <3>1 DEF RideRow, RideLabel
  <2> QED BY <2>1, <2>2
<1>6. Original(n, s)
  BY <1>5, RowOf DEF Original
<1> HIDE DEF r
<1> QED BY <1>2, <1>3, <1>4, <1>6 DEF Speaks, r

\* A rider at the start of a label's footpath may walk it, and is where the label says.
LEMMA WalkSpeaks ==
  ASSUME Loaded, Rows, NEW n \in 0..round, NEW s \in Stops, lab[n][s].kind = "xfer",
         NEW r, Speaks(r, n, lab[n][s].from)
  PROVE  LET x == Walked(r, s)
         IN  x \in WalksOf(r) /\ x.stop = s /\ r.stop = lab[n][s].from /\ Speaks(x, n, s)
<1> DEFINE x == Walked(r, s)
           from == lab[n][s].from
           foot == net.foot[from][s]
<1>1. /\ RowIs(lab[n]) /\ OnTime(lab[n]) /\ \A t \in Stops : lab[n][t].time \in Nat /\ lab[0][t].time \in Nat
  BY RowOf DEF Rows, RowIs
<1>2. from \in Stops /\ foot < Inf /\ lab[n][from].time + foot <= lab[n][s].time
  BY <1>1 DEF RowIs, OnTime
<1>3. foot \in Nat
  BY <1>2, FootpathIs
<1>4. r.stop = from /\ r.time \in Int /\ r.time <= lab[n][from].time /\ DOMAIN r = RiderFields
  BY DEF Speaks
<1>5. x \in WalksOf(r)
  BY <1>2, <1>4 DEF WalksOf
<1>6. /\ DOMAIN x = RiderFields /\ x.stop = s /\ x.time = r.time + foot /\ x.trip = r.trip
  BY <1>4 DEF Walked, RiderFields
<1>7. PlainAt(lab[n], s) => x = RiderAt(lab[n], s)
  <2> SUFFICES ASSUME PlainAt(lab[n], s) PROVE x = RiderAt(lab[n], s)
    OBVIOUS
  <2>1. lab[n][from].kind \in {"access", "ride"}
    BY DEF PlainAt, Base
  <2>2. r = OffAt(lab[n], from)
    BY <2>1 DEF Speaks, PlainAt, Base, RiderAt
  <2> QED BY <2>2 DEF RiderAt
<1>8. r.trip = 0 => Original(n, s)
  <2> SUFFICES ASSUME r.trip = 0 PROVE Original(n, s)
    OBVIOUS
  <2>1. lab[n][from] = lab[0][from]
    BY DEF Speaks, Original
  <2>2. lab[n][s].time = lab[0][s].time
    <3>1. CASE n = 0
      BY <3>1
    <3>2. CASE n # 0
      <4>1. RideRow(lab[n], lab[n - 1], lab[0])
        BY <3>2 DEF Rows, RoundsAre
      <4>2. /\ lab[n][s].time <= lab[0][s].time
            /\ lab[n][s].time < lab[0][s].time => lab[n][from].time < lab[0][from].time
        BY <4>1 DEF RideRow, RideLabel
      <4> QED BY <1>1, <1>2, <2>1, <4>2
    <3> QED BY <3>1, <3>2
  <2> QED BY <2>1, <2>2, RowOf DEF Original
<1>9. WalksClosed /\ n # 0 /\ Bettered(lab[n], lab[n - 1], s) => x.time = lab[n][s].time
  <2> SUFFICES ASSUME WalksClosed, n # 0, Bettered(lab[n], lab[n - 1], s) PROVE x.time = lab[n][s].time
    OBVIOUS
  <2>1. WalkTimed(lab[n], lab[n - 1], upper, "ride")
    BY RowOf DEF RowTimed
  <2>2. Bettered(lab[n], lab[n - 1], from) /\ lab[n][s].time = lab[n][from].time + foot
    BY <2>1 DEF WalkTimed
  <2> QED BY <1>6, <2>2 DEF Speaks
<1> HIDE DEF x
<1>10. x.time \in Int /\ x.time <= lab[n][s].time
  BY <1>1, <1>2, <1>3, <1>4, <1>6
<1>11. Speaks(x, n, s)
  BY <1>6, <1>7, <1>8, <1>9, <1>10 DEF Speaks
<1> QED BY <1>4, <1>5, <1>6, <1>11 DEF x

\* The same labels make the same wait.
LEMMA SameWait ==
  ASSUME NEW row, NEW old, NEW s, row[s] = old[s], row[Base(row, s)] = old[Base(row, s)], NEW rail
  PROVE  ReadyAt(row, s, rail) = ReadyAt(old, s, rail) /\ Base(row, s) = Base(old, s)
         /\ (PlainAt(row, s) <=> PlainAt(old, s))
<1>1. Base(row, s) = Base(old, s)
  BY DEF Base
<1>2. PlainAt(row, s) <=> PlainAt(old, s)
  BY <1>1 DEF PlainAt
<1>3. PriorRide(row, s) = PriorRide(old, s) /\ PriorRailSource(row, s) = PriorRailSource(old, s)
  BY DEF PriorRide, PriorRailSource, Base
<1>4. WaitAt(row, s, rail) = WaitAt(old, s, rail)
  BY <1>3 DEF WaitAt
<1> QED BY <1>1, <1>2, <1>4 DEF ReadyAt

\* A day of the query is one by its offset.
LEMMA DayIs ==
  ASSUME NEW day \in Days(q), NEW leg, leg.day = day.off
  PROVE  DayOf(leg) = day
<1>1. \A x, y \in Days(q) : x.off = y.off => x = y
  BY TimesAssumption DEF Days
<1>2. \A x \in Days(q) : x.off = leg.day => x = day
  BY <1>1
<1> QED BY <1>2 DEF DayOf

\* A rider where a label's ride begins is ready for it, with the allowances when the
\* ride is new in its row or the rider's first.
LEMMA RideReady ==
  ASSUME Loaded, ArrivalsKnown, DeparturesKnown, Rows, NEW n \in 1..round, NEW s \in Stops, lab[n][s].kind = "ride",
         NEW r, Speaks(r, n - 1, lab[n][s].from), NEW strict,
         strict => Regular /\ (r.trip = 0 \/ Bettered(lab[n], lab[n - 1], s))
  PROVE  LET l == lab[n][s]
         IN  TripDep(tt, ov, l.trip, l.board) + l.day >= (IF strict THEN ReadyFor(q, r, l.trip) ELSE r.time)
<1> DEFINE l == lab[n][s]
           from == l.from
           rail == tt.trips[l.trip].rail
           dep == TripDep(tt, ov, l.trip, l.board) + l.day
<1>1. n \in 0..round /\ n - 1 \in 0..round /\ n # 0 /\ n \in Int
  BY DEF Rows
<1>2. RowIs(lab[n]) /\ RideTimed(lab, n, s)
  BY <1>1, RowOf DEF RowTimed
<1>3. from \in Stops /\ RidesTo(l, s)
  BY <1>2 DEF RowIs
<1>4. /\ RideRuns(l, s) /\ (Bettered(lab[n], lab[n - 1], s) => Caught(lab[n - 1], l))
      /\ \E m \in 0..(n - 1) : Caught(lab[m], l)
  BY <1>2 DEF RideTimed
<1> HIDE DEF l
<1>5. dep \in Int
  <2>1. l.trip \in 1..Len(tt.trips) /\ l.board \in 1..Len(tt.trips[l.trip].stops)
    BY <1>3, AlightsAt DEF Trips
  <2>2. l.day \in Int
    BY <1>4, TimesAssumption DEF RideRuns, Days
  <2> QED BY <2>1, <2>2 DEF DeparturesKnown
<1> HIDE DEF dep, from, rail
<1>6. \A m : Caught(lab[m], l) => dep >= ReadyAt(lab[m], from, rail) /\ (Regular => PlainAt(lab[m], from))
  BY DEF Caught, dep, from, rail
<1>7. ASSUME NEW m \in 0..(n - 1)
      PROVE  /\ m \in 0..round /\ RowIs(lab[m]) /\ OnTime(lab[m])
             /\ ReadyAt(lab[m], from, rail) \in Int /\ ReadyAt(lab[m], from, rail) >= lab[m][from].time
             /\ lab[n - 1][from].time <= lab[m][from].time
             /\ lab[m][from].time \in Nat /\ lab[n - 1][from].time \in Nat
  <2>1. m \in 0..round
    BY <1>1 DEF Rows
  <2>2. RowIs(lab[m]) /\ OnTime(lab[m])
    BY <2>1, RowOf
  <2>3. ReadyAt(lab[m], from, rail) \in Int /\ ReadyAt(lab[m], from, rail) >= lab[m][from].time
    BY <1>3, <2>2, ReadyLater DEF Rows
  <2>4. lab[n - 1][from].time <= lab[m][from].time /\ lab[m][from].time \in Nat
    BY <1>1, <1>3, RowOf
  <2>5. RowIs(lab[n - 1])
    BY <1>1, RowOf
  <2> QED BY <1>3, <2>1, <2>2, <2>3, <2>4, <2>5 DEF RowIs
<1>8. r.time \in Int /\ r.time <= lab[n - 1][from].time
  BY DEF Speaks, from, l
<1>9. CASE ~strict
  <2>1. PICK m \in 0..(n - 1) : Caught(lab[m], l)
    BY <1>4
  <2>2. dep >= ReadyAt(lab[m], from, rail)
    BY <1>6, <2>1
  <2>3. dep >= r.time
    BY <1>5, <1>7, <1>8, <2>2
  <2> QED BY <1>9, <2>3 DEF dep, l
<1>10. ASSUME strict, PlainAt(lab[n - 1], from), dep >= ReadyAt(lab[n - 1], from, rail)
       PROVE  dep >= ReadyFor(q, r, l.trip)
  <2>1. r = RiderAt(lab[n - 1], from)
    BY <1>10 DEF Speaks, from, l
  <2>2. n - 1 \in 0..(n - 1)
    BY <1>1
  <2>3. RowIs(lab[n - 1]) /\ OnTime(lab[n - 1]) /\ ReadyAt(lab[n - 1], from, rail) \in Int
    BY <1>7, <2>2
  <2>4. ReadyFor(q, r, l.trip) \in Int /\ ReadyFor(q, r, l.trip) <= ReadyAt(lab[n - 1], from, rail)
    BY <1>3, <1>10, <2>1, <2>3, ReadyEnough DEF Rows, rail
  <2> QED BY <1>5, <1>10, <2>3, <2>4
<1>11. CASE strict /\ Bettered(lab[n], lab[n - 1], s)
  BY <1>4, <1>6, <1>10, <1>11 DEF dep, l
<1>12. CASE strict /\ r.trip = 0
  <2>1. PICK m \in 0..(n - 1) : Caught(lab[m], l)
    BY <1>4
  <2>2. dep >= ReadyAt(lab[m], from, rail) /\ PlainAt(lab[m], from)
    BY <1>6, <1>12, <2>1
  <2>3. Original(n - 1, from)
    BY <1>12 DEF Speaks, from, l
  <2> DEFINE base == Base(lab[n - 1], from)
  <2>4. base \in Stops /\ lab[n - 1][base] = lab[0][base] /\ lab[n - 1][from] = lab[0][from]
    <3>1. RowIs(lab[n - 1])
      BY <1>1, RowOf
    <3> QED BY <1>3, <2>3, <3>1 DEF Original, Base, RowIs
  <2> HIDE DEF base
  <2>5. lab[m][base] = lab[n - 1][base] /\ lab[m][from] = lab[n - 1][from]
    BY <1>1, <1>3, <2>4, StillOriginal
  <2>6. ReadyAt(lab[n - 1], from, rail) = ReadyAt(lab[m], from, rail) /\ (PlainAt(lab[n - 1], from) <=> PlainAt(lab[m], from))
    BY <2>5, SameWait DEF base
  <2> QED BY <1>10, <1>12, <2>2, <2>6 DEF dep, l
<1> QED BY <1>9, <1>11, <1>12

\* Such a rider may take the ride, and alights where and when the label says.
LEMMA RideSpeaks ==
  ASSUME Loaded, ArrivalsKnown, DeparturesKnown, Rows, LoopsPlain, NEW n \in 1..round, NEW s \in Stops,
         lab[n][s].kind = "ride", NEW r, Speaks(r, n - 1, lab[n][s].from), NEW strict,
         strict => Regular /\ (r.trip = 0 \/ Bettered(lab[n], lab[n - 1], s)),
         NEW leg, leg.ride = TRUE, leg.trip = lab[n][s].trip, leg.board = lab[n][s].board, leg.day = lab[n][s].day,
         leg.alight = PosInPattern(PatternOfTrip(tt, lab[n][s].trip), s, lab[n][s].board)
  PROVE  \E x \in RideLeg(r, leg, strict) : Speaks(x, n, s)
<1> DEFINE l == lab[n][s]
           at == leg.alight
           arr == AddDay(TripArr(tt, ov, l.trip, at), l.day)
           x == [stop |-> tt.trips[l.trip].stops[at], time |-> arr, trip |-> l.trip, train |-> tt.trips[l.trip].rail,
                 arr |-> arr, walked |-> FALSE]
           ready == IF strict THEN ReadyFor(q, r, l.trip) ELSE r.time
<1>1. n \in 0..round /\ n # 0
  BY DEF Rows
<1>2. RowIs(lab[n]) /\ RideTimed(lab, n, s)
  BY <1>1, RowOf DEF RowTimed
<1>3. RidesTo(l, s) /\ RideRuns(l, s) /\ l.time \in Nat
  BY <1>2 DEF RowIs, RideTimed
<1>4. /\ l.board < at /\ tt.trips[l.trip].stops[at] = s /\ tt.trips[l.trip].stops[l.board] = l.from
      /\ l.trip \in Trips /\ l.board \in 1..Len(tt.trips[l.trip].stops) /\ at \in 1..Len(tt.trips[l.trip].stops)
  <2>1. at = PosInPattern(PatternOfTrip(tt, l.trip), s, l.board)
    OBVIOUS
  <2> HIDE DEF l, at
  <2> QED BY <1>3, <2>1, AlightsAt
<1>5. PICK day \in Days(q) : l.day = day.off /\ tt.trips[l.trip].service \in day.active
  BY <1>3 DEF RideRuns
<1>6. /\ ~ov.skip[l.trip] /\ ~StopSkipped(ov, l.trip, l.board)
      /\ ~StopSkipped(ov, l.trip, at) /\ l.time = arr
  BY <1>3 DEF RideRuns
<1>7. DayOf(leg) = day
  BY <1>5, DayIs
<1>8. TripDep(tt, ov, l.trip, l.board) + day.off >= ready
  BY <1>5, RideReady
<1>9. r.stop = l.from
  BY DEF Speaks
<1>10. TripLen(tt, l.trip) = Len(tt.trips[l.trip].stops) /\ Len(tt.trips[l.trip].stops) \in Nat
  BY Zenon, <1>4, TripIs DEF Trips
<1> HIDE DEF l, at, ready
<1>11. MayBoard(r, l.trip, l.board, day, ready)
  BY <1>4, <1>5, <1>6, <1>8, <1>9 DEF MayBoard
<1>12. x \in AlightsFrom(l.trip, l.board, day)
  <2>1. at \in {i \in (l.board + 1)..TripLen(tt, l.trip) : ~StopSkipped(ov, l.trip, i)}
    BY <1>4, <1>6, <1>10
  <2> QED BY <1>5, <2>1 DEF AlightsFrom
<1>13. x.stop = s /\ x.time = l.time /\ DOMAIN x = RiderFields /\ x.trip = l.trip
  BY <1>4, <1>6 DEF RiderFields
<1>14. leg.ride = TRUE /\ leg.trip = l.trip /\ leg.board = l.board /\ leg.alight = at /\ leg.day = l.day
  BY DEF l, at
<1>15. x = RiderAt(lab[n], s)
  BY <1>4, <1>6 DEF RiderAt, OffAt, l
<1>16. l.trip # 0
  BY <1>4 DEF Trips
<1> HIDE DEF x
<1>17. x \in RideLeg(r, leg, strict)
  BY <1>4, <1>6, <1>7, <1>11, <1>12, <1>13, <1>14 DEF RideLeg, ready
<1>18. Speaks(x, n, s)
  BY <1>3, <1>13, <1>15, <1>16 DEF Speaks, l
<1> QED BY <1>17, <1>18

=============================================================================
