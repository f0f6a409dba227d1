---- MODULE GbfsProofs ----
(***************************************************************************)
(* What a published shared-mobility feed may be, for every operator, every *)
(* age limit and any number of moves and failures.                         *)
(***************************************************************************)
EXTENDS Gbfs, TLAPS

(* Adding a unit to a bounded age leaves it within its bound. *)
LEMMA OlderType ==
  ASSUME NEW limit \in Nat, NEW age \in 0..limit
  PROVE  Older(age, limit) \in 0..limit
BY DEF Older

(* Ageing documents changes neither which there are nor where they are from. *)
LEMMA AgedDocs ==
  ASSUME ConstantsAssumption, NEW d \in Docs
  PROVE  /\ Aged(d) \in Docs
         /\ \A n \in Names : /\ Aged(d)[n].gen = d[n].gen /\ Aged(d)[n].body = d[n].body
                             /\ Aged(d)[n] = NoDoc <=> d[n] = NoDoc
<1> MaxAge + 1 \in Nat
  BY DEF ConstantsAssumption
<1>1. ASSUME NEW n \in Names
      PROVE  /\ Aged(d)[n] \in Doc
             /\ Aged(d)[n].gen = d[n].gen /\ Aged(d)[n].body = d[n].body
             /\ Aged(d)[n] = NoDoc <=> d[n] = NoDoc
  <2>1. d[n] \in Doc
    BY DEF Docs
  <2>2. CASE d[n] = NoDoc
    BY <2>1, <2>2 DEF Aged
  <2>3. CASE d[n] # NoDoc
    <3>1. Older(d[n].age, MaxAge + 1) \in 0..(MaxAge + 1)
      BY <2>1, OlderType DEF Doc
    <3>2. Aged(d)[n] = [d[n] EXCEPT !.age = Older(@, MaxAge + 1)]
      BY <2>3 DEF Aged
    <3>3. /\ Aged(d)[n].gen = d[n].gen /\ Aged(d)[n].body = d[n].body
          /\ Aged(d)[n].age = Older(d[n].age, MaxAge + 1)
      BY <2>1, <3>2 DEF Doc
    <3>4. d[n].gen # 0 \/ d[n].age # 0 \/ d[n].body
      BY <2>1, <2>3 DEF Doc, NoDoc
    <3>5. d[n].age # 0 => Older(d[n].age, MaxAge + 1) # 0
      BY <2>1 DEF Older, Doc
    <3>6. Aged(d)[n] # NoDoc
      BY <3>3, <3>4, <3>5 DEF NoDoc
    <3> QED
      BY <2>1, <2>3, <3>1, <3>2, <3>3, <3>6 DEF Doc
  <2> QED
    BY <2>2, <2>3
<1> QED
  BY <1>1 DEF Aged, Docs

(* The empty set of documents is one. *)
LEMMA NoDocsType == ConstantsAssumption => NoDocs \in Docs
BY DEF ConstantsAssumption, NoDocs, NoDoc, Docs, Doc

(* Every initial state satisfies the inductive invariant. *)
LEMMA InitIInv == Init => IInv
<1> SUFFICES ASSUME Init
             PROVE  IInv
  OBVIOUS
<1>1. PICK names \in Layouts : site = [names |-> names, gen |-> 1]
  BY DEF Init
<1>2. names \subseteq Names
  BY ConstantsAssumption DEF ConstantsAssumption
<1>3. TypeOK
  <2>1. 0 \in 0..(MaxAge + 1) /\ DiscoveryAge \in 0..DiscoveryAge /\ StaticAge \in 0..StaticAge
    BY ConstantsAssumption DEF ConstantsAssumption
  <2>2. NoDocs \in Docs
    BY NoDocsType, ConstantsAssumption
  <2>3. NoFeed \in [fetched : BOOLEAN, age : 0..(MaxAge + 1), docs : Docs, linked : SUBSET Names]
    BY <2>1, <2>2 DEF NoFeed
  <2>4. site \in [names : SUBSET Names, gen : Nat]
    BY <1>1, <1>2
  <2>5. links \in [names : SUBSET Names, gen : Nat]
    BY DEF Init, NoLinks
  <2> QED
    BY <2>1, <2>2, <2>3, <2>4, <2>5 DEF Init, TypeOK
<1> QED
  BY <1>1, <1>3 DEF Init, IInv, LinkInv, FetchInv, StaticInv, FeedInv, CompleteSnapshots,
                    MixedHasCause, NoLinks, NoFeed

(* Fetching for links l starts with every dynamic document still to come. *)
LEMMA FetchStarts ==
  ASSUME TypeOK, NEW l, l \in [names : SUBSET Names, gen : Nat], l.names # {} => l.gen > 0,
         NEW static \in BOOLEAN, Fetch(l.names, static), links' = l, docs' = docs
  PROVE  /\ refreshStatic' = static /\ pending' \subseteq links'.names /\ incoming' \in Docs
         /\ pc' = "fetch"
         /\ FetchInv'
<1>1. /\ refreshStatic' = static /\ pc' = "fetch" /\ incoming' = docs /\ docs \in Docs
      /\ pending' = {n \in l.names : n \in Dynamic \/ static \/ ~docs[n].body}
  BY DEF Fetch, Wanted, TypeOK
<1>2. \A n \in links'.names \ pending' : n \notin Dynamic /\ ~static /\ docs[n] # NoDoc
  BY <1>1 DEF NoDoc
<1> QED
  BY <1>1, <1>2 DEF FetchInv

(* An answer adds a document of the links' generation. *)
LEMMA AnswerStep ==
  ASSUME IInv, NEW n \in Names, NEW doc \in Doc, Answer(n, doc), faults' \in Nat,
         doc.gen = links.gen, n \notin Stamped => doc.age = 0
  PROVE  IInv'
<1> USE DEF IInv
<1>1. pc = "fetch" /\ n \in links.names /\ links.gen > 0
  BY DEF Answer, TypeOK, LinkInv
<1>2. doc # NoDoc
  BY <1>1 DEF TypeOK, NoDoc
<1>3. incoming' = [incoming EXCEPT ![n] = doc] /\ pending' = pending \ {n}
  BY DEF Answer
<1>4. TypeOK'
  BY <1>1, <1>3 DEF Answer, operator, committed, TypeOK, Docs
<1>5. FetchInv'
  <2> SUFFICES ASSUME NEW m \in links.names \ (pending \ {n})
               PROVE  /\ incoming'[m] # NoDoc
                      /\ refreshStatic \/ m \in Dynamic => incoming'[m].gen = links.gen
                      /\ ~refreshStatic /\ m = "static" =>
                           incoming'[m].gen \in {links.gen, docs[m].gen}
                      /\ m \in Dynamic \ Stamped => incoming'[m].age = 0
    BY <1>3 DEF Answer, FetchInv, committed
  <2>1. CASE m = n
    BY <1>2, <1>3, <2>1 DEF TypeOK, Docs
  <2>2. CASE m # n
    BY <1>1, <1>3, <2>2 DEF FetchInv, TypeOK, Docs
  <2> QED
    BY <2>1, <2>2
<1>6. LinkInv' /\ StaticInv' /\ FeedInv' /\ CompleteSnapshots' /\ MixedHasCause'
  BY DEF Answer, operator, committed, LinkInv, StaticInv, FeedInv, CompleteSnapshots,
         MixedHasCause, Availability
<1> QED
  BY <1>4, <1>5, <1>6

(* Giving a refresh up changes nothing but the history, and ends it. *)
LEMMA GiveUpStep ==
  ASSUME IInv, GiveUp, UNCHANGED feed, faults' \in Nat, pc = "fetch"
  PROVE  IInv'
<1>1. TypeOK'
  BY NoDocsType, ConstantsAssumption DEF IInv, TypeOK, GiveUp, operator, Docs, Doc
<1>2. LinkInv' /\ FetchInv' /\ FeedInv' /\ CompleteSnapshots'
  BY DEF IInv, GiveUp, operator, LinkInv, FetchInv, FeedInv, CompleteSnapshots, Availability
<1>3. StaticInv' /\ MixedHasCause'
  BY DEF IInv, TypeOK, GiveUp, StaticInv, MixedHasCause
<1> QED
  BY <1>1, <1>2, <1>3 DEF IInv

(* Every step keeps the inductive invariant. *)
LEMMA StepIInv == IInv /\ [Next]_vars => IInv'
<1> SUFFICES ASSUME IInv, [Next]_vars
             PROVE  IInv'
  OBVIOUS
<1> USE DEF IInv
<1>1. CASE Tick
  <2>1. /\ docs' = Aged(docs) /\ Aged(docs) \in Docs
        /\ \A n \in Names : docs'[n].gen = docs[n].gen
    BY <1>1, AgedDocs, ConstantsAssumption DEF Tick, TypeOK
  <2>2. /\ feed'.fetched = feed.fetched /\ feed'.linked = feed.linked
        /\ feed' \in [fetched : BOOLEAN, age : 0..(MaxAge + 1), docs : Docs, linked : SUBSET Names]
        /\ \A n \in Names : /\ feed'.docs[n].gen = feed.docs[n].gen
                            /\ feed'.docs[n].body = feed.docs[n].body
                            /\ feed'.docs[n] = NoDoc <=> feed.docs[n] = NoDoc
    <3>1. CASE ~feed.fetched
      BY <1>1, <3>1 DEF Tick, TypeOK
    <3>2. CASE feed.fetched
      <4>1. feed' = [feed EXCEPT !.age = Older(@, MaxAge + 1), !.docs = Aged(@)]
        BY <1>1, <3>2 DEF Tick
      <4>2. feed \in [fetched : BOOLEAN, age : 0..(MaxAge + 1), docs : Docs, linked : SUBSET Names]
        BY DEF TypeOK
      <4>3. Older(feed.age, MaxAge + 1) \in 0..(MaxAge + 1)
        BY <4>2, OlderType, ConstantsAssumption DEF ConstantsAssumption
      <4>4. /\ feed'.age = Older(feed.age, MaxAge + 1) /\ feed'.docs = Aged(feed.docs)
            /\ feed'.fetched = feed.fetched /\ feed'.linked = feed.linked
        BY <4>1, <4>2
      <4>5. /\ Aged(feed.docs) \in Docs
            /\ \A n \in Names : /\ Aged(feed.docs)[n].gen = feed.docs[n].gen
                                /\ Aged(feed.docs)[n].body = feed.docs[n].body
                                /\ Aged(feed.docs)[n] = NoDoc <=> feed.docs[n] = NoDoc
        BY <4>2, AgedDocs, ConstantsAssumption
      <4> QED
        BY <4>1, <4>2, <4>3, <4>4, <4>5
    <3> QED
      BY <3>1, <3>2
  <2>3. TypeOK'
    <3>1. MaxAge + 1 \in Nat /\ DiscoveryAge \in Nat /\ StaticAge \in Nat
      BY ConstantsAssumption DEF ConstantsAssumption
    <3>2. dataAge' \in 0..(MaxAge + 1) /\ linkAge' \in 0..DiscoveryAge /\ staticAge' \in 0..StaticAge
      BY <1>1, <3>1, OlderType DEF Tick, TypeOK
    <3> QED
      BY <1>1, <2>1, <2>2, <3>2 DEF Tick, TypeOK, refresh
  <2>4. LinkInv' /\ FetchInv'
    BY <1>1 DEF Tick, LinkInv, FetchInv
  <2>5. StaticInv'
    BY <1>1, <2>1 DEF Tick, StaticInv, refresh, Names
  <2>6. FeedInv'
    <3> SUFFICES ASSUME feed.fetched, NEW n \in (feed.linked \cap Dynamic) \ Stamped
                 PROVE  feed'.docs[n].age = feed'.age
      BY <2>2 DEF FeedInv
    <3>1. feed \in [fetched : BOOLEAN, age : 0..(MaxAge + 1), docs : Docs, linked : SUBSET Names]
      BY DEF TypeOK
    <3>2. feed'.age = Older(feed.age, MaxAge + 1) /\ feed'.docs = Aged(feed.docs)
      BY <1>1, <3>1 DEF Tick
    <3>3. n \in Names /\ feed.docs[n] \in Doc /\ feed.docs[n] # NoDoc
      BY <3>1 DEF CompleteSnapshots, Docs
    <3>4. feed'.docs[n].age = Older(feed.docs[n].age, MaxAge + 1)
      BY <3>2, <3>3 DEF Aged, Doc
    <3> QED
      BY <3>2, <3>4 DEF FeedInv
  <2>7. CompleteSnapshots'
    BY <2>2 DEF CompleteSnapshots, Availability, TypeOK, Names
  <2>8. MixedHasCause'
    BY <1>1, <2>2 DEF Tick, MixedHasCause, TypeOK
  <2> QED
    BY <2>3, <2>4, <2>5, <2>6, <2>7, <2>8
<1>2. CASE Update
  <2>1. dataAge' \in 0..(MaxAge + 1)
    BY <1>2, ConstantsAssumption DEF Update, ConstantsAssumption
  <2> QED
    BY <1>2, <2>1 DEF Update, refresh, committed, TypeOK, LinkInv, FetchInv, StaticInv, FeedInv,
                      CompleteSnapshots, MixedHasCause, Availability, Docs, Doc
<1>3. CASE Move
  <2>1. PICK names \in Layouts : site' = [names |-> names, gen |-> site.gen + 1]
    BY <1>3 DEF Move
  <2>2. names \subseteq Names
    BY ConstantsAssumption DEF ConstantsAssumption
  <2>3. site' \in [names : SUBSET Names, gen : Nat] /\ site'.gen > 0
    BY <2>1, <2>2 DEF TypeOK
  <2> QED
    BY <1>3, <2>3 DEF Move, refresh, committed, TypeOK, LinkInv, FetchInv, StaticInv, FeedInv,
                      CompleteSnapshots, MixedHasCause, Availability, Docs, Doc
<1>4. CASE Discover
  <2>1. /\ refreshStatic' = TRUE /\ pending' \subseteq links'.names /\ incoming' \in Docs
        /\ pc' = "fetch"
        /\ FetchInv'
    BY <1>4, FetchStarts DEF Discover, TypeOK, LinkInv, committed
  <2>2. TypeOK'
    BY <1>4, <2>1, ConstantsAssumption DEF Discover, TypeOK, operator, committed, ConstantsAssumption
  <2>3. LinkInv' /\ StaticInv'
    BY <1>4, <2>1 DEF Discover, LinkInv, StaticInv, operator
  <2>4. FeedInv' /\ CompleteSnapshots' /\ MixedHasCause'
    BY <1>4 DEF Discover, committed, FeedInv, CompleteSnapshots, MixedHasCause, Availability
  <2> QED
    BY <2>1, <2>2, <2>3, <2>4
<1>5. CASE DiscoverFails
  BY <1>5 DEF DiscoverFails, Fault, operator, refresh, committed, TypeOK, LinkInv, FetchInv,
              StaticInv, FeedInv, CompleteSnapshots, MixedHasCause, Availability, Docs, Doc
<1>6. CASE BeginRefresh
  <2> DEFINE static == docs = NoDocs \/ staticAge >= StaticAge
  <2>1. /\ refreshStatic' = static /\ pending' \subseteq links'.names /\ incoming' \in Docs
        /\ pc' = "fetch"
        /\ FetchInv'
    BY <1>6, FetchStarts DEF BeginRefresh, TypeOK, LinkInv, committed
  <2>2. TypeOK'
    BY <1>6, <2>1 DEF BeginRefresh, TypeOK, operator, committed
  <2>3. LinkInv'
    BY <1>6 DEF BeginRefresh, LinkInv, operator
  <2>4. StaticInv'
    BY <1>6 DEF BeginRefresh, StaticInv, committed, TypeOK
  <2>5. FeedInv' /\ CompleteSnapshots' /\ MixedHasCause'
    BY <1>6 DEF BeginRefresh, committed, FeedInv, CompleteSnapshots, MixedHasCause, Availability
  <2> QED
    BY <2>1, <2>2, <2>3, <2>4, <2>5
<1>7. ASSUME NEW n \in Names, FetchDoc(n)
      PROVE  IInv'
  <2> DEFINE doc == [gen |-> links.gen, age |-> IF n \in Stamped THEN dataAge ELSE 0, body |-> TRUE]
  <2>1. Answer(n, doc) /\ faults' \in Nat
    BY <1>7 DEF FetchDoc, TypeOK
  <2>2. doc \in Doc /\ doc.gen = links.gen /\ (n \notin Stamped => doc.age = 0)
    BY ConstantsAssumption DEF TypeOK, Doc, ConstantsAssumption
  <2> QED
    BY <2>1, <2>2, AnswerStep
<1>7a. ASSUME NEW n \in Names, FetchEmpty(n)
       PROVE  IInv'
  <2> DEFINE doc == [gen |-> links.gen, age |-> 0, body |-> FALSE]
  <2>1. Answer(n, doc) /\ faults' \in Nat
    BY <1>7a DEF FetchEmpty, Fault, TypeOK
  <2>2. doc \in Doc /\ doc.gen = links.gen /\ doc.age = 0
    BY ConstantsAssumption DEF TypeOK, Doc, ConstantsAssumption
  <2> QED
    BY <2>1, <2>2, AnswerStep
<1>8. ASSUME NEW n \in Names, FetchFails(n)
      PROVE  IInv'
  <2>1. GiveUp /\ UNCHANGED feed /\ faults' \in Nat
    BY <1>8 DEF FetchFails, Fault, TypeOK
  <2>2. pc = "fetch"
    BY <1>8 DEF FetchFails, TypeOK
  <2> QED
    BY <2>1, <2>2, GiveUpStep
<1>9. CASE ParseFails
  <2>1. GiveUp /\ UNCHANGED feed /\ faults' \in Nat /\ pc = "fetch"
    BY <1>9 DEF ParseFails, Fetched, Fault, TypeOK
  <2> QED
    BY <2>1, GiveUpStep
<1>10. CASE Install
  <2>1. /\ pc = "fetch" /\ pending = {} /\ docs' = incoming /\ incoming \in Docs
        /\ feed' = [fetched |-> TRUE, age |-> 0, docs |-> incoming, linked |-> links.names]
        /\ links' = links /\ links.names \subseteq Names
    BY <1>10 DEF Install, Fetched, TypeOK
  <2>2. \A n \in links.names :
          /\ incoming[n] # NoDoc
          /\ refreshStatic \/ n \in Dynamic => incoming[n].gen = links.gen
          /\ ~refreshStatic /\ n = "static" => incoming[n].gen \in {links.gen, docs[n].gen}
          /\ n \in Dynamic \ Stamped => incoming[n].age = 0
    BY <2>1 DEF FetchInv
  <2>3. ~staticLost' => \A n \in links.names : incoming[n].gen = links.gen
    <3>1. CASE refreshStatic
      BY <2>2, <3>1
    <3>2. CASE ~refreshStatic
      <4>1. ~staticLost' => ("static" \in links.names => docs["static"].gen = links.gen)
        BY <1>10, <3>2 DEF Install, StaticInv, TypeOK
      <4> QED
        BY <2>1, <2>2, <3>2, <4>1 DEF Names
    <3> QED
      BY <3>1, <3>2
  <2>4. TypeOK'
    <3>1. 0 \in 0..(MaxAge + 1) /\ 0 \in 0..StaticAge /\ NoDocs \in Docs
      BY ConstantsAssumption, NoDocsType DEF ConstantsAssumption
    <3>2. feed' \in [fetched : BOOLEAN, age : 0..(MaxAge + 1), docs : Docs, linked : SUBSET Names]
      BY <2>1, <3>1
    <3> QED
      BY <1>10, <2>1, <3>1, <3>2 DEF Install, TypeOK, operator
  <2>5. LinkInv' /\ FetchInv'
    BY <1>10 DEF Install, LinkInv, FetchInv, operator
  <2>6. StaticInv'
    BY <2>1, <2>3 DEF StaticInv
  <2>7. FeedInv'
    BY <2>1, <2>2 DEF FeedInv
  <2>8. CompleteSnapshots'
    BY <1>10, <2>1, <2>2 DEF Install, CompleteSnapshots, Availability
  <2>9. MixedHasCause'
    BY <2>1, <2>3 DEF MixedHasCause
  <2> QED
    BY <2>4, <2>5, <2>6, <2>7, <2>8, <2>9
<1>11. CASE UNCHANGED vars
  BY <1>11 DEF vars, operator, refresh, committed, TypeOK, LinkInv, FetchInv,
               StaticInv, FeedInv, CompleteSnapshots, MixedHasCause, Availability, Docs, Doc
<1> QED
  BY <1>1, <1>2, <1>3, <1>4, <1>5, <1>6, <1>7, <1>7a, <1>8, <1>9, <1>10, <1>11 DEF Next, Refresh

(* IInv holds in every state of every behaviour of the manager. *)
THEOREM Invariance == Spec => []IInv
<1> QED
  BY InitIInv, StepIInv, PTL DEF Spec

(* The variables of Manager and refreshSource keep their types. *)
THEOREM TypeCorrect == Spec => []TypeOK
<1>1. IInv => TypeOK
  BY DEF IInv
<1> QED
  BY <1>1, Invariance, PTL

(* A published feed has every document that was linked (install, recordError). *)
THEOREM Completeness == Spec => []CompleteSnapshots
<1>1. IInv => CompleteSnapshots
  BY DEF IInv
<1> QED
  BY <1>1, Invariance, PTL

(* Nothing is offered that nobody has seen for longer than MaxAge (Fresh,      *)
(* endpointStale), whatever fails and whatever links come and go.              *)
THEOREM Recency == Spec => []OfferedIsRecent
<1>1. IInv => OfferedIsRecent
  <2> SUFFICES ASSUME IInv, NEW n \in Dynamic, Offered(n), n \in Stamped \cup feed.linked
               PROVE  feed.docs[n].age <= MaxAge
    BY DEF OfferedIsRecent
  <2>1. feed.docs[n].age \in Nat /\ feed.age \in Nat /\ MaxAge \in Nat /\ feed.fetched
    BY ConstantsAssumption DEF IInv, TypeOK, Docs, Doc, Names, ConstantsAssumption, Offered, Fresh
  <2>2. CASE n \in Stamped
    BY <2>1, <2>2 DEF Offered, EndpointStale
  <2>3. CASE n \notin Stamped
    <3>1. feed.docs[n].age = feed.age
      BY <2>1, <2>3 DEF IInv, FeedInv
    <3> QED
      BY <2>1, <2>3, <3>1 DEF Offered, EndpointStale
  <2> QED
    BY <2>2, <2>3
<1> QED
  BY <1>1, Invariance, PTL

(* A feed mixes generations only after a refresh due for static ones failed    *)
(* (refreshSource).                                                            *)
THEOREM Mixing == Spec => []MixedHasCause
<1>1. IInv => MixedHasCause
  BY DEF IInv
<1> QED
  BY <1>1, Invariance, PTL
====
