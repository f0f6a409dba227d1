---- MODULE StreetSource ----
(* internal/graph, where the street graph comes from: the extract is reduced *)
(* to a source of routable ways (extractFromPBF), daily diffs are folded     *)
(* into it (ApplyChange), and a graph is assembled of it (Assemble), with    *)
(* what snapping needs: components and the edges of the grid.                *)
(*                                                                           *)
(* The world lies on a line: a coordinate is an integer, geo.Dist a          *)
(* difference. A routing node keeps its OSM id as its index. Tags are        *)
(* records of the values classifyWay tells apart. Shapes, names and speeds   *)
(* are left out.                                                             *)
EXTENDS Integers, SequencesExt, FiniteSetsExt, Functions, Selection

CONSTANTS
  Nodes,        \* OSM node ids
  Outside,      \* those beyond the boundary: neither extract nor diffs have them
  Ways,         \* OSM way ids
  Maps,         \* OSM as it may be on the day of the extract
  Versions,     \* Versions[w]: what mappers may make of way w
  Places,       \* coordinates they may give a node
  MaxMeters,    \* longest edge (65000)
  EdgeRange,    \* what an edge's length is stored modulo (2^16)
  MinComponent, \* minComponentNodes (200)
  Share,        \* a small graph's threshold is its size over Share (4)
  MaxEdits,     \* bound: edits by mappers
  MaxDiffs      \* bound: diffs published

Nowhere == -1     \* missingCoord; in OSM: no such node
NoTags == [highway |-> "", access |-> "", motor |-> "", vehicle |-> "", bicycle |-> "",
           foot |-> "", oneway |-> "", contra |-> "", roundabout |-> FALSE]
NoWay == [refs |-> <<>>, tags |-> NoTags]

ASSUME StreetAssumption ==
  /\ Nodes \subseteq Nat /\ Outside \subseteq Nodes /\ Ways \subseteq Nat
  /\ \A m \in Maps : m.x \in [Nodes -> Nat \cup {Nowhere}] /\ DOMAIN m.way = Ways
  /\ Places \subseteq Nat /\ MaxMeters \in Nat \ {0} /\ EdgeRange \in Nat /\ EdgeRange > MaxMeters
  /\ MinComponent \in Nat /\ Share \in Nat \ {0} /\ MaxEdits \in Nat /\ MaxDiffs \in Nat

VARIABLES
  osm,      \* OSM as mapped now: x[n], way[w] (external)
  day,      \* OSM as of the last published diff (external)
  diffs,    \* published diffs not yet folded
  src,      \* SrcData: ways, and coord of the nodes they reference
  g,        \* the graph served
  edits, published,
  unseen    \* history: nodes some way came to use in a diff without them

vars == <<osm, day, diffs, src, g, edits, published, unseen>>

-----------------------------------------------------------------------------
(* classifyWay                                                             *)

HwClass(hw) ==
  CASE hw \in {"motorway", "motorway_link", "trunk"} -> {"car"}
    [] hw \in {"residential", "primary"}             -> {"car", "bike", "foot"}
    [] hw = "path"                                   -> {"bike", "foot"}
    [] hw \in {"footway", "steps"}                   -> {"foot"}
    [] OTHER                                         -> {}

\* One access tag: no takes the modes away, yes gives those in given.
Access(modes, value, taken, given) ==
  IF value = "no" THEN modes \ taken ELSE IF value = "yes" THEN modes \cup given ELSE modes

\* Global access, the overrides per mode in the order of the code, and stairs;
\* a class the code does not know is never kept.
BaseModes(tags) ==
  LET class   == HwClass(tags.highway)
      access  == IF tags.access = "no" THEN {} ELSE class
      motor   == Access(access, tags.motor, {"car"}, class \cap {"car"})
      vehicle == Access(motor, tags.vehicle, {"car", "bike"}, {})
      bicycle == Access(vehicle, tags.bicycle, {"bike"}, {"bike"})
      foot    == Access(bicycle, tags.foot, {"foot"}, {"foot"})
  IN  IF class = {} THEN {} ELSE IF tags.highway = "steps" THEN foot \ {"bike"} ELSE foot

Wheels == {"car", "bike"}

\* The flags of a way that are no modes: oneway never takes them away.
Marks(tags) ==
  {mark \in {"roundabout", "link", "steps"} :
     \/ mark = "roundabout" /\ tags.roundabout
     \/ mark = "link" /\ tags.highway = "motorway_link"
     \/ mark = "steps" /\ tags.highway = "steps"}

\* The flags of each direction. oneway bars the wheels from one; contraflow
\* lanes give bikes back.
Profile(tags) ==
  LET base    == BaseModes(tags) \cup Marks(tags)
      implied == tags.highway \in {"motorway", "motorway_link"} \/ tags.roundabout
      along   == tags.oneway = "yes" \/ (implied /\ tags.oneway = "")
      fwd     == IF tags.oneway = "-1" THEN base \ Wheels ELSE base
      bwd     == IF along THEN base \ Wheels ELSE base
      bikes   == base \cap {"bike"}
  IN  CASE tags.contra = "no"  -> [fwd |-> fwd \cup bikes, bwd |-> bwd \cup bikes]
        [] tags.contra = "yes" -> [fwd |-> fwd, bwd |-> bwd \ {"bike"}]
        [] tags.contra = "-1"  -> [fwd |-> fwd \ {"bike"}, bwd |-> bwd]
        [] OTHER               -> [fwd |-> fwd, bwd |-> bwd]

Keeps(way) == Len(way.refs) >= 2 /\ BaseModes(way.tags) # {}
Staged(w, way) == [id |-> w, refs |-> way.refs] @@ Profile(way.tags)

-----------------------------------------------------------------------------
(* The source                                                              *)

Refs(ways) == UNION {ToSet(ways[i].refs) : i \in DOMAIN ways}
Spots(ways, n) == UNION {{<<i, k>> : k \in {k \in DOMAIN ways[i].refs : ways[i].refs[k] = n}} :
                         i \in DOMAIN ways}

\* indexNodes: used twice or more, or the end of a way.
Routing(ways) ==
  {n \in Refs(ways) :
     \/ Cardinality(Spots(ways, n)) >= 2
     \/ \E i \in DOMAIN ways : n \in {Head(ways[i].refs), Last(ways[i].refs)}}

Ids(S) == SetToSortSeq(S, <)

Extract(m) ==
  LET ways == [i \in 1..Cardinality({w \in Ways : Keeps(m.way[w])}) |->
                 LET w == Ids({v \in Ways : Keeps(m.way[v])})[i] IN Staged(w, m.way[w])]
  IN  [ways  |-> ways,
       coord |-> [n \in Refs(ways) |-> IF n \in Outside THEN Nowhere ELSE m.x[n]]]

\* Mutant of Carried: the version before an upserted way stays too.
MutCarried(ways, ch) == SelectSeq(ways, LAMBDA way : way.id \notin ch.wayDelete)

\* The ways a diff leaves alone.
Carried(ways, ch) ==
  Among(ways, {way \in ToSet(ways) : way.id \notin ch.wayDelete \cup DOMAIN ch.wayUpsert})

\* The new versions that can be routed on, behind the ways carried over.
Upserted(ch) ==
  LET kept == Ids({w \in DOMAIN ch.wayUpsert : Keeps(ch.wayUpsert[w])})
  IN  [i \in DOMAIN kept |-> Staged(kept[i], ch.wayUpsert[kept[i]])]

\* Coordinates are carried over for the nodes some way used before, then the
\* diff's are laid over them.
ApplyChange(s, ch) ==
  LET ways == Carried(s.ways, ch) \o Upserted(ch)
  IN  [ways  |-> ways,
       coord |-> [n \in Refs(ways) |->
                    IF n \in ch.nodeDelete THEN Nowhere
                    ELSE IF n \in DOMAIN ch.nodeUpsert THEN ch.nodeUpsert[n]
                    ELSE IF n \in DOMAIN s.coord THEN s.coord[n] ELSE Nowhere]]

-----------------------------------------------------------------------------
(* Assemble                                                                *)

Dist(s, u, v) == IF s.coord[u] < s.coord[v] THEN s.coord[v] - s.coord[u] ELSE s.coord[u] - s.coord[v]
AtLeastOne(meters) == IF meters = 0 THEN 1 ELSE meters

\* emitEdge stages one edge for both directions; its length is cut to a uint16.
EmitEdge(edges, way, chain, meters) ==
  Append(edges, [u |-> Head(chain), v |-> Last(chain), meters |-> AtLeastOne(meters) % EdgeRange,
                 fwd |-> way.fwd, bwd |-> way.bwd, way |-> way.id, inner |-> Tail(Front(chain)),
                 geom |-> IF Len(chain) > 2 THEN Len(edges) + 1 ELSE 0])

\* emitChain: a piece that would grow too long ends at the node before.
EmitChain(edges, s, way, chain) ==
  IF Len(chain) < 2 THEN edges
  ELSE LET Step(acc, k) ==
             LET d     == Dist(s, chain[k - 1], chain[k])
                 split == acc.meters + d > MaxMeters /\ k - 1 > acc.start
             IN  IF split
                 THEN [start |-> k - 1, meters |-> d,
                       edges |-> EmitEdge(acc.edges, way, SubSeq(chain, acc.start, k - 1), acc.meters)]
                 ELSE [acc EXCEPT !.meters = @ + d]
           end == FoldLeft(Step, [start |-> 1, meters |-> 0, edges |-> edges],
                           [k \in 1..(Len(chain) - 1) |-> k + 1])
       IN  EmitEdge(end.edges, way, SubSeq(chain, end.start, Len(chain)), end.meters)

\* Mutant of Junction: only the ends of ways count.
MutJunction(s, n) == \E i \in DOMAIN s.ways : n \in {Head(s.ways[i].refs), Last(s.ways[i].refs)}

Junction(s, n) == n \in Routing(s.ways)

\* A way becomes chains, cut at routing nodes and where a coordinate is missing.
ChainsOf(edges, s, way) ==
  LET Step(acc, n) ==
        IF s.coord[n] = Nowhere
        THEN [edges |-> EmitChain(acc.edges, s, way, acc.chain), chain |-> <<>>]
        ELSE IF Junction(s, n) /\ acc.chain # <<>>
        THEN [edges |-> EmitChain(acc.edges, s, way, Append(acc.chain, n)), chain |-> <<n>>]
        ELSE [acc EXCEPT !.chain = Append(@, n)]
      end == FoldLeft(Step, [edges |-> edges, chain |-> <<>>], way.refs)
  IN  EmitChain(end.edges, s, way, end.chain)

\* Self loops are dropped. A direction with any flag is an edge, be it closed to
\* every mode (the way back along a link or a roundabout for cars only).
Directed(e) ==
  LET edge(u, v, flags) == [from |-> u, to |-> v, flags |-> flags, meters |-> e.meters,
                            way |-> e.way, inner |-> ToSet(e.inner), geom |-> e.geom]
  IN  IF e.u = e.v THEN <<>>
      ELSE (IF e.fwd # {} THEN <<edge(e.u, e.v, e.fwd)>> ELSE <<>>)
           \o (IF e.bwd # {} THEN <<edge(e.v, e.u, e.bwd)>> ELSE <<>>)

\* Mutant of Union: the edge hangs its first end under the other.
MutUnion(parent, root, u, v) == [parent EXCEPT ![u] = root[v]]

\* snapComponents joins the roots of an edge's ends.
Union(parent, root, u, v) == [parent EXCEPT ![root[u]] = root[v]]

Root(parent) ==
  LET r[n \in DOMAIN parent] == IF parent[n] = n THEN n ELSE r[parent[n]] IN r

\* componentThreshold
Threshold(n) ==
  IF n \div Share < MinComponent THEN Max({n \div Share, 2}) ELSE MinComponent

EndsOf(edges, mode) ==
  UNION {{edges[e].from, edges[e].to} : e \in {e \in DOMAIN edges : mode \in edges[e].flags}}

\* The nodes of one mode's large components.
SnapComponents(nodes, edges, mode) ==
  LET Join(parent, edge) ==
        LET root == Root(parent) IN
        IF mode \in edge.flags /\ root[edge.from] # root[edge.to]
        THEN Union(parent, root, edge.from, edge.to) ELSE parent
      root == Root(FoldLeft(Join, [n \in nodes |-> n], edges))
      ends == EndsOf(edges, mode)
  IN  {n \in ends : Cardinality({o \in ends : root[o] = root[n]}) >= Threshold(Cardinality(nodes))}

Modes == {"foot", "bike", "car"}

\* Promoted: routing nodes with a coordinate, and where a long chain is split.
Assemble(s) ==
  LET staged == FoldLeft(LAMBDA acc, way : ChainsOf(acc, s, way), <<>>, s.ways)
      nodes  == {n \in Routing(s.ways) : s.coord[n] # Nowhere}
                  \cup UNION {{staged[i].u, staged[i].v} : i \in DOMAIN staged}
      edges  == FlattenSeq([i \in DOMAIN staged |-> Directed(staged[i])])
  IN  [nodes |-> nodes, edges |-> edges,
       snapOK |-> [m \in Modes |-> SnapComponents(nodes, edges, m)]]

\* The first edge back with the same shape and length, or 0.
Twin(edges, e) ==
  SelectInSeq(edges, LAMBDA f : /\ f.from = edges[e].to /\ f.to = edges[e].from
                                /\ f.geom = edges[e].geom /\ f.meters = edges[e].meters)

\* Mutant of Canonical: the edges of reverse oneways are left out.
MutCanonical(edges, e) == edges[e].from < edges[e].to

\* Which edges the grid holds: one of each pair.
Canonical(edges, e) == edges[e].from < edges[e].to \/ Twin(edges, e) = 0

-----------------------------------------------------------------------------
(* External: OSM and the extract server.                                   *)

Used(m) == UNION {ToSet(m.way[w].refs) : w \in Ways}
UsedByKept(m) == UNION {ToSet(m.way[w].refs) : w \in {w \in Ways : Keeps(m.way[w])}}

Edit(m) ==
  /\ edits < MaxEdits /\ m # osm
  /\ osm' = m /\ edits' = edits + 1
  /\ UNCHANGED <<day, diffs, src, g, published, unseen>>

PutWay(w, way) == (\A n \in ToSet(way.refs) : osm.x[n] # Nowhere) /\ Edit([osm EXCEPT !.way[w] = way])
DropWay(w) == Edit([osm EXCEPT !.way[w] = NoWay])
PutNode(n, x) == n \notin Outside /\ Edit([osm EXCEPT !.x[n] = x])
DropNode(n) == n \notin Used(osm) \cup Outside /\ Edit([osm EXCEPT !.x[n] = Nowhere])

\* A diff holds each object that changed since the last one, once.
DiffOf(old, new) ==
  LET nodes == {n \in Nodes \ Outside : old.x[n] # new.x[n]}
      ways  == {w \in Ways : old.way[w] # new.way[w]}
  IN  [nodeUpsert |-> [n \in {n \in nodes : new.x[n] # Nowhere} |-> new.x[n]],
       nodeDelete |-> {n \in nodes : new.x[n] = Nowhere},
       wayUpsert  |-> [w \in {w \in ways : new.way[w] # NoWay} |-> new.way[w]],
       wayDelete  |-> {w \in ways : new.way[w] = NoWay}]

Publish ==
  /\ published < MaxDiffs /\ osm # day
  /\ LET ch == DiffOf(day, osm) IN
     /\ diffs' = Append(diffs, ch)
     /\ unseen' = (unseen \cup (UsedByKept(osm) \ UsedByKept(day)))
                    \cap (UsedByKept(osm) \ (DOMAIN ch.nodeUpsert \cup Outside))
  /\ day' = osm /\ published' = published + 1
  /\ UNCHANGED <<osm, src, g, edits>>

-----------------------------------------------------------------------------

Init ==
  /\ osm \in Maps /\ day = osm /\ diffs = <<>>
  /\ src = Extract(osm) /\ g = Assemble(src)
  /\ edits = 0 /\ published = 0 /\ unseen = {}

\* syncOSM folds every pending diff in and assembles once.
SyncOSM ==
  /\ diffs # <<>>
  /\ src' = FoldLeft(ApplyChange, src, diffs)
  /\ g' = Assemble(src')
  /\ diffs' = <<>>
  /\ UNCHANGED <<osm, day, edits, published, unseen>>

Next ==
  \/ \E w \in Ways : \E way \in Versions[w] : PutWay(w, way)
  \/ \E w \in Ways : DropWay(w)
  \/ \E n \in Nodes, x \in Places : PutNode(n, x)
  \/ \E n \in Nodes : DropNode(n)
  \/ Publish
  \/ SyncOSM

Spec == Init /\ [][Next]_vars

-----------------------------------------------------------------------------
(* Properties                                                              *)

Streets(graph) ==
  {[e \in {"from", "to", "flags", "meters", "way", "inner"} |-> graph.edges[i][e]] :
     i \in DOMAIN graph.edges}

\* "No PBF, no downloads: this is the whole live-update path" (apply.go): once
\* the diffs are folded in, source and graph are those of a fresh extract,
\* whatever was edited in whatever order. One exception: a node that a way
\* takes up in a diff without it has no coordinate until it is edited itself.
DiffsLikeExtract ==
  diffs = <<>> =>
    LET fresh == Extract(day)
        live  == [fresh EXCEPT !.coord = [n \in DOMAIN @ |-> IF n \in unseen THEN Nowhere ELSE @[n]]]
    IN  /\ ToSet(src.ways) = ToSet(live.ways) /\ Len(src.ways) = Len(live.ways)
        /\ src.coord = live.coord
        /\ Streets(g) = Streets(Assemble(live)) /\ g.nodes = Assemble(live).nodes

Known(n) == src.coord[n] # Nowhere
Length(refs) == FoldLeftDomain(LAMBDA m, k : IF k = 1 THEN 0 ELSE m + Dist(src, refs[k - 1], refs[k]),
                               0, refs)
Between(refs) == {refs[k] : k \in 2..(Len(refs) - 1)}

\* A piece of a way that may be one edge: known nodes, crossed by no other.
Stretch(refs) == /\ \A n \in ToSet(refs) : Known(n)
                 /\ \A n \in Between(refs) : Cardinality(Spots(src.ways, n)) = 1
                 /\ Length(refs) <= MaxMeters \/ Len(refs) = 2

Along(way, refs, e) ==
  /\ e.way = way.id /\ e.inner = Between(refs)
  /\ Length(refs) < EdgeRange => e.meters = AtLeastOne(Length(refs))
  /\ \/ e.from = Head(refs) /\ e.to = Last(refs) /\ e.flags = way.fwd
     \/ e.from = Last(refs) /\ e.to = Head(refs) /\ e.flags = way.bwd

Pieces(way) == {p \in (1..Len(way.refs)) \X (1..Len(way.refs)) : p[1] < p[2]}
Piece(way, p) == SubSeq(way.refs, p[1], p[2])

\* The graph is the street map, no more and no less: every edge runs along a
\* piece of a way that nothing crosses, with its length and the flags its tags
\* give that direction, and every piece between two nodes that have coordinates
\* lies on such an edge in each direction that has a flag, unless it is part of
\* a loop back to the same junction (chains, splits, holes, oneways). The length
\* is that of the piece as long as a uint16 holds it: emitChain keeps an edge of
\* several segments below MaxMeters, but not one segment longer than that, and
\* emitEdge wraps its length, where EdgeMeters "never clamps" (model.go).
EdgesFollowWays ==
  /\ \A i \in DOMAIN g.edges : \E way \in ToSet(src.ways) : \E p \in Pieces(way) :
       Stretch(Piece(way, p)) /\ Along(way, Piece(way, p), g.edges[i])
  /\ \A way \in ToSet(src.ways) : \A k \in 2..Len(way.refs) :
       Known(way.refs[k - 1]) /\ Known(way.refs[k]) =>
         \E p \in Pieces(way) :
           /\ p[1] < k /\ k <= p[2] /\ Stretch(Piece(way, p))
           /\ \/ way.refs[p[1]] = way.refs[p[2]]
              \/ \A flags \in {way.fwd, way.bwd} \ {{}} : \E i \in DOMAIN g.edges :
                   Along(way, Piece(way, p), g.edges[i]) /\ g.edges[i].flags = flags

\* Connected in one mode, whichever way the edges point: no set closed under
\* its edges holds one and not the other.
Connected(n, o, mode) ==
  \A S \in SUBSET g.nodes :
    (n \in S /\ \A e \in ToSet(g.edges) :
        mode \in e.flags => (e.from \in S <=> e.to \in S)) => o \in S

\* Points snap where a mode leads somewhere and nowhere else: a node is a
\* target exactly if enough nodes are connected to it in that mode, though
\* the union-find meets the edges in any order (snapComponents).
SnapsLeadSomewhere ==
  \A mode \in Modes :
    LET ends == EndsOf(g.edges, mode) IN
    g.snapOK[mode] = {n \in ends : Cardinality({o \in ends : Connected(n, o, mode)})
                                      >= Threshold(Cardinality(g.nodes))}

Parallel(e, f) ==
  /\ e # f /\ g.edges[e].way # g.edges[f].way
  /\ {g.edges[e].from, g.edges[e].to} = {g.edges[f].from, g.edges[f].to}
  /\ g.edges[e].geom = g.edges[f].geom /\ g.edges[e].meters = g.edges[f].meters

\* Every edge can be snapped to, from one item of the grid, and on foot each
\* has its way back ("shouldn't happen on foot paths", snap.go): unless two
\* ways join the same nodes by straight lines, which twin confuses.
EveryStreetSnaps ==
  \A e \in DOMAIN g.edges : (~\E f \in DOMAIN g.edges : Parallel(e, f)) =>
    /\ Cardinality({c \in DOMAIN g.edges : Canonical(g.edges, c) /\ e \in {c, Twin(g.edges, c)}}) = 1
    /\ "foot" \in g.edges[e].flags =>
         Twin(g.edges, e) # 0 /\ "foot" \in g.edges[Twin(g.edges, e)].flags
====
