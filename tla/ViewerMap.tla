----------------------------- MODULE ViewerMap -----------------------------
(***************************************************************************)
(* The markers the bGeigie log viewer keeps on the map (MKS in             *)
(* app/assets/javascripts/bgeigie_viewer.js, and the listeners of BVM).    *)
(*                                                                         *)
(* Drawing is spread over animation frames.  A pass first selects          *)
(* candidates for an extent, points that may have to be drawn, and keeps   *)
(* that selection; each of its frames then adds the markers of one map     *)
(* tile.  Between the frames of a pass the user moves the map, enters      *)
(* street view, changes the markers or purges the data, other passes run,  *)
(* and the vectors of points are taken away to be sorted and come back in  *)
(* another order.                                                          *)
(*                                                                         *)
(* Points lie on a line instead of a plane, so that an extent is an        *)
(* interval, and tiles are ordered by number as they are by quadkey.       *)
(***************************************************************************)
EXTENDS Integers, Sequences, FiniteSets, SequencesExt, Ordering

CONSTANTS
    Points,     \* points of logs
    Logs,       \* the logs that may be loaded, sequences of points
    X,          \* X[p]: where p is
    Cpm,        \* Cpm[p]: its value, scaled to 16 bits
    MinZoom,    \* MinZoom[p]: the zoom from which on it is shown
    Views,      \* extents the map may be moved to
    StreetView, \* the zoom at which passes for street view run, 21
    Streets,    \* extents around positions in street view
    TileOf,     \* TileOf[z][x]: number of the map tile at zoom z
    CellOf,     \* CellOf[z][x]: number of the 4 by 4 pixel cell at zoom z
    SortLimit,  \* the number of points from which on none are sorted, 5000000
    MaxLoads,   \* bound on the logs that are loaded
    MaxMoves    \* bound on the actions of the user

Zooms == DOMAIN TileOf
Extent == [lo: Int, hi: Int, z: Zooms]

\* last_ex filled with zeros; no map is ever at zoom 0.
NoExtent == [lo |-> 0, hi |-> 0, z |-> 0]

ASSUME PointsAssumption ==
    /\ Logs \subseteq Seq(Points)
    /\ X \in [Points -> Int] /\ Cpm \in [Points -> Nat]
    /\ MinZoom \in [Points -> Zooms]
\* A tile lies in one tile of any zoom before, and tiles are in the same order.
ASSUME TilesAssumption ==
    /\ Zooms \subseteq Nat
    /\ \A z \in Zooms, p \in Points : TileOf[z][X[p]] \in Nat
    /\ \A y, z \in Zooms, p, q \in Points :
          y <= z /\ TileOf[z][X[p]] <= TileOf[z][X[q]] =>
              TileOf[y][X[p]] <= TileOf[y][X[q]]
ASSUME ViewsAssumption ==
    /\ StreetView \in Zooms \ {0}
    /\ Views \subseteq Extent /\ \A v \in Views : v.z \notin {0, StreetView}
    /\ Streets \subseteq Extent /\ \A v \in Streets : v.z = StreetView
ASSUME BoundsAssumption ==
    SortLimit \in Nat \ {0} /\ MaxLoads \in Nat /\ MaxMoves \in Nat

VARIABLES
    vec,      \* the point at each index of the vectors; <<>> stands for null
    onmaps,   \* the indexes whose element of onmaps is 1
    mk_ex,    \* the points whose extent mk_ex is; {} when it is not valid
    markers,  \* markers on the map: the index in m_idxs, and what it shows
    last_ex,  \* the extent of the last finished pass
    passes,   \* passes that wait for an animation frame, in their order
    view,     \* what the map shows
    idle,     \* whether the map is about to report that it came to rest
    street,   \* whether street view is open
    listening,\* did_add_gmaps_listeners
    sorting,  \* the vector a worker is sorting; <<>> if there is none
    loads,    \* logs received so far
    moves     \* actions of the user so far

data == <<vec, mk_ex, sorting, loads>>
map == <<view, idle, street, listening>>
vars == <<data, map, onmaps, markers, last_ex, passes, moves>>

-----------------------------------------------------------------------------
(* Types *)

Marker == [idx: Nat, pt: Points]

\* A candidate: an index, and the point that was there when it was selected.
Candidate == [idx: Nat, pt: Points]

\* next is the candidate the next frame starts with, old is what markers
\* showed when the pass began.  touched is not in the code: it says whether
\* markers were removed since.
Pass ==
    [extent: Views \cup Streets, cs: Seq(Candidate), old: SUBSET Points,
     next: Nat \ {0}, frame: {"timer", "draw"}, touched: BOOLEAN]

Within(p, e) == e.lo <= X[p] /\ X[p] <= e.hi

SameCell(p, q, z) == CellOf[z][X[p]] = CellOf[z][X[q]]

OnMap(ms) == {m.idx : m \in ToSet(ms)}

-----------------------------------------------------------------------------
(* Selecting candidates *)

\* SortCandidatesIdxOnlyByQuadKey: by tile, within a tile by value.
Before(c, d, z) ==
    LET tc == TileOf[z][X[c.pt]]
        td == TileOf[z][X[d.pt]]
    IN  \/ tc < td
        \/ tc = td /\ Cpm[c.pt] < Cpm[d.pt]
        \/ tc = td /\ Cpm[c.pt] = Cpm[d.pt] /\ c.idx < d.idx

\* What lies in the extent of the last pass at the same zoom is left out.
\* v and on are the vectors and what is on the map by then.
Wanted(e, last, v, on) ==
    {c \in {[idx |-> i, pt |-> v[i]] : i \in DOMAIN v \ on} :
        /\ MinZoom[c.pt] <= e.z
        /\ Within(c.pt, e)
        /\ e.z # last.z \/ ~ Within(c.pt, last)}

GetCandidatesForAddMarkers(e, last, v, on) ==
    LET cs == Wanted(e, last, v, on)
    IN  InOrder(cs, {p \in cs \X cs : Before(p[1], p[2], e.z)})

\* AddMarkersToMapForExtentTimer, first run
NewPass(e, last, v, on, ms) ==
    [extent |-> e, cs |-> GetCandidatesForAddMarkers(e, last, v, on),
     old |-> {v[i] : i \in OnMap(ms) \cap DOMAIN v}, next |-> 1,
     frame |-> "timer", touched |-> FALSE]

-----------------------------------------------------------------------------
(* One frame of a pass (AddMarkersToMapForExtentLimited) *)

\* Fault: what another pass has drawn in between is drawn again.
fault_draw_again(c) == c.idx \in DOMAIN vec

\* Not on the map by now; an index beyond the vectors reads undefined.
Free(c) == c.idx \in DOMAIN vec \ onmaps

\* A candidate is passed over for a later one in its cell, and for a marker
\* that was in its cell already and has more than an eighth of its value.
Covered(pass, k) ==
    LET p == pass.cs[k].pt
    IN  \/ \E j \in DOMAIN pass.cs :
              j > k /\ SameCell(p, pass.cs[j].pt, pass.extent.z)
        \/ \E q \in pass.old :
              SameCell(p, q, pass.extent.z) /\ Cpm[p] \div 8 < Cpm[q]

ToDraw(pass) ==
    {k \in pass.next .. Len(pass.cs) :
        Free(pass.cs[k]) /\ ~ Covered(pass, k)}

Tile(pass, k) == TileOf[pass.extent.z][X[pass.cs[k].pt]]

\* The candidate at which the loop ends: the first free one in another tile
\* than the one that is being drawn, if there is one; draw is ToDraw(pass).
Stop(pass, draw) ==
    LET others == {j \in Min(draw) + 1 .. Len(pass.cs) :
                      /\ Free(pass.cs[j])
                      /\ Tile(pass, j) # Tile(pass, Min(draw))}
    IN  IF draw = {} \/ others = {} THEN Len(pass.cs) + 1 ELSE Min(others)

\* Where the next frame starts: one candidate back, unless that were where
\* this one has started.
Resume(pass, stop) == IF stop > pass.next + 1 THEN stop - 1 ELSE stop

\* Fault: the loop is over only past its end.
fault_past_end(pass, stop) == Resume(pass, stop) > Len(pass.cs) + 1

\* Fault: one candidate too early.
fault_third_last(pass, stop) == Resume(pass, stop) >= Len(pass.cs) - 2

\* i >= cs_n - 2, counted from 0: the last candidate but one ends the pass.
Finished(pass, stop) == Resume(pass, stop) >= Len(pass.cs) - 1

-----------------------------------------------------------------------------
(* The steps of a pass (AddMarkersToMapForExtentTimer) *)

\* The map still shows the extent of the pass; passes for street view go on.
StillVisible(pass) == pass.extent = view \/ pass.extent.z = StreetView

Pending(frame) == passes # <<>> /\ Head(passes).frame = frame

\* The next frame is asked for; with the map elsewhere the pass is dropped.
Continue(pass) ==
    IF StillVisible(pass)
    THEN passes' = Append(Tail(passes), pass) /\ UNCHANGED last_ex
    ELSE passes' = Tail(passes) /\ last_ex' = NoExtent

\* The frame after the candidates were selected.
FrameTimer ==
    /\ Pending("timer")
    /\ IF vec = <<>> THEN passes' = Tail(passes) /\ UNCHANGED last_ex
       ELSE Continue([Head(passes) EXCEPT !.frame = "draw"])
    /\ UNCHANGED <<data, map, onmaps, markers, moves>>

\* adds are positions in the candidates of the pass.
AddMarkersToMapForIdxAddList(pass, adds) ==
    LET added == Pick(pass.cs, adds)
        marker(c) == [idx |-> c.idx, pt |-> vec[c.idx]]
    IN  /\ markers' = markers \o [n \in DOMAIN added |-> marker(added[n])]
        /\ onmaps' = onmaps \cup {pass.cs[k].idx : k \in adds}

\* Without vectors the first look at onmaps ends the handler, and the pass.
FrameDies ==
    /\ Pending("draw")
    /\ vec = <<>> /\ Head(passes).next <= Len(Head(passes).cs)
    /\ passes' = Tail(passes)
    /\ UNCHANGED <<data, map, onmaps, markers, last_ex, moves>>

\* What a pass draws up to stop, and how it goes on.
DrawUpTo(pass, draw, stop) ==
    /\ AddMarkersToMapForIdxAddList(pass, {k \in draw : k < stop})
    /\ IF Finished(pass, stop)
       THEN passes' = Tail(passes) /\ last_ex' = pass.extent
       ELSE Continue([pass EXCEPT !.next = Resume(pass, stop)])

FrameDraw ==
    /\ Pending("draw")
    /\ vec # <<>> \/ Head(passes).next > Len(Head(passes).cs)
    /\ \E pass \in {Head(passes)} :
       \E draw \in {ToDraw(pass)} :
       \E stop \in {Stop(pass, draw)} : DrawUpTo(pass, draw, stop)
    /\ UNCHANGED <<data, map, moves>>

Frame == FrameTimer \/ FrameDies \/ FrameDraw

-----------------------------------------------------------------------------
(* Removing and adding markers; e is an extent, v, on and ms are the       *)
(* vectors and what is on the map by then, ps are the passes.              *)

Touched(ps) == [k \in DOMAIN ps |-> [ps[k] EXCEPT !.touched = TRUE]]

InMarkerExtent(e, known) ==
    \/ known = {}
    \/ (\E p \in known : X[p] <= e.hi) /\ (\E p \in known : X[p] >= e.lo)

\* AddMarkersToMapForCurrentVisibleExtent; mk_ex is as the step leaves it.
AddMarkers(e, last, v, on, ms, ps) ==
    IF InMarkerExtent(e, mk_ex')
    THEN /\ passes' = IF v = <<>> THEN ps
                      ELSE Append(ps, NewPass(e, last, v, on, ms))
         /\ last_ex' = last
    ELSE passes' = ps /\ last_ex' = NoExtent

\* RemoveMarkersFromMapForCurrentVisibleExtent keeps these.
Visible(e) ==
    {n \in DOMAIN markers :
        markers[n].idx \in DOMAIN vec =>
            LET p == vec[markers[n].idx] IN MinZoom[p] <= e.z /\ Within(p, e)}

Kept(e) == IF vec = <<>> THEN markers ELSE Pick(markers, Visible(e))

\* What the listeners of idle and of visible_changed do.
Refresh(e) ==
    \E kept \in {Kept(e)} :
    \E on \in {onmaps \ (OnMap(markers) \ OnMap(kept))} :
        /\ markers' = kept
        /\ onmaps' = on
        /\ AddMarkers(e, last_ex, vec, on, kept, Touched(passes))

\* RemoveAllMarkersFromMap looks every marker up in onmaps: without vectors
\* the handler dies at the first marker.
CanRemoveAll == vec # <<>> \/ markers = <<>>

OffMap == onmaps \ OnMap(markers)

RemoveAllMarkersFromMap == markers' = <<>> /\ onmaps' = OffMap

-----------------------------------------------------------------------------
(* The user *)

User ==
    /\ moves < MaxMoves
    /\ moves' = moves + 1

\* The map is dragged or zoomed, and will report when it comes to rest.
Move(e) ==
    /\ User
    /\ ~ street /\ e # view
    /\ view' = e
    /\ idle' = listening
    /\ UNCHANGED <<data, street, listening, onmaps, markers, last_ex, passes>>

Idle ==
    /\ idle
    /\ idle' = FALSE
    /\ UNCHANGED <<data, view, street, listening, moves>>
    /\ Refresh(view)

\* Street view opens, or its position changes.
ShowStreet(e) ==
    /\ User
    /\ listening
    /\ street' = TRUE
    /\ IF CanRemoveAll
       THEN /\ RemoveAllMarkersFromMap
            /\ last_ex' = NoExtent
            /\ passes' = IF vec = <<>> THEN Touched(passes)
                         ELSE Append(Touched(passes),
                                  NewPass(e, NoExtent, vec, OffMap, <<>>))
       ELSE UNCHANGED <<onmaps, markers, last_ex, passes>>
    /\ UNCHANGED <<data, view, idle, listening>>

LeaveStreet ==
    /\ User
    /\ street /\ street' = FALSE
    /\ UNCHANGED <<data, view, idle, listening>>
    /\ Refresh(view)

\* SetNewMarkerType, SetNewCustomMarkerOptions
SetNewMarkerType ==
    /\ User
    /\ CanRemoveAll
    /\ RemoveAllMarkersFromMap
    /\ UNCHANGED <<data, map>>
    /\ AddMarkers(view, NoExtent, vec, OffMap, <<>>, Touched(passes))

\* Fault: the vector of what is on the map is not thrown away.
fault_keep_onmaps ==
    /\ vec' = <<>> /\ mk_ex' = {}
    /\ UNCHANGED onmaps

PurgeData ==
    /\ vec' = <<>> /\ mk_ex' = {}
    /\ onmaps' = {}

RemoveAllMarkersFromMapAndPurgeData ==
    /\ User
    /\ CanRemoveAll /\ markers' = <<>>
    /\ last_ex' = NoExtent
    /\ passes' = Touched(passes)
    /\ PurgeData
    /\ UNCHANGED <<sorting, loads, map>>

-----------------------------------------------------------------------------
(* Data *)

\* XFM does not load a log again that is there.  Its extent is reported even if
\* its only point is not added.
Load(log) ==
    /\ loads < MaxLoads /\ ToSet(log) \cap mk_ex = {}
    /\ loads' = loads + 1
    /\ mk_ex' = mk_ex \cup ToSet(log)

\* The vectors with a log; a single point is not worth adding.
Added(log) == IF Len(log) < 2 THEN vec ELSE vec \o log

\* A log of a batch in which others are still under way.
AddData(log) ==
    /\ Load(log)
    /\ vec' = Added(log)
    /\ UNCHANGED <<sorting, map, onmaps, markers, last_ex, passes, moves>>

\* sortcb: the map is made to show all points if the user wants that and their
\* extent is known, and markers are added for what it shows.
ShowData(e) ==
    /\ e = view \/ (mk_ex' # {} /\ \A p \in mk_ex' : Within(p, e))
    /\ view' = e
    /\ idle' = (idle \/ e # view)
    /\ listening' = TRUE
    /\ AddMarkers(e, last_ex, vec', onmaps, markers, passes)
    /\ UNCHANGED <<street, onmaps, markers, moves>>

\* SortByQuadKey: the worker gets all of the vectors.
SortByQuadKey(v) ==
    /\ sorting' = v
    /\ vec' = <<>> /\ onmaps' = {}
    /\ passes' = Touched(passes)
    /\ UNCHANGED <<map, markers, last_ex, moves>>

\* Nothing to sort, or too much.
Unsorted(v) == v = <<>> \/ Len(v) >= SortLimit

\* The last log of a batch, which may have added nothing (xfmcbe).
EndBatch(log, e) ==
    /\ sorting = <<>>
    /\ Load(log)
    /\ IF Unsorted(Added(log))
       THEN vec' = Added(log) /\ UNCHANGED sorting /\ ShowData(e)
       ELSE e = view /\ SortByQuadKey(Added(log))

\* Points in the order of their quadkeys, which are as long as MinZoom says.
KeyBefore(p, q) ==
    LET z == IF MinZoom[p] < MinZoom[q] THEN MinZoom[p] ELSE MinZoom[q]
    IN  \/ TileOf[z][X[p]] < TileOf[z][X[q]]
        \/ TileOf[z][X[p]] = TileOf[z][X[q]] /\ MinZoom[p] < MinZoom[q]

\* The sort is stable: points with the same key stay in their order.
ByQuadKey(v) ==
    LET before == {p \in (DOMAIN v) \X (DOMAIN v) :
                      \/ KeyBefore(v[p[1]], v[p[2]])
                      \/ ~ KeyBefore(v[p[2]], v[p[1]]) /\ p[1] < p[2]}
        at == InOrder(DOMAIN v, before)
    IN  [i \in DOMAIN v |-> v[at[i]]]

\* The vectors come back, with nothing on the map.
Sorted(e) ==
    /\ sorting # <<>> /\ sorting' = <<>>
    /\ vec' = vec \o ByQuadKey(sorting)
    /\ UNCHANGED <<mk_ex, loads>>
    /\ ShowData(e)

-----------------------------------------------------------------------------

Init ==
    /\ vec = <<>> /\ mk_ex = {} /\ sorting = <<>> /\ loads = 0
    /\ view \in Views /\ idle = FALSE /\ street = FALSE /\ listening = FALSE
    /\ onmaps = {} /\ markers = <<>> /\ last_ex = NoExtent /\ passes = <<>>
    /\ moves = 0

Next ==
    \/ Frame
    \/ \E e \in Views : Move(e) \/ Sorted(e)
    \/ Idle
    \/ \E e \in Streets : ShowStreet(e)
    \/ LeaveStreet
    \/ SetNewMarkerType
    \/ RemoveAllMarkersFromMapAndPurgeData
    \/ \E log \in Logs : AddData(log)
    \/ \E log \in Logs \cup {<<>>}, e \in Views : EndBatch(log, e)

\* The browser asks for frames as long as the page is in view.
Spec == Init /\ [][Next]_vars /\ WF_vars(Frame)

-----------------------------------------------------------------------------
(* Properties *)

\* The types, and onmaps has an element for every point: it is as long as
\* the other vectors, which AddData, SortByQuadKey and PurgeData keep so.
TypeOK ==
    /\ vec \in Seq(Points) /\ sorting \in Seq(Points)
    /\ onmaps \subseteq DOMAIN vec
    /\ mk_ex \subseteq Points
    /\ markers \in Seq(Marker)
    /\ last_ex \in Extent \cup {NoExtent}
    /\ passes \in Seq(Pass)
    /\ view \in Views
    /\ idle \in BOOLEAN /\ street \in BOOLEAN /\ listening \in BOOLEAN
    /\ loads \in 0 .. MaxLoads /\ moves \in 0 .. MaxMoves

\* m_idxs "correlates with markers in this.markers", and is an "index into
\* this.mxs, this.cpms etc of data values": a marker stands at the point whose
\* values are looked up for it.
IndexesCorrelate ==
    vec # <<>> =>
    \A n \in DOMAIN markers :
        /\ markers[n].idx \in DOMAIN vec
        /\ vec[markers[n].idx] = markers[n].pt

\* With a single log, which is how the pages of this application use the
\* viewer, that is so in spite of everything the user does meanwhile.  No
\* point has two markers, however many passes draw at the same time, onmaps
\* tells exactly which points have one, and no marker survives its data.
MarkersMatch ==
    loads <= 1 =>
    /\ IndexesCorrelate
    /\ \A m, n \in DOMAIN markers : markers[m].idx = markers[n].idx => m = n
    /\ onmaps = OnMap(markers)

\* A pass under which nothing was removed, and which AddMarkersToMapForExtent-
\* Limited reports as finished, so that its extent will not be looked at
\* again, has left out only what another point covers, but for the last two.
Finishes(pass) ==
    Pending("draw") /\ pass = Head(passes)
    /\ vec # <<>> /\ ~ pass.touched /\ passes' = Tail(passes)

FinishedDrawn ==
    [][\A pass \in ToSet(passes) : Finishes(pass) /\ last_ex' = pass.extent =>
        \A k \in 1 .. Len(pass.cs) - 2 :
            pass.cs[k].idx \in onmaps' \/ Covered(pass, k)]_vars

\* However passes are started, overtaken and dropped, drawing comes to an end:
\* no pass keeps asking for frames.
DrawingEnds == []<>(passes = <<>>)

=============================================================================
