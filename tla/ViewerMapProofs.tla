--------------------------- MODULE ViewerMapProofs ---------------------------
(***************************************************************************)
(* Proofs about ViewerMap: its types, the markers that match the data of a *)
(* single log, and the finished pass that has left out only what is        *)
(* covered.                                                                *)
(***************************************************************************)
EXTENDS ViewerMap, OrderingProofs

-----------------------------------------------------------------------------
(* The inductive invariant *)

\* Passes whose candidates are different points of the vectors v, and, unless
\* markers were removed since, have been drawn onto on up to the next frame
\* but for what is covered.
Good(v, on) ==
    {p \in Pass :
        /\ \A i, j \in DOMAIN p.cs : p.cs[i].idx = p.cs[j].idx => i = j
        /\ ~ p.touched =>
              \A j \in DOMAIN p.cs :
                  /\ p.cs[j].idx \in DOMAIN v
                  /\ j < p.next => p.cs[j].idx \in on \/ Covered(p, j)}

\* Each marker stands at the point it belongs to, no point has two, and on
\* says which have one.
Match(ms, on, v) ==
    /\ \A n \in DOMAIN ms : ms[n].idx \in DOMAIN v /\ v[ms[n].idx] = ms[n].pt
    /\ \A m, n \in DOMAIN ms : ms[m].idx = ms[n].idx => m = n
    /\ on = OnMap(ms)

Inv ==
    /\ TypeOK
    /\ passes \in Seq(Good(vec, onmaps))
    /\ loads = 0 => vec = <<>> /\ sorting = <<>>
    /\ loads <= 1 => Match(markers, onmaps, vec)

-----------------------------------------------------------------------------
(* Sorting candidates and points *)

LEMMA WantedCandidates ==
    ASSUME NEW e \in Extent, NEW last, NEW v \in Seq(Points), NEW on
    PROVE  /\ IsFiniteSet(Wanted(e, last, v, on))
           /\ \A c \in Wanted(e, last, v, on) :
                 /\ c \in Candidate
                 /\ c.idx \in DOMAIN v \ on /\ c.pt = v[c.idx]
           /\ \A c, d \in Wanted(e, last, v, on) : c.idx = d.idx => c = d
<1> DEFINE all == {[idx |-> i, pt |-> v[i]] : i \in DOMAIN v}
           f == [i \in DOMAIN v |-> [idx |-> i, pt |-> v[i]]]
           W == Wanted(e, last, v, on)
<1>1. DOMAIN v = 1 .. Len(v) /\ Len(v) \in Nat /\ \A i \in DOMAIN v : v[i] \in Points
  BY LenProperties
<1>2. IsFiniteSet(DOMAIN v)
  BY <1>1, FS_Interval
<1>3. f \in Surjection(DOMAIN v, all)
  BY DEF Surjection
<1>4. IsFiniteSet(all)
  BY <1>2, <1>3, FS_Surjection
<1>5. ASSUME NEW c \in W
      PROVE  \E i \in DOMAIN v \ on : c = [idx |-> i, pt |-> v[i]]
  BY DEF Wanted
<1>6. W \in SUBSET all
  BY <1>5
<1>7. IsFiniteSet(W)
  BY <1>4, <1>6, FS_Subset
<1> HIDE DEF W, all, f
<1>8. ASSUME NEW c \in W
      PROVE  /\ c \in Candidate
             /\ c.idx \in DOMAIN v \ on /\ c.pt = v[c.idx]
             /\ c = [idx |-> c.idx, pt |-> v[c.idx]]
  <2>1. PICK i \in DOMAIN v \ on : c = [idx |-> i, pt |-> v[i]]
    BY <1>5
  <2> QED
    BY <1>1, <2>1 DEF Candidate
<1> QED
  BY <1>7, <1>8 DEF W

LEMMA BeforeOrders ==
    ASSUME NEW z \in Zooms, NEW C \in SUBSET Candidate,
           \A c, d \in C : c.idx = d.idx => c = d
    PROVE  StrictOrder(C, {p \in C \X C : Before(p[1], p[2], z)})
<1> DEFINE R == {p \in C \X C : Before(p[1], p[2], z)}
<1>1. ASSUME NEW c \in C, NEW d \in C
      PROVE  <<c, d>> \in R <=> Before(c, d, z)
  OBVIOUS
<1>2. ASSUME NEW c \in C
      PROVE  /\ c.idx \in Nat /\ Cpm[c.pt] \in Nat
             /\ TileOf[z][X[c.pt]] \in Nat
  BY PointsAssumption, TilesAssumption DEF Candidate
<1> HIDE DEF R
<1>3. \A c \in C : <<c, c>> \notin R
  BY <1>1, <1>2 DEF Before
<1>4. ASSUME NEW c \in C, NEW d \in C, c # d
      PROVE  <<c, d>> \in R \/ <<d, c>> \in R
  <2>1. c.idx # d.idx
    BY <1>4
  <2> QED
    BY <1>1, <1>2, <2>1 DEF Before
<1>5. ASSUME NEW b \in C, NEW c \in C, NEW d \in C,
             <<b, c>> \in R, <<c, d>> \in R
      PROVE  <<b, d>> \in R
  <2>1. Before(b, c, z) /\ Before(c, d, z)
    BY <1>1, <1>5
  <2>2. Before(b, d, z)
    BY <1>2, <2>1 DEF Before
  <2> QED
    BY <1>1, <2>2
<1> QED
  BY <1>3, <1>4, <1>5 DEF StrictOrder, R

LEMMA CandidatesDiffer ==
    ASSUME NEW e \in Extent, NEW last, NEW v \in Seq(Points), NEW on
    PROVE  LET cs == GetCandidatesForAddMarkers(e, last, v, on)
           IN  /\ cs \in Seq(Candidate)
               /\ \A j \in DOMAIN cs : cs[j].idx \in DOMAIN v
               /\ \A i, j \in DOMAIN cs : cs[i].idx = cs[j].idx => i = j
<1> DEFINE W == Wanted(e, last, v, on)
           R == {p \in W \X W : Before(p[1], p[2], e.z)}
           cs == GetCandidatesForAddMarkers(e, last, v, on)
           N == Cardinality(W)
<1>1. /\ IsFiniteSet(W)
      /\ \A c \in W : c \in Candidate /\ c.idx \in DOMAIN v
      /\ \A c, d \in W : c.idx = d.idx => c = d
  BY WantedCandidates
<1>2. cs = InOrder(W, R)
  BY DEF GetCandidatesForAddMarkers
<1> HIDE DEF W
<1>3. e.z \in Zooms
  BY DEF Extent
<1>4. StrictOrder(W, R)
  BY <1>1, <1>3, BeforeOrders
<1> HIDE DEF R, cs
<1>5. /\ N \in Nat /\ cs \in [1 .. N -> W]
      /\ \A m, n \in 1 .. N : m < n => <<cs[m], cs[n]>> \in R
  BY <1>1, <1>2, <1>4, InOrderEnumerates
<1> HIDE DEF N
<1>6. ASSUME NEW m \in 1 .. N, NEW n \in 1 .. N, cs[m].idx = cs[n].idx
      PROVE  m = n
  <2>1. cs[m] = cs[n]
    BY <1>1, <1>5, <1>6
  <2>2. ~ (m < n) /\ ~ (n < m)
    BY <1>4, <1>5, <2>1 DEF StrictOrder
  <2> QED
    BY <1>5, <2>2
<1>7. cs \in [1 .. N -> Candidate] /\ DOMAIN cs = 1 .. N
  BY <1>1, <1>5
<1>8. cs \in Seq(Candidate)
  BY <1>5, <1>7, SeqDef
<1> QED
  BY <1>1, <1>5, <1>6, <1>7, <1>8 DEF cs

\* Quadkeys order the points: of three points in a row the shortest key
\* decides, or two of them have one tile at its zoom.
LEMMA KeyBeforeTransitive ==
    ASSUME NEW p \in Points, NEW q \in Points, NEW r \in Points
    PROVE  /\ ~ KeyBefore(p, p)
           /\ KeyBefore(p, q) /\ KeyBefore(q, r) => KeyBefore(p, r)
           /\ KeyBefore(p, q) => ~ KeyBefore(q, p)
           /\ ~ KeyBefore(p, q) /\ ~ KeyBefore(q, r) => ~ KeyBefore(p, r)
<1> DEFINE T(z, s) == TileOf[z][X[s]]
<1>1. \A s \in Points : MinZoom[s] \in Zooms /\ MinZoom[s] \in Nat
  BY PointsAssumption, TilesAssumption
<1>2. \A z \in Zooms, s \in Points : T(z, s) \in Nat
  BY TilesAssumption
<1>3. \A y, z \in Zooms, s, t \in Points :
         y <= z /\ T(z, s) <= T(z, t) => T(y, s) <= T(y, t)
  BY TilesAssumption
<1>4. \A s, t \in Points :
         KeyBefore(s, t) <=>
             LET z == IF MinZoom[s] < MinZoom[t] THEN MinZoom[s] ELSE MinZoom[t]
             IN  T(z, s) < T(z, t) \/ (T(z, s) = T(z, t) /\ MinZoom[s] < MinZoom[t])
  BY DEF KeyBefore
<1> HIDE DEF T
<1> QED
  BY <1>1, <1>2, <1>3, <1>4

LEMMA ByQuadKeyPermutes ==
    ASSUME NEW v \in Seq(Points)
    PROVE  ByQuadKey(v) \in Seq(Points)
<1> DEFINE D == DOMAIN v
           R == {p \in D \X D :
                    \/ KeyBefore(v[p[1]], v[p[2]])
                    \/ ~ KeyBefore(v[p[2]], v[p[1]]) /\ p[1] < p[2]}
           at == InOrder(D, R)
<1>1. D = 1 .. Len(v) /\ Len(v) \in Nat /\ \A i \in D : v[i] \in Points
  BY LenProperties
<1>2. IsFiniteSet(D) /\ Cardinality(D) = Len(v)
  BY <1>1, FS_Interval
<1>3. ASSUME NEW i \in D, NEW j \in D
      PROVE  <<i, j>> \in R <=>
                 \/ KeyBefore(v[i], v[j])
                 \/ ~ KeyBefore(v[j], v[i]) /\ i < j
  OBVIOUS
<1>4. ByQuadKey(v) = [i \in D |-> v[at[i]]]
  BY DEF ByQuadKey
<1> HIDE DEF R, at, D
<1>5. StrictOrder(D, R)
  <2>1. ASSUME NEW i \in D
        PROVE  <<i, i>> \notin R
    BY <1>1, <1>3, KeyBeforeTransitive
  <2>2. ASSUME NEW i \in D, NEW j \in D, i # j
        PROVE  <<i, j>> \in R \/ <<j, i>> \in R
    BY <1>1, <1>3, <2>2
  <2>3. ASSUME NEW i \in D, NEW j \in D, NEW k \in D,
               <<i, j>> \in R, <<j, k>> \in R
        PROVE  <<i, k>> \in R
    <3>1. v[i] \in Points /\ v[j] \in Points /\ v[k] \in Points
      BY <1>1
    <3>2. /\ KeyBefore(v[i], v[j]) /\ KeyBefore(v[j], v[k]) => KeyBefore(v[i], v[k])
          /\ ~ KeyBefore(v[k], v[j]) /\ ~ KeyBefore(v[j], v[i]) => ~ KeyBefore(v[k], v[i])
          /\ ~ KeyBefore(v[i], v[k]) /\ ~ KeyBefore(v[k], v[j]) => ~ KeyBefore(v[i], v[j])
          /\ ~ KeyBefore(v[j], v[i]) /\ ~ KeyBefore(v[i], v[k]) => ~ KeyBefore(v[j], v[k])
          /\ KeyBefore(v[i], v[j]) => ~ KeyBefore(v[j], v[i])
          /\ KeyBefore(v[j], v[k]) => ~ KeyBefore(v[k], v[j])
      BY <3>1, KeyBeforeTransitive
    <3> QED
      BY <1>1, <1>3, <2>3, <3>2
  <2> QED
    BY <2>1, <2>2, <2>3 DEF StrictOrder
<1>6. at \in [1 .. Len(v) -> D]
  BY <1>2, <1>5, InOrderEnumerates DEF at
<1>7. ByQuadKey(v) \in [1 .. Len(v) -> Points]
  BY <1>1, <1>4, <1>6
<1> QED
  BY <1>1, <1>7, SeqDef

-----------------------------------------------------------------------------
(* Passes *)

LEMMA GoodPasses ==
    ASSUME NEW v, NEW on, NEW ps \in Seq(Good(v, on))
    PROVE  ps \in Seq(Pass)
<1>1. Good(v, on) \subseteq Pass
  BY DEF Good
<1> QED
  BY <1>1, SeqMonotonic

\* A pass stays good while the vectors and what is on the map grow,
LEMMA GoodGrows ==
    ASSUME NEW v, NEW on, NEW w, NEW up,
           DOMAIN v \subseteq DOMAIN w, on \subseteq up,
           NEW ps \in Seq(Good(v, on))
    PROVE  ps \in Seq(Good(w, up))
<1>1. Good(v, on) \subseteq Good(w, up)
  BY DEF Good
<1> QED
  BY <1>1, SeqMonotonic

\* and whatever happens, once markers are removed.
LEMMA TouchedGood ==
    ASSUME NEW v, NEW on, NEW w, NEW up, NEW ps \in Seq(Good(v, on))
    PROVE  /\ Touched(ps) \in Seq(Good(w, up))
           /\ Len(Touched(ps)) = Len(ps)
<1> DEFINE t(k) == [ps[k] EXCEPT !.touched = TRUE]
<1>1. Len(ps) \in Nat /\ DOMAIN ps = 1 .. Len(ps)
  BY LenProperties
<1>2. ASSUME NEW k \in DOMAIN ps
      PROVE  t(k) \in Good(w, up)
  <2>1. ps[k] \in Good(v, on)
    BY <1>1, ElementOfSeq
  <2>2. t(k) \in Pass /\ t(k).cs = ps[k].cs /\ t(k).touched
    BY <2>1 DEF Good, Pass
  <2> QED
    BY <2>1, <2>2 DEF Good
<1>3. Touched(ps) = [k \in 1 .. Len(ps) |-> t(k)]
  BY <1>1 DEF Touched
<1> HIDE DEF t
<1>4. Touched(ps) \in [1 .. Len(ps) -> Good(w, up)]
  BY <1>1, <1>2, <1>3
<1> QED
  BY <1>1, <1>4, SeqDef

LEMMA NewPassGood ==
    ASSUME NEW e \in Views \cup Streets, NEW last, NEW v \in Seq(Points), NEW on,
           NEW ms
    PROVE  NewPass(e, last, v, on, ms) \in Good(v, on)
<1> DEFINE cs == GetCandidatesForAddMarkers(e, last, v, on)
           old == {v[i] : i \in OnMap(ms) \cap DOMAIN v}
           p == NewPass(e, last, v, on, ms)
<1>1. e \in Extent
  BY ViewsAssumption
<1>2. /\ cs \in Seq(Candidate)
      /\ \A j \in DOMAIN cs : cs[j].idx \in DOMAIN v
      /\ \A i, j \in DOMAIN cs : cs[i].idx = cs[j].idx => i = j
  BY <1>1, CandidatesDiffer
<1>3. old \in SUBSET Points
  BY LenProperties
<1>4. p = [extent |-> e, cs |-> cs, old |-> old, next |-> 1,
           frame |-> "timer", touched |-> FALSE]
  BY DEF NewPass
<1>5. \A j \in DOMAIN cs : ~ (j < 1)
  BY <1>2, LenProperties
<1> HIDE DEF cs, old, p
<1>6. p \in Pass /\ p.cs = cs /\ p.next = 1
  BY <1>2, <1>3, <1>4 DEF Pass
<1>7. p \in Good(v, on)
  BY <1>2, <1>5, <1>6 DEF Good
<1> QED
  BY <1>7 DEF p

\* A request to draw leaves the passes, or adds one.
LEMMA AddMarkersGood ==
    ASSUME NEW e \in Views, NEW last \in Extent \cup {NoExtent},
           NEW v \in Seq(Points), NEW on, NEW ms, NEW ps \in Seq(Good(v, on)),
           AddMarkers(e, last, v, on, ms, ps)
    PROVE  /\ passes' \in Seq(Good(v, on))
           /\ Len(passes') >= Len(ps)
           /\ last_ex' \in Extent \cup {NoExtent}
<1>1. Len(ps) \in Nat
  BY LenProperties
<1>2. CASE passes' = ps
  BY <1>1, <1>2 DEF AddMarkers
<1>3. CASE passes' = Append(ps, NewPass(e, last, v, on, ms))
  <2>1. NewPass(e, last, v, on, ms) \in Good(v, on)
    BY NewPassGood
  <2>2. passes' \in Seq(Good(v, on)) /\ Len(passes') = Len(ps) + 1
    BY <1>3, <2>1, AppendProperties
  <2> QED
    BY <1>1, <2>2 DEF AddMarkers
<1> QED
  BY <1>2, <1>3 DEF AddMarkers

-----------------------------------------------------------------------------
(* Markers *)

LEMMA OnMapIndexes ==
    ASSUME NEW ms \in Seq(Marker)
    PROVE  /\ OnMap(ms) = {ms[n].idx : n \in DOMAIN ms}
           /\ OnMap(ms) \in SUBSET Nat
<1>1. \A n \in DOMAIN ms : ms[n] \in Marker
  BY LenProperties, ElementOfSeq
<1> QED
  BY <1>1 DEF OnMap, ToSet, Marker

LEMMA MatchGrows ==
    ASSUME NEW ms, NEW on, NEW v \in Seq(Points), NEW w \in Seq(Points),
           Match(ms, on, v)
    PROVE  Match(ms, on, v \o w)
<1>1. \A i \in DOMAIN v : i \in DOMAIN (v \o w) /\ (v \o w)[i] = v[i]
  BY ConcatProperties, LenProperties
<1> QED
  BY <1>1 DEF Match

LEMMA MatchNone == \A v : Match(<<>>, {}, v)
  BY DEF Match, OnMap, ToSet

\* Some of the markers are taken off the map.
LEMMA MatchPick ==
    ASSUME NEW ms \in Seq(Marker), NEW I \in SUBSET (DOMAIN ms), NEW on, NEW v
    PROVE  /\ Pick(ms, I) \in Seq(Marker)
           /\ Match(ms, on, v) =>
                 Match(Pick(ms, I), on \ (OnMap(ms) \ OnMap(Pick(ms, I))), v)
<1> DEFINE kept == Pick(ms, I)
           N == Cardinality(I)
<1>1. kept \in Seq(Marker) /\ Len(kept) = N
  BY PickSelects
<1>2. PICK at \in [1 .. N -> I] :
         /\ \A n \in 1 .. N : kept[n] = ms[at[n]]
         /\ \A m, n \in 1 .. N : m < n => at[m] < at[n]
  BY PickSelects
<1>3. DOMAIN kept = 1 .. N /\ N \in Nat
  BY <1>1, LenProperties
<1>4. \A n \in DOMAIN kept : at[n] \in DOMAIN ms /\ kept[n] = ms[at[n]]
  BY <1>2, <1>3
<1> HIDE DEF kept, N
<1>5. OnMap(kept) \subseteq OnMap(ms)
  BY <1>1, <1>4, OnMapIndexes
<1>6. ASSUME Match(ms, on, v)
      PROVE  Match(kept, on \ (OnMap(ms) \ OnMap(kept)), v)
  <2>1. on \ (OnMap(ms) \ OnMap(kept)) = OnMap(kept)
    BY <1>5, <1>6 DEF Match
  <2>2. ASSUME NEW m \in DOMAIN kept, NEW n \in DOMAIN kept,
               kept[m].idx = kept[n].idx
        PROVE  m = n
    <3>1. at[m] = at[n]
      BY <1>4, <1>6, <2>2 DEF Match
    <3>2. m \in Nat /\ n \in Nat /\ at[m] \in Nat
      BY <1>3, <1>4, LenProperties
    <3>3. ~ (m < n) /\ ~ (n < m)
      BY <1>2, <1>3, <3>1, <3>2
    <3> QED
      BY <3>2, <3>3
  <2> QED
    BY <1>4, <1>6, <2>1, <2>2 DEF Match
<1> QED
  BY <1>1, <1>6 DEF kept

\* The markers of a frame are put on the map: positions of free candidates.
LEMMA MatchAdd ==
    ASSUME TypeOK, NEW pass \in Good(vec, onmaps), NEW adds \in SUBSET (DOMAIN pass.cs),
           \A k \in adds : Free(pass.cs[k]),
           AddMarkersToMapForIdxAddList(pass, adds)
    PROVE  /\ markers' \in Seq(Marker)
           /\ onmaps' \subseteq DOMAIN vec
           /\ Match(markers, onmaps, vec) => Match(markers', onmaps', vec)
<1> DEFINE added == Pick(pass.cs, adds)
           N == Cardinality(adds)
<1>1. /\ pass.cs \in Seq(Candidate)
      /\ \A i, j \in DOMAIN pass.cs : pass.cs[i].idx = pass.cs[j].idx => i = j
  BY DEF Good, Pass
<1>2. /\ added \in Seq(Candidate) /\ Len(added) = N
      /\ \E at \in [1 .. N -> adds] :
            /\ \A n \in 1 .. N : added[n] = pass.cs[at[n]]
            /\ \A i \in adds : \E n \in 1 .. N : at[n] = i
            /\ \A m, n \in 1 .. N : m < n => at[m] < at[n]
  <2> DEFINE cs == pass.cs
  <2>1. cs \in Seq(Candidate) /\ adds \in SUBSET (DOMAIN cs)
    BY <1>1
  <2> HIDE DEF cs
  <2>2. /\ Pick(cs, adds) \in Seq(Candidate) /\ Len(Pick(cs, adds)) = N
        /\ \E at \in [1 .. N -> adds] :
              /\ \A n \in 1 .. N : Pick(cs, adds)[n] = cs[at[n]]
              /\ \A i \in adds : \E n \in 1 .. N : at[n] = i
              /\ \A m, n \in 1 .. N : m < n => at[m] < at[n]
    BY <2>1, PickSelects
  <2> QED
    BY <2>2 DEF cs
<1>3. PICK at \in [1 .. N -> adds] :
         /\ \A n \in 1 .. N : added[n] = pass.cs[at[n]]
         /\ \A i \in adds : \E n \in 1 .. N : at[n] = i
         /\ \A m, n \in 1 .. N : m < n => at[m] < at[n]
  BY <1>2
<1> DEFINE M == Len(markers)
           marker(c) == [idx |-> c.idx, pt |-> vec[c.idx]]
           new == [n \in DOMAIN added |-> marker(added[n])]
<1>4. DOMAIN added = 1 .. N /\ N \in Nat /\ M \in Nat /\ DOMAIN markers = 1 .. M
      /\ vec \in Seq(Points) /\ markers \in Seq(Marker)
  BY <1>2, LenProperties DEF TypeOK
<1>5. \A k \in adds : k \in Nat /\ pass.cs[k].idx \in DOMAIN vec \ onmaps
                      /\ pass.cs[k].idx \in Nat
  <2>1. \A k \in DOMAIN pass.cs : k \in Nat /\ pass.cs[k] \in Candidate
    BY <1>1, LenProperties, ElementOfSeq
  <2> QED
    BY <2>1 DEF Free, Candidate
<1>6. /\ markers' = markers \o new
      /\ onmaps' = onmaps \cup {pass.cs[k].idx : k \in adds}
  BY DEF AddMarkersToMapForIdxAddList
<1> HIDE DEF added, N, M
<1>7. ASSUME NEW n \in 1 .. N
      PROVE  /\ new[n] \in Marker
             /\ new[n].idx = pass.cs[at[n]].idx /\ new[n].pt = vec[new[n].idx]
             /\ new[n].idx \in DOMAIN vec \ onmaps
  <2>1. at[n] \in adds /\ added[n] = pass.cs[at[n]]
    BY <1>3
  <2>2. new[n] = marker(pass.cs[at[n]])
    BY <1>4, <2>1
  <2>3. vec[pass.cs[at[n]].idx] \in Points
    BY <1>4, <1>5, <2>1, LenProperties
  <2> QED
    BY <1>5, <2>1, <2>2, <2>3 DEF Marker
<1>8. new \in Seq(Marker) /\ Len(new) = N
  <2>1. new \in [1 .. N -> Marker]
    BY <1>4, <1>7
  <2> QED
    BY <1>4, <2>1, SeqDef
<1> HIDE DEF new
<1>9. /\ markers' \in Seq(Marker) /\ DOMAIN markers' = 1 .. M + N
      /\ \A n \in 1 .. M : markers'[n] = markers[n]
      /\ \A n \in M + 1 .. M + N : n - M \in 1 .. N /\ markers'[n] = new[n - M]
  BY <1>4, <1>6, <1>8, ConcatProperties, LenProperties DEF M
<1>10. onmaps' \subseteq DOMAIN vec
  BY <1>5, <1>6 DEF TypeOK
<1>11. ASSUME Match(markers, onmaps, vec)
       PROVE  Match(markers', onmaps', vec)
  <2>1. \A n \in 1 .. M : /\ markers'[n].idx \in onmaps
                          /\ markers'[n].idx \in DOMAIN vec
                          /\ vec[markers'[n].idx] = markers'[n].pt
    <3>1. onmaps = {markers[n].idx : n \in 1 .. M}
      BY <1>4, <1>11, OnMapIndexes DEF Match
    <3> QED
      BY <1>4, <1>9, <1>11, <3>1 DEF Match
  <2>2. \A n \in M + 1 .. M + N :
           /\ markers'[n].idx \in DOMAIN vec \ onmaps
           /\ vec[markers'[n].idx] = markers'[n].pt
           /\ n - M \in 1 .. N /\ markers'[n].idx = pass.cs[at[n - M]].idx
    BY <1>7, <1>9
  <2>3. ASSUME NEW m \in 1 .. M + N, NEW n \in 1 .. M + N,
               markers'[m].idx = markers'[n].idx
        PROVE  m = n
    <3>1. CASE m \in 1 .. M /\ n \in 1 .. M
      BY <1>4, <1>9, <1>11, <2>3, <3>1 DEF Match
    <3>2. CASE m \in M + 1 .. M + N /\ n \in M + 1 .. M + N
      <4>1. at[m - M] = at[n - M]
        BY <1>1, <1>3, <2>2, <2>3, <3>2
      <4>2. m - M \in 1 .. N /\ n - M \in 1 .. N /\ at[m - M] \in Nat
        BY <1>3, <1>5, <2>2, <3>2
      <4>3. ~ (m - M < n - M) /\ ~ (n - M < m - M)
        BY <1>3, <4>1, <4>2
      <4> QED
        BY <1>4, <4>2, <4>3
    <3> QED
      BY <1>4, <2>1, <2>2, <2>3, <3>1, <3>2
  <2>4. onmaps' = OnMap(markers')
    <3>1. OnMap(markers') = {markers'[n].idx : n \in 1 .. M + N}
      BY <1>9, OnMapIndexes
    <3>2. onmaps = {markers[n].idx : n \in 1 .. M}
      BY <1>4, <1>11, OnMapIndexes DEF Match
    <3>3. ASSUME NEW k \in adds
          PROVE  pass.cs[k].idx \in {markers'[n].idx : n \in 1 .. M + N}
      <4>1. PICK j \in 1 .. N : at[j] = k
        BY <1>3
      <4>2. /\ M + j \in M + 1 .. M + N /\ M + j \in 1 .. M + N
            /\ (M + j) - M = j
        BY <1>4
      <4>3. markers'[M + j].idx = pass.cs[k].idx
        BY <2>2, <4>1, <4>2
      <4> QED
        BY <4>2, <4>3
    <3>4. ASSUME NEW n \in 1 .. M + N
          PROVE  markers'[n].idx \in onmaps'
      <4>1. CASE n \in 1 .. M
        <5>1. markers'[n].idx \in onmaps
          BY <2>1, <3>2, <4>1
        <5> QED
          BY <1>6, <5>1
      <4>2. CASE n \in M + 1 .. M + N
        <5>1. PICK j \in 1 .. N : n = M + j
          <6>1. n - M \in 1 .. N /\ n = M + (n - M)
            BY <1>4, <4>2
          <6> QED
            BY <6>1
        <5>2. at[j] \in adds /\ n - M = j
          BY <1>3, <1>4, <5>1
        <5>3. markers'[n].idx = pass.cs[at[j]].idx
          BY <2>2, <4>2, <5>2
        <5> QED
          BY <1>6, <5>2, <5>3
      <4> QED
        BY <1>4, <4>1, <4>2
    <3>5. onmaps \subseteq {markers'[n].idx : n \in 1 .. M + N}
      BY <1>4, <1>9, <3>2
    <3>6. onmaps' \subseteq OnMap(markers')
      BY <1>6, <3>1, <3>3, <3>5
    <3>7. OnMap(markers') \subseteq onmaps'
      BY <3>1, <3>4
    <3> QED
      BY <3>6, <3>7
  <2>5. ASSUME NEW n \in DOMAIN markers'
        PROVE  markers'[n].idx \in DOMAIN vec /\ vec[markers'[n].idx] = markers'[n].pt
    <3>1. n \in 1 .. M \/ n \in M + 1 .. M + N
      BY <1>4, <1>9
    <3> QED
      BY <2>1, <2>2, <3>1
  <2>6. \A m, n \in DOMAIN markers' : markers'[m].idx = markers'[n].idx => m = n
    BY <1>9, <2>3
  <2> QED
    BY <2>4, <2>5, <2>6 DEF Match
<1> QED
  BY <1>9, <1>10, <1>11

-----------------------------------------------------------------------------
(* Frames *)

LEMMA FrameLimits ==
    ASSUME NEW pass \in Pass
    PROVE  /\ ToDraw(pass) \in SUBSET (DOMAIN pass.cs)
           /\ \A k \in ToDraw(pass) : Free(pass.cs[k])
           /\ Resume(pass, Stop(pass, ToDraw(pass))) \in Nat \ {0}
           /\ Stop(pass, ToDraw(pass)) \in Nat
           /\ Resume(pass, Stop(pass, ToDraw(pass))) <= Stop(pass, ToDraw(pass))
<1> DEFINE draw == ToDraw(pass)
           L == Len(pass.cs)
           others == {j \in Min(draw) + 1 .. L :
                         /\ Free(pass.cs[j])
                         /\ Tile(pass, j) # Tile(pass, Min(draw))}
           stop == Stop(pass, draw)
<1>1. pass.next \in Nat \ {0} /\ L \in Nat /\ DOMAIN pass.cs = 1 .. L
  BY LenProperties DEF Pass
<1>2. draw \in SUBSET (pass.next .. L) /\ \A k \in draw : Free(pass.cs[k])
  BY DEF ToDraw
<1>3. stop = IF draw = {} \/ others = {} THEN L + 1 ELSE Min(others)
  BY DEF Stop
<1> HIDE DEF draw, L
<1>4. draw \in SUBSET (1 .. L) /\ draw \in SUBSET Nat
  BY <1>1, <1>2
<1>5. stop \in Nat \ {0}
  <2>1. CASE draw = {} \/ others = {}
    BY <1>1, <1>3, <2>1
  <2>2. CASE draw # {} /\ others # {}
    <3>1. \E n \in draw : \A m \in draw : n <= m
      BY <1>4, <2>2, LeastNat
    <3>2. Min(draw) \in Nat
      BY <1>4, <3>1 DEF Min
    <3> DEFINE first == Min(draw)
    <3>3. others \in SUBSET Nat /\ \A j \in others : j > 0
      <4>1. first \in Nat /\ others \in SUBSET (first + 1 .. L)
        BY <3>2
      <4> HIDE DEF first, others
      <4> QED
        BY <1>1, <4>1
    <3> HIDE DEF others
    <3>4. \E n \in others : \A m \in others : n <= m
      BY <2>2, <3>3, LeastNat
    <3>5. Min(others) \in others
      BY <3>4 DEF Min
    <3> DEFINE least == Min(others)
    <3>6. least \in others
      BY <3>5
    <3>7. stop = least
      BY <1>3, <2>2
    <3> HIDE DEF least, first
    <3>8. least \in Nat /\ least > 0
      BY <3>3, <3>6
    <3> QED
      BY <3>7, <3>8
  <2> QED
    BY <2>1, <2>2
<1> HIDE DEF stop
<1>6. Resume(pass, stop) \in Nat \ {0} /\ Resume(pass, stop) <= stop
  BY <1>1, <1>5 DEF Resume
<1> QED
  BY <1>1, <1>2, <1>4, <1>5, <1>6 DEF stop, draw

\* What a frame gets past is on the map by then, or covered.
LEMMA PastIsDrawn ==
    ASSUME NEW pass \in Good(vec, onmaps), ~ pass.touched,
           NEW stop \in Nat, NEW j \in DOMAIN pass.cs, j < stop,
           onmaps' = onmaps \cup
               {pass.cs[k].idx : k \in {k \in ToDraw(pass) : k < stop}}
    PROVE  pass.cs[j].idx \in onmaps' \/ Covered(pass, j)
<1>1. /\ pass.cs[j].idx \in DOMAIN vec
      /\ j < pass.next => pass.cs[j].idx \in onmaps \/ Covered(pass, j)
  BY DEF Good
<1>2. pass.next \in Nat /\ j \in 1 .. Len(pass.cs) /\ Len(pass.cs) \in Nat
  BY LenProperties DEF Good, Pass
<1>3. CASE j < pass.next
  BY <1>1, <1>3
<1>4. CASE ~ (j < pass.next) /\ ~ Covered(pass, j) /\ pass.cs[j].idx \notin onmaps
  <2>1. j \in ToDraw(pass)
    BY <1>1, <1>2, <1>4 DEF ToDraw, Free
  <2> QED
    BY <2>1
<1> QED
  BY <1>3, <1>4

LEMMA DrawUpToGood ==
    ASSUME TypeOK, passes \in Seq(Good(vec, onmaps)), Pending("draw"),
           DrawUpTo(Head(passes), ToDraw(Head(passes)),
                    Stop(Head(passes), ToDraw(Head(passes))))
    PROVE  /\ passes' \in Seq(Good(vec, onmaps'))
           /\ last_ex' \in Extent \cup {NoExtent}
           /\ markers' \in Seq(Marker)
           /\ onmaps' \subseteq DOMAIN vec
           /\ Match(markers, onmaps, vec) => Match(markers', onmaps', vec)
<1> DEFINE pass == Head(passes)
           draw == ToDraw(pass)
           stop == Stop(pass, draw)
           adds == {k \in draw : k < stop}
           resume == Resume(pass, stop)
           on == [pass EXCEPT !.next = resume]
<1>1. passes # <<>>
  BY DEF Pending
<1>2. pass \in Good(vec, onmaps) /\ Tail(passes) \in Seq(Good(vec, onmaps))
  BY <1>1, HeadTailProperties
<1>3. pass \in Pass
  BY <1>2 DEF Good
<1>4. /\ draw \in SUBSET (DOMAIN pass.cs) /\ \A k \in draw : Free(pass.cs[k])
      /\ resume \in Nat \ {0} /\ stop \in Nat /\ resume <= stop
  BY <1>3, FrameLimits
<1>5. /\ AddMarkersToMapForIdxAddList(pass, adds)
      /\ IF Finished(pass, stop)
         THEN passes' = Tail(passes) /\ last_ex' = pass.extent
         ELSE Continue(on)
  BY DEF DrawUpTo
<1>6. onmaps' = onmaps \cup {pass.cs[k].idx : k \in adds}
  BY <1>5 DEF AddMarkersToMapForIdxAddList
<1>7. ~ pass.touched => \A j \in DOMAIN pass.cs :
          j < stop => pass.cs[j].idx \in onmaps' \/ Covered(pass, j)
  BY <1>2, <1>4, <1>6, PastIsDrawn
<1>8. adds \in SUBSET (DOMAIN pass.cs) /\ \A k \in adds : Free(pass.cs[k])
  BY <1>4
<1> HIDE DEF draw, adds, stop, pass, resume
<1>9. /\ markers' \in Seq(Marker)
      /\ onmaps' \subseteq DOMAIN vec
      /\ Match(markers, onmaps, vec) => Match(markers', onmaps', vec)
  BY <1>2, <1>5, <1>8, MatchAdd
<1>10. on \in Good(vec, onmaps')
  <2>1. /\ on \in Pass /\ on.cs = pass.cs /\ on.next = resume
        /\ on.touched = pass.touched /\ on.extent = pass.extent /\ on.old = pass.old
    BY <1>3, <1>4 DEF Pass
  <2>2. \A j \in DOMAIN pass.cs : Covered(on, j) <=> Covered(pass, j)
    BY <2>1 DEF Covered
  <2>3. \A j \in DOMAIN pass.cs : j \in Nat
    BY <1>3, LenProperties DEF Pass
  <2> HIDE DEF on
  <2>4. ~ on.touched => \A j \in DOMAIN on.cs :
            /\ on.cs[j].idx \in DOMAIN vec
            /\ j < on.next => on.cs[j].idx \in onmaps' \/ Covered(on, j)
    <3> SUFFICES ASSUME ~ pass.touched, NEW j \in DOMAIN pass.cs
                 PROVE  /\ pass.cs[j].idx \in DOMAIN vec
                        /\ j < resume => pass.cs[j].idx \in onmaps' \/ Covered(pass, j)
      BY <2>1, <2>2
    <3>1. pass.cs[j].idx \in DOMAIN vec
      BY <1>2 DEF Good
    <3>2. j < resume => j < stop
      BY <1>4, <2>3
    <3> QED
      BY <1>7, <3>1, <3>2
  <2> QED
    BY <1>2, <2>1, <2>4 DEF Good
<1> HIDE DEF on
<1>11. Tail(passes) \in Seq(Good(vec, onmaps'))
  BY <1>2, <1>6, GoodGrows
<1>12. Append(Tail(passes), on) \in Seq(Good(vec, onmaps'))
  BY <1>10, <1>11, AppendProperties
<1>13. pass.extent \in Extent
  BY <1>3, ViewsAssumption DEF Pass
<1> QED
  BY <1>5, <1>9, <1>11, <1>12, <1>13 DEF Continue, TypeOK

-----------------------------------------------------------------------------
(* The other handlers *)

\* The parts of the state that the handlers of the user leave alone or count.
UserTypes ==
    /\ view' \in Views
    /\ idle' \in BOOLEAN /\ street' \in BOOLEAN /\ listening' \in BOOLEAN
    /\ moves' \in 0 .. MaxMoves

\* What is on the map, when data stay as they are.
DrawingGood ==
    /\ passes' \in Seq(Good(vec, onmaps'))
    /\ last_ex' \in Extent \cup {NoExtent}
    /\ markers' \in Seq(Marker)
    /\ onmaps' \subseteq DOMAIN vec
    /\ Match(markers, onmaps, vec) => Match(markers', onmaps', vec)

LEMMA KeepsData ==
    ASSUME Inv, UNCHANGED data, UserTypes, DrawingGood
    PROVE  Inv'
<1>1. TypeOK'
  BY GoodPasses DEF Inv, TypeOK, data, UserTypes, DrawingGood
<1> QED
  BY <1>1 DEF Inv, data, DrawingGood

LEMMA UserMoves ==
    ASSUME TypeOK, User
    PROVE  moves' \in 0 .. MaxMoves
  BY BoundsAssumption DEF TypeOK, User

LEMMA RefreshGood ==
    ASSUME TypeOK, passes \in Seq(Good(vec, onmaps)), NEW e \in Views, Refresh(e)
    PROVE  DrawingGood /\ Len(passes') >= Len(passes)
<1>1. PICK kept \in {Kept(e)} :
      \E on \in {onmaps \ (OnMap(markers) \ OnMap(kept))} :
         /\ markers' = kept
         /\ onmaps' = on
         /\ AddMarkers(e, last_ex, vec, on, kept, Touched(passes))
  BY DEF Refresh
<1> DEFINE on == onmaps \ (OnMap(markers) \ OnMap(kept))
<1>2. /\ markers' = kept /\ onmaps' = on
      /\ AddMarkers(e, last_ex, vec, on, kept, Touched(passes))
  BY <1>1
<1>3. Touched(passes) \in Seq(Good(vec, on)) /\ Len(Touched(passes)) = Len(passes)
  BY TouchedGood
<1>4. /\ kept \in Seq(Marker)
      /\ Match(markers, onmaps, vec) => Match(kept, on, vec)
  <2>1. markers \in Seq(Marker) /\ Visible(e) \in SUBSET (DOMAIN markers)
    BY DEF TypeOK, Visible
  <2>2. CASE kept = markers
    <3>1. on = onmaps
      BY <2>2
    <3> QED
      BY <2>1, <2>2, <3>1
  <2>3. CASE kept = Pick(markers, Visible(e))
    BY <2>1, <2>3, MatchPick
  <2> QED
    BY <1>1, <2>2, <2>3 DEF Kept
<1>5. onmaps \subseteq DOMAIN vec /\ vec \in Seq(Points)
      /\ last_ex \in Extent \cup {NoExtent}
  BY DEF TypeOK
<1>6. on \subseteq DOMAIN vec
  BY <1>5
<1> HIDE DEF on
<1>7. /\ passes' \in Seq(Good(vec, on)) /\ Len(passes') >= Len(passes)
      /\ last_ex' \in Extent \cup {NoExtent}
  BY <1>2, <1>3, <1>5, AddMarkersGood
<1> QED
  BY <1>2, <1>4, <1>6, <1>7 DEF DrawingGood

\* All markers are removed, and then drawn anew for e.
LEMMA RemoveAllGood ==
    ASSUME TypeOK, passes \in Seq(Good(vec, onmaps)), RemoveAllMarkersFromMap,
           passes' \in Seq(Good(vec, OffMap)), last_ex' \in Extent \cup {NoExtent}
    PROVE  DrawingGood
<1>1. markers' = <<>> /\ onmaps' = OffMap /\ OffMap = onmaps \ OnMap(markers)
  BY DEF RemoveAllMarkersFromMap, OffMap
<1>2. Match(markers, onmaps, vec) => onmaps' = {}
  BY <1>1 DEF Match
<1>3. Match(markers, onmaps, vec) => Match(markers', onmaps', vec)
  BY <1>1, <1>2, MatchNone
<1> QED
  BY <1>1, <1>3 DEF DrawingGood, TypeOK

LEMMA ShowStreetGood ==
    ASSUME TypeOK, passes \in Seq(Good(vec, onmaps)), NEW e \in Streets, ShowStreet(e)
    PROVE  DrawingGood /\ Len(passes') >= Len(passes)
<1>1. /\ Touched(passes) \in Seq(Good(vec, OffMap))
      /\ Len(Touched(passes)) = Len(passes) /\ Len(passes) \in Nat
  BY TouchedGood, LenProperties
<1>2. CASE CanRemoveAll
  <2> DEFINE new == NewPass(e, NoExtent, vec, OffMap, <<>>)
  <2>1. /\ RemoveAllMarkersFromMap /\ last_ex' = NoExtent
        /\ passes' = IF vec = <<>> THEN Touched(passes) ELSE Append(Touched(passes), new)
    BY <1>2 DEF ShowStreet
  <2>2. new \in Good(vec, OffMap)
    BY NewPassGood DEF TypeOK
  <2> HIDE DEF new
  <2>3. passes' \in Seq(Good(vec, OffMap)) /\ Len(passes') >= Len(passes)
    BY <1>1, <2>1, <2>2, AppendProperties
  <2> QED
    BY <2>1, <2>3, RemoveAllGood
<1>3. CASE ~ CanRemoveAll
  BY <1>1, <1>3 DEF ShowStreet, DrawingGood, TypeOK
<1> QED
  BY <1>2, <1>3

LEMMA SetNewMarkerTypeGood ==
    ASSUME TypeOK, passes \in Seq(Good(vec, onmaps)), SetNewMarkerType
    PROVE  DrawingGood /\ Len(passes') >= Len(passes)
<1>1. /\ Touched(passes) \in Seq(Good(vec, OffMap))
      /\ Len(Touched(passes)) = Len(passes)
  BY TouchedGood
<1>2. /\ RemoveAllMarkersFromMap
      /\ AddMarkers(view, NoExtent, vec, OffMap, <<>>, Touched(passes))
  BY DEF SetNewMarkerType
<1>3. vec \in Seq(Points) /\ view \in Views
  BY DEF TypeOK
<1>4. /\ passes' \in Seq(Good(vec, OffMap))
      /\ Len(passes') >= Len(passes) /\ last_ex' \in Extent \cup {NoExtent}
  BY <1>1, <1>2, <1>3, AddMarkersGood
<1> QED
  BY <1>2, <1>4, RemoveAllGood

\* Points come into the vectors, and the map is made to show them.
LEMMA ShowDataGood ==
    ASSUME Inv, NEW e \in Views, NEW new \in Seq(Points),
           vec' = vec \o new, sorting' \in Seq(Points), mk_ex' \subseteq Points,
           loads' \in 1 .. MaxLoads, loads' <= 1 => loads <= 1,
           ShowData(e)
    PROVE  Inv' /\ Len(passes') >= Len(passes)
<1>1. /\ vec \in Seq(Points) /\ passes \in Seq(Good(vec, onmaps))
      /\ last_ex \in Extent \cup {NoExtent} /\ onmaps \subseteq DOMAIN vec
  BY DEF Inv, TypeOK
<1>2. /\ AddMarkers(e, last_ex, vec', onmaps, markers, passes)
      /\ view' = e /\ idle' = (idle \/ e # view) /\ listening' = TRUE
      /\ UNCHANGED <<street, onmaps, markers, moves>>
  BY DEF ShowData
<1>3. vec' \in Seq(Points) /\ DOMAIN vec \subseteq DOMAIN vec'
  BY <1>1, ConcatProperties, LenProperties
<1>4. passes \in Seq(Good(vec', onmaps))
  BY <1>1, <1>3, GoodGrows
<1>5. /\ passes' \in Seq(Good(vec', onmaps)) /\ Len(passes') >= Len(passes)
      /\ last_ex' \in Extent \cup {NoExtent}
  BY <1>1, <1>2, <1>3, <1>4, AddMarkersGood
<1>6. Match(markers, onmaps, vec) => Match(markers, onmaps, vec')
  BY <1>1, MatchGrows
<1>7. passes' \in Seq(Pass)
  BY <1>5, GoodPasses
<1>8. /\ idle' \in BOOLEAN /\ onmaps' \subseteq DOMAIN vec'
      /\ view' \in Views /\ listening' \in BOOLEAN
  BY <1>1, <1>2, <1>3 DEF Inv, TypeOK
<1>9. /\ street' \in BOOLEAN /\ markers' \in Seq(Marker)
      /\ moves' \in 0 .. MaxMoves
  BY <1>2 DEF Inv, TypeOK
<1>10. loads' \in 0 .. MaxLoads /\ loads' # 0
  BY BoundsAssumption
<1>11. TypeOK'
  BY <1>3, <1>5, <1>7, <1>8, <1>9, <1>10 DEF TypeOK
<1>12. onmaps' = onmaps /\ markers' = markers
  BY <1>2
<1>13. passes' \in Seq(Good(vec', onmaps'))
  BY <1>5, <1>12
<1>14. loads' <= 1 => Match(markers', onmaps', vec')
  BY <1>6, <1>12 DEF Inv
<1> QED
  BY <1>5, <1>10, <1>11, <1>13, <1>14 DEF Inv

LEMMA SortedGood ==
    ASSUME Inv, NEW e \in Views, Sorted(e)
    PROVE  Inv' /\ Len(passes') >= Len(passes)
<1>1. sorting \in Seq(Points) /\ mk_ex \subseteq Points /\ loads \in 0 .. MaxLoads
  BY DEF Inv, TypeOK
<1>2. /\ vec' = vec \o ByQuadKey(sorting) /\ sorting' = <<>> /\ sorting # <<>>
      /\ mk_ex' = mk_ex /\ loads' = loads /\ ShowData(e)
  BY DEF Sorted
<1>3. ByQuadKey(sorting) \in Seq(Points)
  BY <1>1, ByQuadKeyPermutes
<1>4. loads' \in 1 .. MaxLoads
  BY <1>1, <1>2, BoundsAssumption DEF Inv
<1>5. sorting' \in Seq(Points)
  BY <1>2, EmptySeq
<1> QED
  BY <1>1, <1>2, <1>3, <1>4, <1>5, ShowDataGood

\* A log of two points or more goes to the end of the vectors.
LEMMA AddedAppends ==
    ASSUME vec \in Seq(Points), NEW log \in Seq(Points)
    PROVE  \E new \in Seq(Points) : Added(log) = vec \o new
<1>1. <<>> \in Seq(Points) /\ vec \o <<>> = vec
  BY EmptySeq, ConcatEmptySeq
<1>2. CASE Len(log) < 2
  BY <1>1, <1>2 DEF Added
<1>3. CASE ~ (Len(log) < 2)
  BY <1>3 DEF Added
<1> QED
  BY <1>2, <1>3

LEMMA DataGood ==
    ASSUME Inv,
           \/ \E log \in Logs : AddData(log)
           \/ \E log \in Logs \cup {<<>>}, e \in Views : EndBatch(log, e)
    PROVE  Inv' /\ Len(passes') >= Len(passes)
<1>1. /\ vec \in Seq(Points) /\ passes \in Seq(Good(vec, onmaps))
      /\ Logs \cup {<<>>} \subseteq Seq(Points) /\ Len(passes) \in Nat
      /\ loads \in Nat /\ MaxLoads \in Nat /\ sorting \in Seq(Points)
  <2>1. /\ vec \in Seq(Points) /\ passes \in Seq(Good(vec, onmaps))
        /\ loads \in 0 .. MaxLoads /\ sorting \in Seq(Points)
    BY DEF Inv, TypeOK
  <2>2. <<>> \in Seq(Points) /\ Logs \subseteq Seq(Points)
    BY EmptySeq, PointsAssumption
  <2>3. Len(passes) \in Nat
    BY <2>1, LenProperties
  <2>4. loads \in Nat /\ MaxLoads \in Nat
    BY <2>1, BoundsAssumption
  <2>5. Logs \cup {<<>>} \subseteq Seq(Points)
    BY <2>2
  <2> QED
    BY <2>1, <2>3, <2>4, <2>5
<1>2. ASSUME NEW log \in Logs \cup {<<>>}, Load(log)
      PROVE  /\ loads' \in 1 .. MaxLoads /\ loads' = loads + 1
             /\ mk_ex' \subseteq Points
             /\ \E new \in Seq(Points) : Added(log) = vec \o new
  <2>1. log \in Seq(Points)
    BY <1>1
  <2>2. ToSet(log) \subseteq Points
    BY <2>1, LenProperties, ElementOfSeq DEF ToSet
  <2>3. mk_ex' \subseteq Points
    BY <1>2, <2>2 DEF Load, Inv, TypeOK
  <2>4. \E new \in Seq(Points) : Added(log) = vec \o new
    BY <1>1, <2>1, AddedAppends
  <2>5. loads' = loads + 1 /\ loads < MaxLoads
    BY <1>2 DEF Load
  <2>6. loads' \in 1 .. MaxLoads
    BY <1>1, <2>5
  <2> QED
    BY <2>3, <2>4, <2>5, <2>6
<1>3. ASSUME NEW log \in Logs, AddData(log)
      PROVE  Inv' /\ Len(passes') >= Len(passes)
  <2>1. /\ Load(log) /\ vec' = Added(log)
        /\ UNCHANGED <<sorting, map, onmaps, markers, last_ex, passes, moves>>
    BY <1>3 DEF AddData
  <2>2. PICK new \in Seq(Points) : vec' = vec \o new
    BY <1>2, <2>1
  <2>3. vec' \in Seq(Points) /\ DOMAIN vec \subseteq DOMAIN vec'
    BY <1>1, <2>2, ConcatProperties, LenProperties
  <2>4. passes' \in Seq(Good(vec', onmaps'))
    BY <1>1, <2>1, <2>3, GoodGrows
  <2>5. Match(markers, onmaps, vec) => Match(markers', onmaps', vec')
    BY <1>1, <2>1, <2>2, MatchGrows
  <2>6. TypeOK'
    BY <1>2, <2>1, <2>3 DEF Inv, TypeOK, map
  <2>7. loads' \in 1 .. MaxLoads /\ loads' = loads + 1
    BY <1>2, <2>1
  <2> QED
    BY <1>1, <2>1, <2>4, <2>5, <2>6, <2>7 DEF Inv
<1>4. ASSUME NEW log \in Logs \cup {<<>>}, Load(log), SortByQuadKey(Added(log))
      PROVE  Inv' /\ Len(passes') >= Len(passes)
  <2>1. /\ sorting' = Added(log) /\ vec' = <<>> /\ onmaps' = {}
        /\ passes' = Touched(passes)
        /\ UNCHANGED <<map, markers, last_ex, moves>>
    BY <1>4 DEF SortByQuadKey
  <2>2. passes' \in Seq(Good(vec', onmaps')) /\ Len(passes') = Len(passes)
    BY <1>1, <2>1, TouchedGood
  <2>3. vec' \in Seq(Points) /\ onmaps' \subseteq DOMAIN vec'
    BY <2>1, EmptySeq
  <2>4. sorting' \in Seq(Points)
    BY <1>1, <1>2, <1>4, <2>1, ConcatProperties
  <2>5. TypeOK'
    BY <1>2, <1>4, <2>1, <2>2, <2>3, <2>4, GoodPasses DEF Inv, TypeOK, map
  <2>6. ASSUME loads' <= 1
        PROVE  Match(markers', onmaps', vec')
    <3>1. loads = 0
      BY <1>1, <1>2, <1>4, <2>6
    <3>2. vec = <<>> /\ Match(markers, onmaps, vec)
      BY <3>1 DEF Inv
    <3>3. OnMap(markers) = {}
      BY <3>2 DEF Match, Inv, TypeOK
    <3> QED
      BY <2>1, <3>2, <3>3 DEF Match
  <2>7. loads' \in 1 .. MaxLoads
    BY <1>2, <1>4
  <2> QED
    BY <1>1, <2>2, <2>5, <2>6, <2>7 DEF Inv
<1>5. ASSUME NEW log \in Logs \cup {<<>>}, NEW e \in Views,
             Load(log), vec' = Added(log), sorting' = sorting, ShowData(e)
      PROVE  Inv' /\ Len(passes') >= Len(passes)
  <2>1. PICK new \in Seq(Points) : vec' = vec \o new
    BY <1>2, <1>5
  <2>2. /\ loads' \in 1 .. MaxLoads /\ mk_ex' \subseteq Points
        /\ loads' <= 1 => loads <= 1
    BY <1>1, <1>2, <1>5
  <2> QED
    BY <1>1, <1>5, <2>1, <2>2, ShowDataGood
<1> QED
  BY <1>3, <1>4, <1>5 DEF EndBatch

LEMMA PurgeGood ==
    ASSUME Inv, RemoveAllMarkersFromMapAndPurgeData
    PROVE  Inv' /\ Len(passes') >= Len(passes)
<1>1. /\ User /\ markers' = <<>> /\ last_ex' = NoExtent
      /\ passes' = Touched(passes) /\ vec' = <<>> /\ mk_ex' = {} /\ onmaps' = {}
      /\ UNCHANGED <<sorting, loads, map>>
  BY DEF RemoveAllMarkersFromMapAndPurgeData, PurgeData
<1>2. /\ passes' \in Seq(Good(vec', onmaps')) /\ Len(passes') = Len(passes)
      /\ Len(passes) \in Nat
  BY <1>1, TouchedGood, LenProperties DEF Inv
<1>3. /\ vec' \in Seq(Points) /\ markers' \in Seq(Marker)
      /\ onmaps' \subseteq DOMAIN vec'
  BY <1>1, EmptySeq
<1>4. TypeOK'
  BY <1>1, <1>2, <1>3, GoodPasses, UserMoves DEF Inv, TypeOK, map
<1>5. Match(markers', onmaps', vec')
  BY <1>1, MatchNone
<1> QED
  BY <1>1, <1>2, <1>4, <1>5 DEF Inv

-----------------------------------------------------------------------------
(* All steps *)

\* The steps of the user that leave the data and draw anew, if at all.
LEMMA UserGood ==
    ASSUME Inv,
           \/ \E e \in Views : Move(e)
           \/ Idle \/ LeaveStreet \/ SetNewMarkerType
           \/ \E e \in Streets : ShowStreet(e)
    PROVE  Inv' /\ Len(passes') >= Len(passes)
<1>1. /\ TypeOK /\ passes \in Seq(Good(vec, onmaps)) /\ Len(passes) \in Nat
      /\ view \in Views
  BY LenProperties DEF Inv, TypeOK
<1>2. ASSUME NEW e \in Views, Move(e)
      PROVE  Inv' /\ Len(passes') >= Len(passes)
  <2>1. UNCHANGED data /\ UserTypes
    BY <1>1, <1>2, UserMoves DEF Move, UserTypes, TypeOK
  <2>2. DrawingGood /\ passes' = passes
    BY <1>1, <1>2 DEF Move, DrawingGood, TypeOK
  <2> QED
    BY <1>1, <2>1, <2>2, KeepsData
<1>3. CASE Idle
  <2>1. UNCHANGED data /\ UserTypes /\ Refresh(view)
    BY <1>1, <1>3 DEF Idle, UserTypes, TypeOK
  <2> QED
    BY <1>1, <2>1, RefreshGood, KeepsData
<1>4. CASE LeaveStreet
  <2>1. UNCHANGED data /\ UserTypes /\ Refresh(view)
    BY <1>1, <1>4, UserMoves DEF LeaveStreet, UserTypes, TypeOK
  <2> QED
    BY <1>1, <2>1, RefreshGood, KeepsData
<1>5. CASE SetNewMarkerType
  <2>1. UNCHANGED data /\ UserTypes
    BY <1>1, <1>5, UserMoves DEF SetNewMarkerType, UserTypes, TypeOK, map
  <2> QED
    BY <1>1, <1>5, <2>1, SetNewMarkerTypeGood, KeepsData
<1>6. ASSUME NEW e \in Streets, ShowStreet(e)
      PROVE  Inv' /\ Len(passes') >= Len(passes)
  <2>1. UNCHANGED data /\ UserTypes
    BY <1>1, <1>6, UserMoves DEF ShowStreet, UserTypes, TypeOK
  <2> QED
    BY <1>1, <1>6, <2>1, ShowStreetGood, KeepsData
<1> QED
  BY <1>2, <1>3, <1>4, <1>5, <1>6

LEMMA FrameGood ==
    ASSUME Inv, Frame
    PROVE  Inv'
<1>1. /\ TypeOK /\ passes \in Seq(Good(vec, onmaps)) /\ vec \in Seq(Points)
      /\ onmaps \subseteq DOMAIN vec
  BY DEF Inv, TypeOK
<1>2. CASE FrameDraw
  <2>1. /\ Pending("draw") /\ UNCHANGED <<data, map, moves>>
        /\ DrawUpTo(Head(passes), ToDraw(Head(passes)),
                    Stop(Head(passes), ToDraw(Head(passes))))
    BY <1>2 DEF FrameDraw
  <2>2. DrawingGood
    BY <1>1, <2>1, DrawUpToGood DEF DrawingGood
  <2>3. UNCHANGED data /\ UserTypes
    BY <1>1, <2>1 DEF UserTypes, TypeOK, map
  <2> QED
    BY <2>2, <2>3, KeepsData
<1>3. ASSUME FrameTimer \/ FrameDies
      PROVE  Inv'
  <2> DEFINE next == [Head(passes) EXCEPT !.frame = "draw"]
  <2>1. passes # <<>>
    BY <1>3 DEF FrameTimer, FrameDies, Pending
  <2>2. Head(passes) \in Good(vec, onmaps) /\ Tail(passes) \in Seq(Good(vec, onmaps))
    BY <1>1, <2>1, HeadTailProperties
  <2>3. next \in Good(vec, onmaps)
    <3>1. Head(passes) \in Pass
      BY <2>2 DEF Good
    <3>2. /\ next \in Pass /\ next.cs = Head(passes).cs
          /\ next.next = Head(passes).next /\ next.touched = Head(passes).touched
          /\ next.extent = Head(passes).extent /\ next.old = Head(passes).old
      BY <3>1 DEF Pass
    <3> HIDE DEF next
    <3>3. \A j \in DOMAIN next.cs : Covered(next, j) <=> Covered(Head(passes), j)
      BY <3>2 DEF Covered
    <3> QED
      BY <2>2, <3>2, <3>3 DEF Good
  <2>4. /\ passes' = Tail(passes) \/ passes' = Append(Tail(passes), next)
        /\ last_ex' = last_ex \/ last_ex' = NoExtent
        /\ UNCHANGED <<data, map, onmaps, markers, moves>>
    BY <1>3 DEF FrameTimer, FrameDies, Continue
  <2> HIDE DEF next
  <2>5. passes' \in Seq(Good(vec, onmaps))
    BY <2>2, <2>3, <2>4, AppendProperties
  <2>6. DrawingGood
    BY <1>1, <2>4, <2>5 DEF DrawingGood, TypeOK
  <2>7. UNCHANGED data /\ UserTypes
    BY <1>1, <2>4 DEF UserTypes, TypeOK, map
  <2> QED
    BY <2>6, <2>7, KeepsData
<1> QED
  BY <1>2, <1>3 DEF Frame

LEMMA InvInit == Init => Inv
<1> SUFFICES ASSUME Init PROVE Inv
  OBVIOUS
<1>1. <<>> \in Seq(Points) /\ <<>> \in Seq(Marker) /\ <<>> \in Seq(Pass)
      /\ <<>> \in Seq(Good(vec, onmaps))
  BY EmptySeq
<1>2. 0 \in 0 .. MaxLoads /\ 0 \in 0 .. MaxMoves
  BY BoundsAssumption
<1>3. TypeOK
  BY <1>1, <1>2 DEF Init, TypeOK
<1> QED
  BY <1>1, <1>3, MatchNone DEF Init, Inv

LEMMA InvNext == Inv /\ [Next]_vars => Inv'
<1> SUFFICES ASSUME Inv, [Next]_vars PROVE Inv'
  OBVIOUS
<1>1. CASE Frame
  BY <1>1, FrameGood
<1>2. CASE (\E e \in Views : Move(e)) \/ Idle \/ LeaveStreet \/ SetNewMarkerType
           \/ (\E e \in Streets : ShowStreet(e))
  BY <1>2, UserGood
<1>3. CASE \E e \in Views : Sorted(e)
  BY <1>3, SortedGood
<1>4. CASE RemoveAllMarkersFromMapAndPurgeData
  BY <1>4, PurgeGood
<1>5. CASE \/ \E log \in Logs : AddData(log)
           \/ \E log \in Logs \cup {<<>>}, e \in Views : EndBatch(log, e)
  BY <1>5, DataGood
<1>6. CASE UNCHANGED vars
  BY <1>6 DEF vars, data, map, Inv, TypeOK
<1> QED
  BY <1>1, <1>2, <1>3, <1>4, <1>5, <1>6 DEF Next

LEMMA Invariance == Spec => []Inv
<1> QED
  BY InvInit, InvNext, PTL DEF Spec

\* The state of the drawing code is well typed: in particular onmaps has an
\* element for every index it is looked up at.
THEOREM ViewerMapTypes == Spec => []TypeOK
<1>1. Inv => TypeOK
  BY DEF Inv
<1> QED
  BY <1>1, Invariance, PTL

\* While a single log was loaded, every marker stands at the point it is taken
\* for, none stands there twice, and onmaps tells which points have one: for
\* any log, any extents, and any number of passes that draw at the same time.
THEOREM MarkersMatchData == Spec => []MarkersMatch
<1>1. Inv => MarkersMatch
  BY DEF Inv, Match, MarkersMatch, IndexesCorrelate
<1> QED
  BY <1>1, Invariance, PTL

\* A pass that is reported as finished and under which nothing was removed has
\* drawn all but what is covered and the last two candidates.
THEOREM FinishedPassesAreDrawn == Spec => FinishedDrawn
<1> DEFINE Done(pass) ==
        Finishes(pass) /\ last_ex' = pass.extent =>
            \A k \in 1 .. Len(pass.cs) - 2 :
                pass.cs[k].idx \in onmaps' \/ Covered(pass, k)
<1>1. Inv /\ [Next]_vars => [\A pass \in ToSet(passes) : Done(pass)]_vars
  <2> SUFFICES ASSUME Inv, Next,
                      NEW pass, Finishes(pass), last_ex' = pass.extent,
                      NEW k \in 1 .. Len(pass.cs) - 2
               PROVE  pass.cs[k].idx \in onmaps' \/ Covered(pass, k)
    BY DEF Finishes
  <2>1. /\ passes # <<>> /\ pass = Head(passes) /\ pass.frame = "draw"
        /\ vec # <<>> /\ ~ pass.touched /\ passes' = Tail(passes)
        /\ passes \in Seq(Good(vec, onmaps))
    BY DEF Finishes, Pending, Inv
  <2>2. pass \in Good(vec, onmaps) /\ Len(passes') = Len(passes) - 1
        /\ Len(passes) \in Nat
    BY <2>1, HeadTailProperties, LenProperties
  <2>3. FrameDraw
    <3>1. ~ (Len(passes') >= Len(passes))
      BY <2>2
    <3>2. ~ FrameTimer /\ ~ FrameDies
      BY <2>1 DEF FrameTimer, FrameDies, Pending
    <3> QED
      BY <3>1, <3>2, UserGood, SortedGood, PurgeGood, DataGood DEF Next, Frame
  <2> DEFINE draw == ToDraw(pass)
             stop == Stop(pass, draw)
  <2>4. /\ pass \in Pass /\ pass.extent \in Views \cup Streets
        /\ pass.cs \in Seq(Candidate)
    BY <2>2 DEF Good, Pass
  <2>5. /\ stop \in Nat /\ Resume(pass, stop) \in Nat
        /\ Resume(pass, stop) <= stop
    BY <2>4, FrameLimits
  <2>6. DrawUpTo(pass, draw, stop)
    BY <2>1, <2>3 DEF FrameDraw
  <2>7. last_ex' # NoExtent
    <3>1. pass.extent \in Extent /\ pass.extent.z # 0
      BY <2>4, ViewsAssumption DEF Extent
    <3> QED
      BY <3>1 DEF NoExtent
  <2>8. Finished(pass, stop)
    <3>1. ASSUME NEW p, Continue(p)
          PROVE  passes' = Append(Tail(passes), p) \/ last_ex' = NoExtent
      BY <3>1 DEF Continue
    <3>2. Tail(passes) \in Seq(Good(vec, onmaps))
      BY <2>1, HeadTailProperties
    <3>3. \A p : Append(Tail(passes), p) # Tail(passes)
      BY <3>2, LenProperties
    <3> QED
      BY <2>1, <2>6, <2>7, <3>1, <3>3 DEF DrawUpTo
  <2>9. k \in DOMAIN pass.cs /\ k < stop
    <3>1. Len(pass.cs) \in Nat /\ DOMAIN pass.cs = 1 .. Len(pass.cs)
      BY <2>4, LenProperties
    <3>2. Resume(pass, stop) >= Len(pass.cs) - 1
      BY <2>8 DEF Finished
    <3> HIDE DEF stop
    <3> QED
      BY <2>5, <3>1, <3>2
  <2>10. onmaps' = onmaps \cup {pass.cs[j].idx : j \in {j \in draw : j < stop}}
    BY <2>6 DEF DrawUpTo, AddMarkersToMapForIdxAddList
  <2> QED
    BY <2>1, <2>2, <2>5, <2>9, <2>10, PastIsDrawn
<1> QED
  BY <1>1, Invariance, PTL DEF Spec, FinishedDrawn
=============================================================================
