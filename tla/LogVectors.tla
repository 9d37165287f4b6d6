----------------------------- MODULE LogVectors -----------------------------
(***************************************************************************)
(* What the web workers of the bGeigie log viewer compute                  *)
(* (app/assets/javascripts/bgeigie_viewer_worker.js): the points of a log  *)
(* with the zoom levels they are shown at, the points of a further log     *)
(* that those on the map do not hide, and the order of the points.         *)
(*                                                                         *)
(* Coordinates have one dimension here instead of two that are treated     *)
(* alike.  MaxZoom is 21 in the code and TileBits is 8: a tile has         *)
(* 2^TileBits pixels, and the world 2^TileBits * 2^z pixels at zoom z.     *)
(*                                                                         *)
(* A loop is a recursive function of the number of rounds: what it has     *)
(* made of the variables that it changes.                                  *)
(***************************************************************************)
EXTENDS Integers, Sequences, FiniteSets, SequencesExt, Ordering

CONSTANTS
    MaxZoom,   \* the deepest zoom level, at which coordinates are kept
    TileBits,  \* the binary logarithm of the size of a tile
    NaN,       \* what a number reads as that cannot be read
    Lines,     \* lines of log files
    Files,     \* Files[n]: the files that may be loaded as the n-th
    DeadTime,  \* DeadTime[c]: counts per minute for c counts in five seconds
    HighFor,   \* how many samples a high count counts, 12
    VastAt,    \* points from which on logs are not compared, 90000
    BitmapAt,  \* the size of a comparison that gets a bitmap first, 50000
    Origin,    \* the pixels around (0,0) that are cleared in that bitmap
    MaxPasses  \* bound on the passes over the rows of a file

Zooms == 0 .. MaxZoom
World == 0 .. 2^(TileBits + MaxZoom) - 1

\* A line of a log: the number of its columns, without the header that some
\* firmware prints on the same line; its position; and its counts, which are
\* NaN if the column is empty or holds no number.
OffMap == -1      \* a position, but none that is on the map
NoPosition == -2  \* nothing in the columns
Line == [cols: Nat, x: World \cup {OffMap, NoPosition},
         cpm: Nat \cup {NaN}, cp5s: Nat \cup {NaN}]

ASSUME SizesAssumption ==
    /\ MaxZoom \in Nat \ {0} /\ TileBits \in Nat \ {0}
    /\ HighFor \in Nat /\ BitmapAt \in Nat /\ VastAt \in Nat
    /\ Origin \subseteq 0 .. 2^TileBits - 1
    /\ MaxPasses \in Nat /\ MaxPasses >= 2
ASSUME NaNAssumption == NaN \notin Int
\* The corrected count turns negative where the correction has its pole.
ASSUME FilesAssumption ==
    /\ Lines \subseteq Line
    /\ Files \in Seq(SUBSET Seq(Lines))
    /\ DeadTime \in [{line.cp5s : line \in Lines} \ {NaN} -> Int]

VARIABLES
    lines,   \* the file that was parsed last
    parsed,  \* the points of it
    vec,     \* the points on the page (MKS)
    litcpms, \* whether MKS has the columns of a single log
    oldtile, \* the bits of the bitmap of the worker
    last_n,  \* oldtile_last_n
    files,   \* files loaded so far
    owed,    \* not in the code: the points of logs so far, see Owes
    step     \* what happened last

vars == <<lines, parsed, vec, litcpms, oldtile, last_n, files, owed, step>>

\* A point: its position, its value, and from which zoom on it is shown, -1
\* as long as that is not assigned.
Row == [x: World, cpm: Int \cup {NaN}, minz: Zooms \cup {-1}]

\* a > b, which is false if either is no number
Higher(a, b) == a # NaN /\ b # NaN /\ a > b

-----------------------------------------------------------------------------
(* Cells and tiles *)

\* x >>> z_diff: a cell has 4 pixels at zoom 2 and up, 2 at 1 and 1 at 0.
Shift(z) == (MaxZoom - z) + (IF z > 0 THEN 1 ELSE 0) + (IF z > 1 THEN 1 ELSE 0)

Cell(x, z) == x \div 2^Shift(z)

Tile(x, z) == x \div 2^(TileBits + MaxZoom - z)

-----------------------------------------------------------------------------
(* ParseLogFileToVectors: the lines *)

HasPosition(line) == line.cols > 13 /\ line.x # NoPosition

\* The count of five seconds replaces the slower one for some samples after a
\* high count, and at the start of the file; high is samples since then.  It
\* alone is corrected for the dead time of the tube.
Value(line, high) ==
    LET fast == line.cp5s * 12
    IN  IF /\ line.cp5s # NaN /\ fast > 0
           /\ \/ /\ Higher(line.cpm, 100)
                 /\ fast * 10 > line.cpm /\ fast < line.cpm * 10
              \/ high <= HighFor
        THEN DeadTime[line.cp5s] ELSE line.cpm

ReadLine(acc, line) ==
    LET high == IF Higher(line.cpm, 100) THEN 0 ELSE acc.high + 1
        row == [x |-> line.x, cpm |-> Value(line, high), minz |-> -1]
    IN  IF ~ HasPosition(line) THEN acc
        ELSE [high |-> high,
              rows |-> IF line.x = OffMap THEN acc.rows
                       ELSE Append(acc.rows, row)]

ReadLines(file) ==
    LET after[n \in 0 .. Len(file)] ==
            IF n = 0 THEN [high |-> 0, rows |-> <<>>]
            ELSE ReadLine(after[n - 1], file[n])
    IN  after[Len(file)].rows

-----------------------------------------------------------------------------
(* AssignScaleVisibilityToVecs.  A state of the loops: the rows, the slots  *)
(* (dest_is, the row that stands for each), and did_replace.                *)

\* The first slot in the cell of x at zoom z, 0 if there is none.
SlotFor(s, x, z) ==
    SelectInSeq(s.slots, LAMBDA j : Cell(s.rows[j].x, z) = Cell(x, z))

\* Fault: the row that is replaced keeps its zoom.
fault_two_in_a_cell(s, i, z) ==
    LET k == SlotFor(s, s.rows[i].x, z)
    IN  IF s.rows[i].minz # -1 THEN s
        ELSE IF k = 0
        THEN [s EXCEPT !.rows[i].minz = z, !.slots = Append(@, i)]
        ELSE IF Higher(s.rows[i].cpm, s.rows[s.slots[k]].cpm)
        THEN [s EXCEPT !.rows[i].minz = z, !.slots[k] = i, !.replaced = TRUE]
        ELSE s

\* Row i at zoom z: it takes a free cell, or replaces a lower value.  Nothing
\* replaces what is no number.
AssignRow(s, i, z) ==
    LET k == SlotFor(s, s.rows[i].x, z)
    IN  IF s.rows[i].minz # -1 THEN s
        ELSE IF k = 0
        THEN [s EXCEPT !.rows[i].minz = z, !.slots = Append(@, i)]
        ELSE IF Higher(s.rows[i].cpm, s.rows[s.slots[k]].cpm)
        THEN [s EXCEPT !.rows[s.slots[k]].minz = -1, !.rows[i].minz = z,
                       !.slots[k] = i, !.replaced = TRUE]
        ELSE s

AssignZoom(s, z) ==
    LET after[i \in 0 .. Len(s.rows)] ==
            IF i = 0 THEN s ELSE AssignRow(after[i - 1], i, z)
    IN  after[Len(s.rows)]

AssignPass(s) ==
    LET after[n \in 0 .. MaxZoom + 1] ==
            IF n = 0 THEN [s EXCEPT !.replaced = FALSE]
            ELSE AssignZoom(after[n - 1], n - 1)
    IN  after[MaxZoom + 1]

\* Passes until one replaces nothing.  MaxPasses bounds them.
AssignScaleVisibilityToVecs(rows) ==
    LET after[p \in 0 .. MaxPasses] ==
            IF p = 0 THEN [rows |-> rows, slots |-> <<>>, replaced |-> TRUE]
            ELSE AssignPass(after[p - 1])
        over == {p \in 0 .. MaxPasses : ~ after[p].replaced}
    IN  after[Min(over)].rows

Assigned(rows) == Pick(rows, {i \in DOMAIN rows : rows[i].minz # -1})

\* Fault: what no zoom shows is sent as well.
fault_send_unassigned(file) == AssignScaleVisibilityToVecs(ReadLines(file))

\* Rows that no zoom shows are left out, but only if some line was no row.
ParsedRows(file) ==
    LET rows == AssignScaleVisibilityToVecs(ReadLines(file))
    IN  IF Len(rows) = Len(file) THEN rows ELSE Assigned(rows)

-----------------------------------------------------------------------------
(* PrefilterVecs *)

\* One step of "if (x < min) min = x; else if (x > max) max = x;", for what
\* is not in the middle of the world.
Widen(e, x) ==
    IF x = 2^(TileBits + MaxZoom - 1) THEN e
    ELSE IF x < e.lo THEN [e EXCEPT !.lo = x]
    ELSE IF x > e.hi THEN [e EXCEPT !.hi = x] ELSE e

Extent(rows) ==
    FoldLeft(LAMBDA e, p : Widen(e, p.x),
             [lo |-> 2^(TileBits + MaxZoom), hi |-> 0], rows)

OldExtent(old) == Extent(Pick(old, {j \in DOMAIN old : old[j].minz = 0}))

IsInExtent(new, old) ==
    /\ old # <<>>
    /\ Extent(new).hi >= OldExtent(old).lo /\ Extent(new).lo <= OldExtent(old).hi

\* One bit is a pixel of the world at zoom 0.
Pixel(x) == x \div 2^MaxZoom

\* The old points that the worker has not seen yet set the bits of those that
\* are shown at every zoom.
Bitmap(old) ==
    LET unseen == {j \in last_n + 1 .. Len(old) : old[j].minz < 1}
    IN  (oldtile \cup {Pixel(old[j].x) : j \in unseen}) \ Origin

\* c * 1872 / d, cut off towards zero: 0.18724571 c for d = 10000.
Scaled(c, d) == IF c < 0 THEN -((-c * 1872) \div d) ELSE (c * 1872) \div d

\* Values are compared as uint16_t: old ones wrap around, and new ones are
\* scaled to a tenth of that.  What is no number is 0 among the old ones, and
\* among the new ones less than nothing.
OldValue(c) == IF c = NaN THEN 0 ELSE Scaled(c, 10000) % 2^16

IsDimmer(c, old) == c # NaN /\ Scaled(c, 100000) < OldValue(old)

Hides(q, p) ==
    /\ q.minz = p.minz /\ Cell(q.x, p.minz) = Cell(p.x, p.minz)
    /\ IsDimmer(p.cpm, q.cpm)

\* Fault: whatever is there hides a point.
fault_hide_maxima(p, old, e) ==
    \E j \in DOMAIN old : Cell(old[j].x, p.minz) = Cell(p.x, p.minz)

Hidden(p, old, e) ==
    /\ e.lo <= p.x /\ p.x <= e.hi
    /\ \E j \in DOMAIN old : Hides(old[j], p)

WithBitmap(new, old) ==
    IsInExtent(new, old) /\ Len(new) * Len(old) > BitmapAt

\* The points of new that are added.  With a bitmap, only those are compared
\* whose bit is set; rows without a zoom get lost in a comparison.
Kept(new, old) ==
    LET flagged(p) == WithBitmap(new, old) => Pixel(p.x) \in Bitmap(old)
        compared == IsInExtent(new, old) /\ \E i \in DOMAIN new : flagged(new[i])
        e == OldExtent(old)
    IN  IF ~ compared THEN new
        ELSE Pick(new, {i \in DOMAIN new :
                 /\ new[i].minz # -1
                 /\ ~ (flagged(new[i]) /\ Hidden(new[i], old, e))})

-----------------------------------------------------------------------------
(* SortByQuadKey *)

\* Fault: by length first.
fault_short_keys_first(p, q) ==
    \/ p.minz < q.minz
    \/ p.minz = q.minz /\ Tile(p.x, p.minz) < Tile(q.x, q.minz)

\* A quadkey names the tile at the zoom that is its length, digit by digit: of
\* two keys one is a prefix of the other, and smaller, or they differ in the
\* tile at the length of the shorter one.
KeyBefore(p, q) ==
    LET z == IF p.minz < q.minz THEN p.minz ELSE q.minz
    IN  \/ Tile(p.x, z) < Tile(q.x, z)
        \/ Tile(p.x, z) = Tile(q.x, z) /\ p.minz < q.minz

\* The sort is stable.
ByQuadKey(v) ==
    LET order == {p \in (DOMAIN v) \X (DOMAIN v) :
                      \/ KeyBefore(v[p[1]], v[p[2]])
                      \/ ~ KeyBefore(v[p[2]], v[p[1]]) /\ p[1] < p[2]}
        at == InOrder(DOMAIN v, order)
    IN  [n \in DOMAIN v |-> v[at[n]]]

-----------------------------------------------------------------------------
(* Actions: one log after the other gets to the page. *)

ParseLogFileToVectors(file) ==
    /\ step # "parsed" /\ step' = "parsed"
    /\ files' = files + 1
    /\ lines' = file
    /\ parsed' = ParsedRows(file)
    /\ UNCHANGED <<vec, litcpms, oldtile, last_n, owed>>

\* The points of the log that the page has to show: all of them, unless AddData
\* drops the only one that is to be added.
Owes(rows) == IF Len(rows) = 1 THEN {} ELSE ToSet(ReadLines(lines))

\* MKS.AddData: a single point is not worth adding, and the columns of a single
\* log are there only for the first one.
AddData(rows) ==
    /\ step = "parsed" /\ step' = "merged"
    /\ vec' = IF Len(rows) < 2 THEN vec ELSE vec \o rows
    /\ litcpms' = IF Len(rows) < 2 THEN litcpms ELSE vec = <<>>
    /\ owed' = owed \cup Owes(rows)
    /\ UNCHANGED <<lines, parsed, files>>

\* The first log of the page is added as it is, and so is one that finds the
\* columns of a single log, or too many points.
Direct == vec = <<>> \/ litcpms \/ Len(vec) > VastAt

AddDirect ==
    /\ Direct
    /\ AddData(parsed)
    /\ UNCHANGED <<oldtile, last_n>>

PrefilterVecs ==
    /\ ~ Direct
    /\ AddData(Kept(parsed, vec))
    /\ IF WithBitmap(parsed, vec)
       THEN oldtile' = Bitmap(vec) /\ last_n' = Len(vec)
       ELSE UNCHANGED <<oldtile, last_n>>

\* A row without a zoom, -1 >>> 0, keeps the worker busy for ever.  The page
\* then starts its workers anew.
SortByQuadKey ==
    /\ step = "merged" /\ step' = "sorted"
    /\ vec # <<>> /\ \A i \in DOMAIN vec : vec[i].minz # -1
    /\ vec' = ByQuadKey(vec)
    /\ oldtile' = {} /\ last_n' = 0
    /\ UNCHANGED <<lines, parsed, litcpms, files, owed>>

Init ==
    /\ lines = <<>> /\ parsed = <<>> /\ vec = <<>> /\ litcpms = FALSE
    /\ oldtile = {} /\ last_n = 0
    /\ files = 0 /\ owed = {} /\ step = "sorted"

Next ==
    \/ /\ files < Len(Files)
       /\ \E file \in Files[files + 1] : ParseLogFileToVectors(file)
    \/ AddDirect
    \/ PrefilterVecs
    \/ SortByQuadKey

Spec == Init /\ [][Next]_vars

-----------------------------------------------------------------------------
(* Properties *)

\* The types.  Of a file that has at least one line which is no point, and
\* every file ends in an empty one, each point that is sent has a zoom.
TypeOK ==
    /\ lines \in Seq(Lines)
    /\ parsed \in Seq(Row) /\ vec \in Seq(Row)
    /\ (\E i \in DOMAIN lines : lines[i].x \in {OffMap, NoPosition}) =>
           \A i \in DOMAIN parsed : parsed[i].minz # -1
    /\ oldtile \subseteq 0 .. 2^TileBits - 1
    /\ last_n \in 0 .. Len(vec)
    /\ files \in 0 .. Len(Files)
    /\ owed \subseteq Row /\ litcpms \in BOOLEAN
    /\ step \in {"parsed", "merged", "sorted"}

\* At every zoom, every point of a log has exactly one point of the log shown
\* in its cell, and no point there has a higher value: so a map that shows one
\* point in 4 by 4 pixels shows the maxima of the log.  But if the point that
\* is shown has no number for a value, then no other counts as higher, and the
\* maximum of the cell is not to be seen.
ShowsMaxima ==
    \A z \in Zooms : \A i \in DOMAIN ReadLines(lines) :
        LET point == ReadLines(lines)[i]
            shown == {k \in DOMAIN parsed :
                         /\ parsed[k].minz \in 0 .. z
                         /\ Cell(parsed[k].x, z) = Cell(point.x, z)}
        IN  /\ Cardinality(shown) = 1
            /\ \A k \in shown : ~ Higher(point.cpm, parsed[k].cpm)

\* Whatever logs are added, compared and sorted: a page that is looked at from
\* zoom z shows, for each point of each of them, a point that has come up at z
\* or before and shares its cell at the zoom where it came up.  That one has
\* no lower value, or is no number, or it is higher than the tenth part of that
\* of the point as the workers compare them, old ones wrapped around.
\* (At z itself the two need not share a cell any more.)
ShowsEveryLog ==
    \A p \in owed : \A z \in Zooms : \E q \in ToSet(vec) :
        /\ q.minz \in 0 .. z
        /\ Cell(q.x, q.minz) = Cell(p.x, q.minz)
        /\ ~ Higher(p.cpm, q.cpm) \/ IsDimmer(p.cpm, q.cpm)

Count(row, s) == Cardinality({i \in DOMAIN s : s[i] = row})

\* Sorting permutes the points, and brings together those of each tile which
\* come up at its zoom or later, at every zoom.
SortGroupsTiles ==
    [][step' = "sorted" =>
        /\ \A row \in ToSet(vec) \cup ToSet(vec') :
              Count(row, vec) = Count(row, vec')
        /\ \A z \in Zooms, i, k \in DOMAIN vec' :
              LET within(j) == /\ vec'[j].minz >= z
                               /\ Tile(vec'[j].x, z) = Tile(vec'[i].x, z)
              IN  within(i) /\ within(k) => \A j \in i .. k : within(j)]_vars

=============================================================================
