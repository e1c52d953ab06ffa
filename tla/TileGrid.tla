------------------------------- MODULE TileGrid -------------------------------
(***************************************************************************)
(* The geometry of the screen: the tiles of types.h, the grid of scroll    *)
(* regions detect_scroll lays over the screen (draw/scroll.c), the         *)
(* rectangles of a scrolled region (compute_scroll_rects), the tiles a     *)
(* damage rectangle dirties (wayland/output.c) and the search of the       *)
(* correlation's peak (draw/phase_correlate.c).  Each is the same along x  *)
(* and y, so the operators are about one axis: an interval [lo, hi) of     *)
(* pixels on an axis of `extent' pixels.                                   *)
(* An operator that neither another one nor ScrollDetectionProofs uses is  *)
(* a slip of the one below it (README, Slips).                             *)
(***************************************************************************)
EXTENDS Integers, Sequences

CONSTANTS
    TILE_SIZE,            \* 16 in the code
    CellSize,             \* 256: a screen has extent \div 256 cells per axis
    MinRegion,            \* 64: smaller regions are not correlated
    FFT_SIZE,             \* 256
    MAX_SCROLL_REGIONS    \* 128: the places of server.scroll_regions

ASSUME GridAssumption ==
    /\ TILE_SIZE \in Nat \ {0} /\ CellSize \in Nat \ {0}
    /\ MinRegion \in Nat \ {0} /\ FFT_SIZE \in Nat \ {0}
    /\ MAX_SCROLL_REGIONS \in Nat

Least(a, b) == IF a < b THEN a ELSE b
Abs(n) == IF n < 0 THEN -n ELSE n
Down(n) == (n \div TILE_SIZE) * TILE_SIZE
Up(n) == Down(n + TILE_SIZE - 1)

-----------------------------------------------------------------------------
(* Tiles. *)

(* tiles_x, tiles_y: rounded down, whatever the width asked for. *)
TileCount(extent) == extent \div TILE_SIZE

TileLo(t) == t * TILE_SIZE
TileHi(t, extent) == Least(TileLo(t) + TILE_SIZE, extent)

(* The tiles output_frame marks for the damage [lo, hi). *)
DirtySpan(lo, hi, extent) ==
    lo \div TILE_SIZE .. Least(TileCount(extent), (hi + TILE_SIZE - 1) \div TILE_SIZE) - 1

-----------------------------------------------------------------------------
(* The grid of detect_scroll. *)

Cells(extent) == IF extent \div CellSize > 0 THEN extent \div CellSize ELSE 1

CellExtent(extent) ==
    LET e == Down((extent - 2 * TILE_SIZE) \div Cells(extent))
    IN IF e < TILE_SIZE THEN TILE_SIZE ELSE e

CellLo(i, extent) == Down(TILE_SIZE + i * CellExtent(extent))

CellHiOverlapping(i, extent) ==
    Least(IF i = Cells(extent) - 1 THEN Down(extent - TILE_SIZE)
          ELSE Up(CellLo(i, extent) + CellExtent(extent) + 1),
          Down(extent))

CellHi(i, extent) ==
    Least(IF i = Cells(extent) - 1 THEN Down(extent - TILE_SIZE)
          ELSE Up(CellLo(i, extent) + CellExtent(extent)),
          Down(extent))

Region(screen, i, j) ==
    [x1 |-> CellLo(i, screen.w), x2 |-> CellHi(i, screen.w),
     y1 |-> CellLo(j, screen.h), y2 |-> CellHi(j, screen.h),
     detected |-> FALSE, dx |-> 0, dy |-> 0]

LargeEnough(r) == r.x2 - r.x1 >= MinRegion /\ r.y2 - r.y1 >= MinRegion

(* The cells in the order of the loops, row by row. *)
CellCount(screen) == Cells(screen.w) * Cells(screen.h)

Cell(screen, k) ==
    Region(screen, (k - 1) % Cells(screen.w), (k - 1) \div Cells(screen.w))

(* scroll_regions after the first k cells; Len is num_scroll_regions. *)
Laid(screen) ==
    LET laid[k \in 0..CellCount(screen)] ==
            IF k = 0 THEN <<>>
            ELSE IF LargeEnough(Cell(screen, k)) THEN Append(laid[k - 1], Cell(screen, k))
            ELSE laid[k - 1]
    IN laid

Grid(screen) == Laid(screen)[CellCount(screen)]

-----------------------------------------------------------------------------
(* compute_scroll_rects: where the pixels of [lo, hi) that stay in it come
   from and go to when the content moves by d, and the tiles it uncovers. *)

SrcLo(lo, d) == IF d < 0 THEN lo - d ELSE lo
DstLo(lo, d) == IF d > 0 THEN lo + d ELSE lo
DstHi(hi, d) == IF d < 0 THEN hi + d ELSE hi
SrcHi(hi, d) == IF d > 0 THEN hi - d ELSE hi

Exposed(lo, hi, d) ==
    IF d < 0 THEN Down(DstHi(hi, d))..hi - 1
    ELSE IF d > 0 THEN lo..Up(DstLo(lo, d)) - 1
    ELSE {}

-----------------------------------------------------------------------------
(* The search of phase_correlate_detect. *)

MaxShift(r) == LET m == Least((r.x2 - r.x1) \div 2, (r.y2 - r.y1) \div 2)
               IN IF m < 1 THEN 1 ELSE m

(* The place of the correlation surface that stands for the shift d. *)
PeakCell(d) == (d + FFT_SIZE) % FFT_SIZE

(* The shifts find_correlation_peak can report: of those that share a place,
   the first one it visits. *)
Reported(max_shift) ==
    {d \in -max_shift..max_shift :
        \A e \in -max_shift..d - 1 : PeakCell(e) # PeakCell(d)}

(* detect_region_scroll's own limits on what was reported. *)
Acceptable(r, dx, dy) == /\ dx # 0 \/ dy # 0
                         /\ Abs(dx) < (r.x2 - r.x1) \div 2
                         /\ Abs(dy) < (r.y2 - r.y1) \div 2
=============================================================================
