------------------------------ MODULE LineChart ------------------------------
(***************************************************************************)
(* What a line chart shows of a channel: the window its zoom leaves        *)
(* visible, and the readings it draws there. A series is a sequence of     *)
(* [x, y], y being None in a gap.                                          *)
(***************************************************************************)
EXTENDS Integers, SequencesExt

CONSTANTS
  None,
  MAX_ZOOM,         \* how far past the whole domain one may zoom in
  DISPLAY_BUCKETS   \* the buckets a window is reduced to

ChartMax(a, b) == IF a > b THEN a ELSE b
ChartMin(a, b) == IF a < b THEN a ELSE b

-----------------------------------------------------------------------------
(* The x extent of all the series, None without a reading or an extent. *)
Domain(series) ==
  LET points == UNION {ToSet(series[i]) : i \in DOMAIN series}
      xs == {p.x : p \in points}
      span == Max(xs) - Min(xs)
  IN  IF (\A p \in points : p.y = None) \/ span <= 0 THEN None
      ELSE [min |-> Min(xs), span |-> span]

Fitted == [scale |-> 1, offset |-> 0]

ClampOffset(offset, domainSpan, visibleSpan) ==
  ChartMin(ChartMax(offset, 0), ChartMax(0, domainSpan - visibleSpan))

(* The stored zoom is clamped when it is read: the domain may have grown since. *)
Window(d, zoom) ==
  LET scale == ChartMax(1, zoom.scale)
      visible == d.span \div scale
      offset == ClampOffset(zoom.offset, d.span, visible)
  IN  [scale |-> scale, span |-> visible, offset |-> offset, left |-> d.min + offset]

(* A wheel at the fraction f[1] / f[2] of the plot; factor is a ratio. *)
Zoomed(d, zoom, f, factor) ==
  LET w == Window(d, zoom)
      cursor == w.offset + (f[1] * w.span) \div f[2]
      scale == ChartMin(MAX_ZOOM, ChartMax(1, (w.scale * factor[1]) \div factor[2]))
  IN  IF d = None \/ scale = w.scale THEN zoom
      ELSE [scale |-> scale, offset |-> cursor - (f[1] * (d.span \div scale)) \div f[2]]

(* A drag by the fraction f[1] / f[2] of the plot, stored unclamped. *)
Dragged(d, zoom, f) ==
  LET w == Window(d, zoom)
  IN  IF d = None THEN zoom
      ELSE [scale |-> w.scale, offset |-> w.offset - (f[1] * w.span) \div f[2]]

-----------------------------------------------------------------------------
(* The first and the last point for a window: one on either side of it, if there is. *)
Lo(points, xMin) == Min({i \in DOMAIN points : i = Len(points) \/ points[i + 1].x >= xMin})

Hi(points, lo, xMax) == Max({i \in lo..Len(points) : i = lo \/ points[i - 1].x <= xMax})

NoBucket == [first |-> 0, last |-> 0, lowest |-> 0, highest |-> 0]

Emit(out, i) == IF out # <<>> /\ Last(out) = i THEN out ELSE Append(out, i)

(* The first, lowest, highest and last reading of a bucket, in order and each once. *)
Flush(out, b) ==
  IF b.first = 0 THEN out
  ELSE FoldLeft(Emit, out, <<b.first, ChartMin(b.lowest, b.highest),
                             ChartMax(b.lowest, b.highest), b.last>>)

Gathered(points, b, i) ==
  [first |-> IF b.first = 0 THEN i ELSE b.first,
   last |-> i,
   lowest |-> IF b.lowest = 0 \/ points[i].y < points[b.lowest].y THEN i ELSE b.lowest,
   highest |-> IF b.highest = 0 \/ points[i].y > points[b.highest].y THEN i ELSE b.highest]

(* The readings either side of a gap go into one bucket, the gap before them. *)
ScanAcrossGaps(points, xMin, width, s, i) ==
  LET index == ((points[i].x - xMin) * DISPLAY_BUCKETS) \div width
  IN  IF points[i].y = None THEN [s EXCEPT !.out = Append(@, i)]
      ELSE IF index = s.bucket THEN [s EXCEPT !.b = Gathered(points, @, i)]
      ELSE [out |-> Flush(s.out, s.b), b |-> Gathered(points, NoBucket, i), bucket |-> index]

(* One point of the scan. A gap ends the bucket and is itself kept. *)
Scan(points, xMin, width, s, i) ==
  LET index == ((points[i].x - xMin) * DISPLAY_BUCKETS) \div width
  IN  IF points[i].y = None
      THEN [out |-> Append(Flush(s.out, s.b), i), b |-> NoBucket, bucket |-> None]
      ELSE IF index = s.bucket THEN [s EXCEPT !.b = Gathered(points, @, i)]
      ELSE [out |-> Flush(s.out, s.b), b |-> Gathered(points, NoBucket, i), bucket |-> index]

(* The indices of the points drawn for the window from xMin that is width wide. *)
ForDisplay(points, xMin, width) ==
  IF points = <<>> THEN <<>>
  ELSE LET lo == Lo(points, xMin)
           hi == Hi(points, lo, xMin + width)
           shown == [i \in 1..(hi - lo + 1) |-> lo + i - 1]
           end == FoldLeft(LAMBDA s, i : Scan(points, xMin, width, s, i),
                           [out |-> <<>>, b |-> NoBucket, bucket |-> None], shown)
       IN  IF width <= 0 THEN shown ELSE Flush(end.out, end.b)

(* The strokes of a path: pairs of indices with a line between them. *)
PathFor(points, drawn) ==
  {<<drawn[k], drawn[k + 1]>> : k \in {k \in 1..(Len(drawn) - 1) :
     points[drawn[k]].y # None /\ points[drawn[k + 1]].y # None}}

-----------------------------------------------------------------------------
(* What is drawn for a window runs left to right without repeating a reading; no     *)
(* stroke spans a gap; of each stretch of readings that share a bucket both extremes *)
(* are drawn, so a spike survives; and of a bucket no more than four readings are    *)
(* drawn between two gaps.                                                           *)
ChartIsFaithful(points, zoom) ==
  LET d == Domain(<<points>>)
      w == Window(d, zoom)
      drawn == ForDisplay(points, w.left, w.span)
      bucket(i) == ((points[i].x - w.left) * DISPLAY_BUCKETS) \div w.span
      inside == {i \in DOMAIN points : points[i].y # None /\ points[i].x \in w.left..(w.left + w.span)}
      unbroken(i, j) == \A k \in i..j : points[k].y # None
      mates(i) == {j \in inside : bucket(j) = bucket(i)
                     /\ unbroken(ChartMin(i, j), ChartMax(i, j))}
  IN  d # None =>
        /\ \A k \in 1..(Len(drawn) - 1) : drawn[k] < drawn[k + 1]
        /\ \A s \in PathFor(points, drawn) : unbroken(s[1], s[2])
        /\ \A i \in inside :
             /\ \E j \in mates(i) \cap ToSet(drawn) : points[j].y <= points[i].y
             /\ \E j \in mates(i) \cap ToSet(drawn) : points[j].y >= points[i].y
             /\ Cardinality(mates(i) \cap ToSet(drawn)) <= 4

(* Zooming in leaves the reading under the cursor where it is and the window within  *)
(* the domain, wherever a drag, or the domain's growth since, left the stored offset. *)
ZoomHoldsCursor(d, zoom, f) ==
  LET w == Window(d, zoom)
      v == Window(d, Zoomed(d, zoom, f, <<2, 1>>))
  IN  /\ v.offset \in 0..(d.span - v.span)
      /\ v.offset + (f[1] * v.span) \div f[2] = w.offset + (f[1] * w.span) \div f[2]
=============================================================================
