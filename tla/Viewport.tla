------------------------------- MODULE Viewport -------------------------------
(***************************************************************************)
(* Pan, pinch and wheel zoom over a fitted canvas view: the state of       *)
(* createCanvasViewport and the arithmetic of canvas-viewport.ts, along    *)
(* one axis (the other is computed alike).                                 *)
(*                                                                         *)
(* A view maps the world point p to the screen point scale * p + x. Where  *)
(* the code has floating-point numbers both are exact fractions here, over *)
(* one denominator.                                                        *)
(***************************************************************************)
EXTENDS Integers, SequencesExt

CONSTANTS
  Pointer,        \* pointerIds
  Place,          \* where on the screen a pointer may be
  Frame,          \* what may be there to frame: [min, max, minSpan], or None
  Width,          \* what the container may measure
  MaxZoom,        \* options.maxZoomMultiplier
  None,
  MaxGestures     \* bound on the events

View == [scale : Nat \ {0}, x : Int, den : Nat \ {0}]   \* (scale * p + x) / den

(* The screen is measured in half pixels, so that the middle of two places is one as well. *)
ViewportAssumption ==
  /\ None \notin Frame \cup View
  /\ \A p \in Place : p \in Int /\ p % 2 = 0
  /\ Frame \subseteq [min : Int, max : Int, minSpan : Nat \ {0}]
  /\ Width \subseteq Nat /\ MaxZoom \in Nat \ {0}

VARIABLES
  frame,          \* options.fitTo()
  containerSize,
  userTransform,  \* the view a gesture made, or None: follow the fit
  activePointers, \* the pointers down, [id, at], in the order of a Map
  previousPinch,  \* [distance, mid] of the first two, or None
  isDragging,
  gestures

pointing == <<activePointers, previousPinch, isDragging>>
vars == <<frame, containerSize, userTransform, pointing, gestures>>

Larger(a, b) == IF a > b THEN a ELSE b
Abs(i) == IF i < 0 THEN 0 - i ELSE i

-----------------------------------------------------------------------------
(* A view written with a smaller denominator, if it has one. *)
Reduced(v) ==
  LET den == CHOOSE d \in 1 .. v.den : (v.scale * d) % v.den = 0 /\ (v.x * d) % v.den = 0
  IN  [scale |-> (v.scale * den) \div v.den, x |-> (v.x * den) \div v.den, den |-> den]

(* Fractions <<n, d>>, which Math.min and Math.max compare. *)
AtMost(q, r) == q[1] * r[2] <= r[1] * q[2]
Greater(q, r) == IF AtMost(q, r) THEN r ELSE q
Lesser(q, r) == IF AtMost(q, r) THEN q ELSE r
Clamped(q, limits) == Lesser(limits.max, Greater(limits.min, q))

-----------------------------------------------------------------------------
(* canvas-viewport.ts. The margin is half the content on either side. *)

Identity == [scale |-> 1, x |-> 0, den |-> 1]

(* The scale is width over twice the content, and the middle goes to the middle. *)
FitTransform(bounds, width) ==
  LET content == Larger(bounds.max - bounds.min, bounds.minSpan)
  IN  IF width <= 0 THEN Identity
      ELSE Reduced([ scale |-> 2 * width, den |-> 4 * content,
                     x |-> width * (2 * content - (bounds.min + bounds.max)) ])

(* The scale a zoom by `factor`, a fraction as well, would give. *)
Asked(t, factor) == <<t.scale * factor[1], t.den * factor[2]>>

(* Mutated form: the way to the cursor grows as was asked, not as was allowed. *)
ZoomAtUnclamped(t, at, factor, limits) ==
  LET asked == Asked(t, factor)
      new == Clamped(asked, limits)
      den == new[2] * asked[2] * t.scale
  IN  Reduced([ scale |-> new[1] * asked[2] * t.scale, den |-> den,
                x |-> at * den - (at * t.den - t.x) * asked[1] * new[2] ])

(* zoomAt: the factor applied is that of the clamped scale. *)
ZoomAt(t, at, factor, limits) ==
  LET new == Clamped(Asked(t, factor), limits)
  IN  Reduced([ scale |-> new[1] * t.scale, den |-> new[2] * t.scale,
                x |-> at * new[2] * t.scale - (at * t.den - t.x) * new[1] ])

Pan(t, d) == [t EXCEPT !.x = @ + d * t.den]

(* transformsDiffer *)
Differ(t, u) == t.scale * u.den # u.scale * t.den \/ t.x * u.den # u.x * t.den

(* A notch of the wheel, whatever unit the browser counts in: only its sign is kept. *)
WheelZoomFactor(delta) == IF delta > 0 THEN <<1, 2>> ELSE IF delta < 0 THEN <<2, 1>> ELSE <<1, 1>>

-----------------------------------------------------------------------------
(* The computed signals. *)

Fit == IF frame = None THEN Identity ELSE FitTransform(frame, containerSize)

Transform == IF userTransform = None THEN Fit ELSE userTransform

ZoomLimits == [min |-> <<Fit.scale, Fit.den>>, max |-> <<Fit.scale * MaxZoom, Fit.den>>]

PinchState(pointers) ==
  IF Len(pointers) < 2 THEN None
  ELSE [distance |-> Abs(pointers[2].at - pointers[1].at),
        mid |-> (pointers[1].at + pointers[2].at) \div 2]

-----------------------------------------------------------------------------
Init ==
  /\ frame \in Frame \cup {None}
  /\ containerSize = 0
  /\ userTransform = None
  /\ activePointers = <<>> /\ previousPinch = None /\ isDragging = FALSE
  /\ gestures = 0

Gesture == gestures < MaxGestures /\ gestures' = gestures + 1

(* The ResizeObserver reports, or what is drawn changes: the fit follows, an override stays. *)
Refit(f, w) ==
  /\ frame' = f /\ containerSize' = w
  /\ UNCHANGED <<userTransform, pointing>>

(* resetView, or another resetKey. *)
ResetView ==
  /\ userTransform' = None
  /\ UNCHANGED <<frame, containerSize, pointing>>

OnWheel(at, delta) ==
  LET zoomed == ZoomAt(Transform, at, WheelZoomFactor(delta), ZoomLimits)
  IN  /\ userTransform' = IF Differ(Transform, zoomed) THEN zoomed ELSE userTransform
      /\ UNCHANGED <<frame, containerSize, pointing>>

Down == {activePointers[i].id : i \in DOMAIN activePointers}
PlaceOf(p) == CHOOSE i \in DOMAIN activePointers : activePointers[i].id = p

OnPointerDown(p, at) ==
  /\ p \notin Down
  /\ activePointers' = Append(activePointers, [id |-> p, at |-> at])
  /\ previousPinch' = PinchState(activePointers')
  /\ isDragging' = TRUE
  /\ UNCHANGED <<frame, containerSize, userTransform>>

(* Map.set of a key that is there keeps its place. *)
MovedTo(p, at) ==
  [i \in DOMAIN activePointers |->
     IF activePointers[i].id = p THEN [id |-> p, at |-> at] ELSE activePointers[i]]

(* Two pointers: zoom about where their middle is now, then follow the middle. *)
Pinched(before, after) ==
  LET factor == IF before.distance > 0 THEN <<after.distance, before.distance>> ELSE <<1, 1>>
  IN  Pan(ZoomAt(Transform, after.mid, factor, ZoomLimits), after.mid - before.mid)

OnPointerMove(p, at) ==
  LET after == PinchState(activePointers')
      was == activePointers[PlaceOf(p)]
  IN  /\ p \in Down
      /\ activePointers' = MovedTo(p, at)
      /\ CASE Len(activePointers) = 1 ->
                /\ userTransform' = Pan(Transform, at - was.at)
                /\ UNCHANGED previousPinch
           [] Len(activePointers) = 2 ->
                /\ previousPinch' = after
                /\ userTransform' = IF previousPinch = None THEN userTransform
                                    ELSE Pinched(previousPinch, after)
           [] OTHER -> UNCHANGED <<userTransform, previousPinch>>
      /\ UNCHANGED <<frame, containerSize, isDragging>>

(* A pointer that is lifted leaves the pinch of the others as it was. *)
OnPointerUpForgetting(p) ==
  /\ p \in Down
  /\ activePointers' = RemoveAt(activePointers, PlaceOf(p))
  /\ previousPinch' = IF Len(activePointers') < 2 THEN None ELSE previousPinch
  /\ isDragging' = (activePointers' # <<>>)
  /\ UNCHANGED <<frame, containerSize, userTransform>>

OnPointerUp(p) ==
  /\ p \in Down
  /\ activePointers' = RemoveAt(activePointers, PlaceOf(p))
  /\ previousPinch' = PinchState(activePointers')
  /\ isDragging' = (activePointers' # <<>>)
  /\ UNCHANGED <<frame, containerSize, userTransform>>

Refits == \E f \in Frame, w \in Width : <<f, w>> # <<frame, containerSize>> /\ Refit(f, w)
Wheels == \E at \in Place, delta \in {-1, 0, 1} : OnWheel(at, delta)

Next ==
  /\ Gesture
  /\ \/ Refits
     \/ ResetView
     \/ Wheels
     \/ \E p \in Pointer :
          \/ \E at \in Place : OnPointerDown(p, at) \/ OnPointerMove(p, at)
          \/ OnPointerUp(p)

Spec == Init /\ [][Next]_vars

-----------------------------------------------------------------------------
(* While two pointers are down, the pinch that the next move is measured from is the *)
(* one they make now, however many pointers came, moved and went in between          *)
(* (onPointerMove does not follow the pinch of three: it is onPointerUp that does).  *)
PinchIsCurrent ==
  Len(activePointers) = 2 => previousPinch = PinchState(activePointers)

(* A wheel would leave the world point under the cursor where it is, at the zoom     *)
(* limits too, and where a resize has left an override outside them (zoomAt).        *)
CursorStays ==
  \A at \in Place, delta \in {-1, 0, 1} :
    LET t == Transform
        zoomed == ZoomAt(t, at, WheelZoomFactor(delta), ZoomLimits)
    IN  (at * t.den - t.x) * zoomed.scale = (at * zoomed.den - zoomed.x) * t.scale

TypeOK ==
  /\ frame \in Frame \cup {None} /\ containerSize \in Width \cup {0}
  /\ userTransform \in View \cup {None}
  /\ activePointers \in Seq([id : Pointer, at : Place])

(* The inductive strengthening of PictureStays: CursorStays holds in any view there can be. *)
ViewportInv == TypeOK /\ PinchIsCurrent

(* The picture never jumps under the fingers or the cursor. *)
PictureStays == PinchIsCurrent /\ CursorStays
=============================================================================
