------------------------------ MODULE Platform -------------------------------
(***************************************************************************)
(* The parts that share no state: the segmenter, the derivation of laps,   *)
(* the track maps, the sessions of the API, and the pages of a browser.    *)
(* Side by side, every step is a step of one of them. Each part is taken   *)
(* with its proofs, where there are any.                                   *)
(***************************************************************************)
EXTENDS LapSegmenter

CONSTANTS
  Node, Req, Track, Gate, GateSet, Ceiling, FirstGate, Laps, Surveyed, Candidate, Clean,
  MaxStored, MaxAsks, MaxEdits, MaxFaults,                             \* LapDerivation
  Viewer, MaxPendingRetries, MaxOpens, MaxAges,                        \* TrackMapCache
  Tab, Expiration, RefreshAfter, MaxNow, MaxTokens,                    \* SessionToken
  Car, Run, CarOf, Message, MaxLivePoints, MaxSockets, MaxPublished,   \* LiveView
  Session, Outcome, MaxMoves, MaxDerivations,                          \* LapView
  Pointer, Place, Frame, Width, MaxZoom, MaxGestures                   \* Viewport

VARIABLES
  sess, stored, rows, track, ready, memo, deriveReq, moved, unseen, edits, asks, deriveFaults,
  enabled, row, fetch, mapReq, mapView, overlap, opens, ages, mapFaults,
  now, minted, cookie, denied, tokenReq, out, refused, readmitted, tokenFaults,
  sock, open, view, log, published, liveFaults,
  server, session, selected, compareWith, res, post, missed, moves, lapFaults,
  frame, containerSize, userTransform, activePointers, previousPinch, isDragging, gestures

deriveVars ==
  <<sess, stored, rows, track, ready, memo, deriveReq, moved, unseen, edits, asks, deriveFaults>>
mapVars == <<enabled, row, fetch, mapReq, mapView, overlap, opens, ages, mapFaults>>
tokenVars == <<now, minted, cookie, denied, tokenReq, out, refused, readmitted, tokenFaults>>
liveVars == <<sock, open, view, log, published, liveFaults>>
lapVars == <<server, session, selected, compareWith, res, post, missed, moves, lapFaults>>
canvasVars ==
  <<frame, containerSize, userTransform, activePointers, previousPinch, isDragging, gestures>>
platformVars == <<vars, deriveVars, mapVars, tokenVars, liveVars, lapVars, canvasVars>>

-----------------------------------------------------------------------------
Derivation == INSTANCE LapDerivationProofs WITH
  MaxSamples <- MaxStored, samples <- stored, req <- deriveReq, faults <- deriveFaults

Maps == INSTANCE TrackMapCacheProofs WITH
  View <- Viewer, req <- mapReq, view <- mapView, faults <- mapFaults

Tokens == INSTANCE SessionToken WITH req <- tokenReq, faults <- tokenFaults

Live == INSTANCE LiveView WITH Session <- Run, faults <- liveFaults

Pages == INSTANCE LapView WITH faults <- lapFaults

Canvas == INSTANCE Viewport

ASSUME PlatformAssumption ==
  /\ Derivation!DerivationAssumption /\ Maps!CacheAssumption
  /\ Tokens!TokenAssumption /\ Live!ViewAssumption /\ Pages!PageAssumption
  /\ Canvas!ViewportAssumption

-----------------------------------------------------------------------------
PlatformInit ==
  /\ Init /\ Derivation!Init /\ Maps!Init /\ Tokens!Init
  /\ Live!Init /\ Pages!Init /\ Canvas!Init

(* A step of one part, which leaves the others as they are. *)
SegmenterStep ==
  Next /\ UNCHANGED <<deriveVars, mapVars, tokenVars, liveVars, lapVars, canvasVars>>
DerivationStep ==
  Derivation!Next /\ UNCHANGED <<vars, mapVars, tokenVars, liveVars, lapVars, canvasVars>>
MapsStep ==
  Maps!Next /\ UNCHANGED <<vars, deriveVars, tokenVars, liveVars, lapVars, canvasVars>>
TokensStep ==
  Tokens!Next /\ UNCHANGED <<vars, deriveVars, mapVars, liveVars, lapVars, canvasVars>>
LiveStep ==
  Live!Next /\ UNCHANGED <<vars, deriveVars, mapVars, tokenVars, lapVars, canvasVars>>
PagesStep ==
  Pages!Next /\ UNCHANGED <<vars, deriveVars, mapVars, tokenVars, liveVars, canvasVars>>
CanvasStep ==
  Canvas!Next /\ UNCHANGED <<vars, deriveVars, mapVars, tokenVars, liveVars, lapVars>>

PlatformNext ==
  \/ SegmenterStep \/ DerivationStep \/ MapsStep \/ TokensStep
  \/ LiveStep \/ PagesStep \/ CanvasStep

PlatformSpec == PlatformInit /\ [][PlatformNext]_platformVars

-----------------------------------------------------------------------------
(* The parts' properties. *)

(* Answers without laps give a reason (LapDerivation). *)
AnswersHaveLaps == Derivation!AnswersHaveLaps

(* Racing derivations leave what one alone would (LapDerivation). *)
DerivedOnce == Derivation!DerivedOnce

(* The no-crossings memo masks nothing (LapDerivation). *)
MemoHonest == Derivation!MemoHonest

(* A READY outline is kept (TrackMapCache). *)
ReadyStays == Maps!ReadyStays

(* Polling for a pending map ends (TrackMapCache). *)
PollsEnd == Maps!PollsEnd

(* The denylist refuses what was revoked, and nothing else (SessionToken). *)
DenylistIsExact == Tokens!DenylistIsExact

(* The live page shows the newest run of its own car (LiveView). *)
TraceIsOwnNewest == Live!TraceIsNewest /\ Live!OwnCar

(* The analysis page is of one derivation (LapView). *)
PageIsOfOneDerivation == Pages!PageIsOfOneDerivation

(* Pinching and zooming never make the picture jump (Viewport). *)
PictureStays == Canvas!PictureStays

=============================================================================
