----------------------------- MODULE SeparateRects -----------------------------
(***************************************************************************)
(* separate_rects splits rectangles that overlap into rectangles that do   *)
(* not, each with the set of input rectangles over it.  A sweep line goes  *)
(* from left to right and stops at each vertical edge; the rectangles over *)
(* the line cut it into regions; a region that goes on to the right of the *)
(* stop is a started rectangle, and is put out where it ends.              *)
(*                                                                         *)
(* One step is one iteration of the loop over sweep_h_events.  The ordered *)
(* sets and maps of the code are sets whose least element is taken.  A bit *)
(* set is the set of its bits.                                             *)
(***************************************************************************)
EXTENDS Integers, FiniteSets, Sequences

CONSTANTS
  Inputs,       \* the sequences of rectangles it may be called with
  MaxElements   \* IdSet::max_elements: 64

ASSUME RectConstants ==
  /\ Inputs \subseteq Seq([left : Int, top : Int, right : Int, bottom : Int])
  /\ MaxElements \in Nat

VARIABLES
  in,              \* the input
  sweep_h_events,  \* the vertical edges to come
  sweep_v_events,  \* the horizontal edges the sweep line meets
  started_rects,   \* rectangles whose right edge is not known yet
  out,             \* the output
  x                \* where the sweep line is

vars == <<in, sweep_h_events, sweep_v_events, started_rects, out, x>>

START == "start"
END == "end"

(* Not empty and not inside out. *)
Proper(r) == r.left < r.right /\ r.top < r.bottom

HEvents(rects) ==
  IF Len(rects) > MaxElements
  THEN {}
  ELSE UNION {{[type |-> START, at |-> rects[i].left, rect_id |-> i],
               [type |-> END, at |-> rects[i].right, rect_id |-> i]} :
                i \in {k \in DOMAIN rects : Proper(rects[k])}}

Init == /\ in \in Inputs
        /\ sweep_h_events = HEvents(in)
        /\ sweep_v_events = {} /\ started_rects = {} /\ out = {}
        /\ x = 0
-------------------------------------------------------------------------------
(* The order of SweepEvent. *)
Before(e, f) == e.at < f.at \/ (e.at = f.at /\ e.rect_id < f.rect_id)

VEvents(i) == {[type |-> START, at |-> in[i].top, rect_id |-> i],
               [type |-> END, at |-> in[i].bottom, rect_id |-> i]}

(* Mark the rectangle's edges on the sweep line, or remove them. *)
Mark(h) == IF h.type = START
           THEN sweep_v_events \cup VEvents(h.rect_id)
           ELSE sweep_v_events \ VEvents(h.rect_id)

(* active_set after the edges down to y; the end of a rectangle is below its
   start. *)
ActiveSet(v, y) ==
  {e.rect_id : e \in {s \in v : s.type = START /\ s.at <= y}}
    \ {e.rect_id : e \in {s \in v : s.type = END /\ s.at <= y}}

(* active_regions: each goes down to the next edge; the ones with nothing over
   them are left out. *)
ActiveRegions(v) ==
  LET ys == {e.at : e \in v}
      Adjacent(y, z) == y < z /\ \A w \in ys : w <= y \/ z <= w
  IN  {[id_set |-> ActiveSet(v, e[1]), top |-> e[1], bottom |-> e[2]] :
         e \in {p \in ys \X ys :
                 Adjacent(p[1], p[2]) /\ ActiveSet(v, p[1]) # {}}}

(* Variants: the set of rectangles over it is not compared; the left edge is
   compared, and is another for what was started before. *)
SameKey_NoIds(s, r) == s.top = r.top /\ s.bottom = r.bottom
SameKey_Left(s, r) == FALSE

(* The key of started_rects: all but the left edge. *)
SameKey(s, r) == /\ s.top = r.top /\ s.bottom = r.bottom
                 /\ s.id_set = r.id_set

(* The regions seen for the first time. *)
Started(regions, at) ==
  {[id_set |-> r.id_set, left |-> at, top |-> r.top, bottom |-> r.bottom] :
     r \in {q \in regions : \A s \in started_rects : ~SameKey(s, q)}}

(* The started rectangles that were not seen in this stop. *)
Unseen(regions) ==
  {s \in started_rects : \A r \in regions : ~SameKey(s, r)}

(* A started rectangle that ends at the sweep line. *)
Ended(s, at) == [id_set |-> s.id_set, left |-> s.left, top |-> s.top,
                 right |-> at, bottom |-> s.bottom]

(* The next event is an edge at the same place. *)
MoreEdges(h) == \E e \in sweep_h_events \ {h} : e.at = h.at

(* An iteration that marks one of several edges at the same place. *)
MarkEdge ==
  \E h \in sweep_h_events :
    /\ \A e \in sweep_h_events \ {h} : Before(h, e)
    /\ MoreEdges(h)
    /\ sweep_v_events' = Mark(h)
    /\ sweep_h_events' = sweep_h_events \ {h}
    /\ UNCHANGED <<in, started_rects, out, x>>

(* An iteration that marks the last of them and examines the sweep line. *)
Stop ==
  \E h \in sweep_h_events :
    /\ \A e \in sweep_h_events \ {h} : Before(h, e)
    /\ ~MoreEdges(h)
    /\ sweep_v_events' = Mark(h)
    /\ sweep_h_events' = sweep_h_events \ {h}
    /\ x' = h.at
    /\ LET regions == ActiveRegions(sweep_v_events')
       IN  /\ started_rects' = (started_rects \ Unseen(regions))
                                 \cup Started(regions, h.at)
           /\ out' = out \cup {Ended(s, h.at) : s \in Unseen(regions)}
    /\ UNCHANGED in

Return == sweep_h_events = {} /\ UNCHANGED vars

Next == MarkEdge \/ Stop \/ Return

Spec == Init /\ [][Next]_vars
-------------------------------------------------------------------------------
(***************************************************************************)
(* A point stands for the square to the right of it and below it.          *)
(***************************************************************************)
Coordinates == UNION {{in[i].left, in[i].right, in[i].top, in[i].bottom} :
                        i \in DOMAIN in}
Points == Coordinates \X Coordinates

Over(r, p) == /\ r.left <= p[1] /\ p[1] < r.right
              /\ r.top <= p[2] /\ p[2] < r.bottom

(* What is to be put out: the input rectangles over a point. *)
IdsOver(p) == {i \in DOMAIN in : Over(in[i], p)}

(* The result has one rectangle for each point that is in the input, with the
   rectangles over it, and none for another. *)
Separates(rects, points) ==
  \A p \in points :
    {r.id_set : r \in {q \in rects : Over(q, p)}}
      = IF IdsOver(p) = {} THEN {} ELSE {IdsOver(p)}

Disjoint(rects, points) ==
  \A p \in points : Cardinality({r \in rects : Over(r, p)}) <= 1

AtStop == \A h \in sweep_h_events : h.at > x

(* "separates up to a maximum of 64 input rectangles into mutually non-
   overlapping rectangles that cover the exact same area": the output, and
   before that the output and what was started, for what the sweep line has
   passed.  In the end nothing is left started. *)
SweepSeparates ==
  AtStop /\ Len(in) <= MaxElements =>
    LET passed == {p \in Points : p[1] < x}
        rects == out \cup {Ended(s, x) : s \in started_rects}
    IN  /\ Separates(rects, passed)
        /\ Disjoint(rects, passed)
        /\ sweep_h_events = {} => started_rects = {} /\ Separates(out, Points)

(* A region that goes on is one rectangle: no two that were put out touch at a
   vertical edge and agree in the rest. *)
NoSplit ==
  \A r, s \in out :
    r.right = s.left =>
      r.top # s.top \/ r.bottom # s.bottom \/ r.id_set # s.id_set
===============================================================================
