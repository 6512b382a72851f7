-------------------------- MODULE SeparateRectsProofs --------------------------
(***************************************************************************)
(* Theorems about the sweep, for every sequence of rectangles of whole     *)
(* coordinates, of any number and anywhere on the plane: what is put out   *)
(* covers the input, each point once and with the right set of rectangles, *)
(* and no region is split.                                                 *)
(***************************************************************************)
EXTENDS SeparateRects, FiniteSetTheorems, WellFoundedInduction, TLAPS

-------------------------------------------------------------------------------
(***************************************************************************)
(* Numbers: a set of integers has a greatest element up to a bound, and a  *)
(* least one above it.                                                     *)
(***************************************************************************)
LEMMA LeastNatural ==
  ASSUME NEW T \in SUBSET Nat, T # {}
  PROVE  \E m \in T : \A n \in T : m <= n
<1> DEFINE Less == {p \in Nat \X Nat : p[1] < p[2]}
<1>1. IsWellFoundedOn(Less, Nat)
  BY NatLessThanWellFounded DEF OpToRel
<1> HIDE DEF Less
<1>2. PICK m \in T : \A n \in T : <<n, m>> \notin Less
  BY <1>1, WFMin
<1>3. ASSUME NEW n \in T, n < m PROVE <<n, m>> \in Less
  BY <1>3 DEF Less
<1>4. ASSUME NEW n \in T PROVE m <= n
  <2>1. ~(n < m) /\ m \in Nat /\ n \in Nat
    BY <1>2, <1>3
  <2> QED
    BY <2>1
<1> QED
  BY <1>4

LEMMA GreatestUpTo ==
  ASSUME NEW T \in SUBSET Int, NEW y \in Int, NEW t \in T, t <= y
  PROVE  \E m \in T : m <= y /\ \A n \in T : n <= m \/ y < n
<1> DEFINE D == {y - n : n \in {k \in T : k <= y}}
<1>1. D \in SUBSET Nat
  OBVIOUS
<1>2. y - t \in D
  OBVIOUS
<1>3. PICK d \in D : \A e \in D : d <= e
  BY <1>1, <1>2, LeastNatural
<1>4. PICK m \in {k \in T : k <= y} : d = y - m
  OBVIOUS
<1>5. m \in T /\ m \in Int /\ y \in Int /\ m <= y
  OBVIOUS
<1>6. ASSUME NEW n \in T, n <= y PROVE n <= m
  <2>1. n \in Int /\ y - n \in D
    BY <1>6
  <2>2. y - m <= y - n
    BY <1>3, <1>4, <2>1
  <2> HIDE DEF D
  <2> QED
    BY <1>5, <2>1, <2>2
<1> HIDE DEF D
<1>7. \A n \in T : n <= y => n <= m
  BY <1>6
<1> QED
  BY <1>5, <1>7

LEMMA LeastAbove ==
  ASSUME NEW T \in SUBSET Int, NEW y \in Int, NEW t \in T, y < t
  PROVE  \E m \in T : y < m /\ \A n \in T : n <= y \/ m <= n
<1> DEFINE D == {n - y : n \in {k \in T : y < k}}
<1>1. D \in SUBSET Nat
  OBVIOUS
<1>2. t - y \in D
  OBVIOUS
<1>3. PICK d \in D : \A e \in D : d <= e
  BY <1>1, <1>2, LeastNatural
<1>4. PICK m \in {k \in T : y < k} : d = m - y
  OBVIOUS
<1>5. m \in T /\ m \in Int /\ y \in Int /\ y < m
  OBVIOUS
<1>6. ASSUME NEW n \in T, y < n PROVE m <= n
  <2>1. n \in Int /\ n - y \in D
    BY <1>6
  <2>2. m - y <= n - y
    BY <1>3, <1>4, <2>1
  <2> HIDE DEF D
  <2> QED
    BY <1>5, <2>1, <2>2
<1> HIDE DEF D
<1>7. \A n \in T : y < n => m <= n
  BY <1>6
<1> QED
  BY <1>5, <1>7
-------------------------------------------------------------------------------
(***************************************************************************)
(* The sweep line: some rectangles' edges are marked on it, and they cut   *)
(* it into regions.                                                        *)
(***************************************************************************)

(* The rectangles that are not filtered out. *)
Ids == {i \in DOMAIN in : Proper(in[i])}

Bounds == [left : Int, top : Int, right : Int, bottom : Int]

Line(A) == UNION {VEvents(i) : i \in A}

(* Those of A at the height y. *)
AtHeight(A, y) == {i \in A : in[i].top <= y /\ y < in[i].bottom}

Edges(A) == {in[i].top : i \in A} \cup {in[i].bottom : i \in A}

LEMMA IdsAreProper ==
  ASSUME in \in Inputs
  PROVE  /\ Len(in) \in Nat /\ Ids \subseteq Nat
         /\ \A i \in DOMAIN in : in[i] \in Bounds
         /\ \A i \in Ids : in[i] \in Bounds /\ Proper(in[i])
<1>1. in \in Seq(Bounds)
  BY RectConstants DEF Bounds
<1>2. Len(in) \in Nat /\ DOMAIN in = 1..Len(in)
  BY <1>1
<1>3. \A i \in DOMAIN in : in[i] \in Bounds
  BY <1>1, <1>2
<1> QED
  BY <1>2, <1>3 DEF Ids

LEMMA LineEvents ==
  ASSUME NEW A
  PROVE  /\ \A e \in Line(A) : \E i \in A :
              \/ e = [type |-> START, at |-> in[i].top, rect_id |-> i]
              \/ e = [type |-> END, at |-> in[i].bottom, rect_id |-> i]
         /\ \A i \in A :
              /\ [type |-> START, at |-> in[i].top, rect_id |-> i] \in Line(A)
              /\ [type |-> END, at |-> in[i].bottom, rect_id |-> i] \in Line(A)
BY DEF Line, VEvents

LEMMA LineEdges ==
  ASSUME NEW A
  PROVE  {e.at : e \in Line(A)} = Edges(A)
<1>1. ASSUME NEW e \in Line(A) PROVE e.at \in Edges(A)
  BY LineEvents DEF Edges
<1>2. ASSUME NEW w \in Edges(A) PROVE w \in {e.at : e \in Line(A)}
  <2>1. PICK i \in A : w = in[i].top \/ w = in[i].bottom
    BY DEF Edges
  <2>2. CASE w = in[i].top
    <3>1. [type |-> START, at |-> in[i].top, rect_id |-> i] \in Line(A)
      BY LineEvents
    <3> QED
      BY <2>2, <3>1
  <2>3. CASE w = in[i].bottom
    <3>1. [type |-> END, at |-> in[i].bottom, rect_id |-> i] \in Line(A)
      BY LineEvents
    <3> QED
      BY <2>3, <3>1
  <2> QED
    BY <2>1, <2>2, <2>3
<1> QED
  BY <1>1, <1>2

LEMMA ActiveIsAtHeight ==
  ASSUME in \in Inputs, NEW A \in SUBSET Ids, NEW y \in Int
  PROVE  ActiveSet(Line(A), y) = AtHeight(A, y)
<1> DEFINE Begun == {e.rect_id : e \in {s \in Line(A) : s.type = START /\ s.at <= y}}
           Gone == {e.rect_id : e \in {s \in Line(A) : s.type = END /\ s.at <= y}}
<1>1. Begun = {i \in A : in[i].top <= y}
  <2>1. ASSUME NEW e \in Line(A), e.type = START, e.at <= y
        PROVE  e.rect_id \in {i \in A : in[i].top <= y}
    BY <2>1, LineEvents DEF START, END
  <2>2. ASSUME NEW i \in A, in[i].top <= y PROVE i \in Begun
    <3> DEFINE e == [type |-> START, at |-> in[i].top, rect_id |-> i]
    <3>1. e \in Line(A)
      BY LineEvents
    <3> QED
      BY <2>2, <3>1
  <2> QED
    BY <2>1, <2>2
<1>2. Gone = {i \in A : in[i].bottom <= y}
  <2>1. ASSUME NEW e \in Line(A), e.type = END, e.at <= y
        PROVE  e.rect_id \in {i \in A : in[i].bottom <= y}
    BY <2>1, LineEvents DEF START, END
  <2>2. ASSUME NEW i \in A, in[i].bottom <= y PROVE i \in Gone
    <3> DEFINE e == [type |-> END, at |-> in[i].bottom, rect_id |-> i]
    <3>1. e \in Line(A)
      BY LineEvents
    <3> QED
      BY <2>2, <3>1
  <2> QED
    BY <2>1, <2>2
<1>3. ActiveSet(Line(A), y) = Begun \ Gone
  BY DEF ActiveSet
<1>4. \A i \in A : in[i].bottom \in Int
  BY IdsAreProper DEF Bounds
<1> HIDE DEF Begun, Gone
<1> QED
  BY <1>1, <1>2, <1>3, <1>4 DEF AtHeight
(* What a region is: two edges next to each other with rectangles between. *)
Region(A, r) ==
  \E y, z \in Edges(A) :
    /\ y < z /\ \A w \in Edges(A) : w <= y \/ z <= w
    /\ AtHeight(A, y) # {}
    /\ r = [id_set |-> AtHeight(A, y), top |-> y, bottom |-> z]

LEMMA RegionsAreRegions ==
  ASSUME in \in Inputs, NEW A \in SUBSET Ids
  PROVE  /\ Edges(A) \in SUBSET Int
         /\ \A r : r \in ActiveRegions(Line(A)) <=> Region(A, r)
<1>1. Edges(A) \in SUBSET Int
  BY IdsAreProper DEF Edges, Bounds
<1>2. \A y \in Edges(A) : ActiveSet(Line(A), y) = AtHeight(A, y)
  BY <1>1, ActiveIsAtHeight
<1> DEFINE Pairs == {p \in Edges(A) \X Edges(A) :
                      /\ p[1] < p[2] /\ \A w \in Edges(A) : w <= p[1] \/ p[2] <= w
                      /\ ActiveSet(Line(A), p[1]) # {}}
           R(p) == [id_set |-> ActiveSet(Line(A), p[1]), top |-> p[1], bottom |-> p[2]]
<1>3. ActiveRegions(Line(A)) = {R(p) : p \in Pairs}
  BY LineEdges, Zenon DEF ActiveRegions
<1>4. ASSUME NEW r, r \in ActiveRegions(Line(A)) PROVE Region(A, r)
  <2>1. PICK p \in Pairs : r = R(p)
    BY <1>3, <1>4
  <2>2. p[1] \in Edges(A) /\ p[2] \in Edges(A)
    OBVIOUS
  <2>3. ActiveSet(Line(A), p[1]) = AtHeight(A, p[1])
    BY <1>2, <2>2
  <2> QED
    BY <2>1, <2>2, <2>3 DEF Region
<1>5. ASSUME NEW r, Region(A, r) PROVE r \in ActiveRegions(Line(A))
  <2>1. PICK y \in Edges(A), z \in Edges(A) :
          /\ y < z /\ \A w \in Edges(A) : w <= y \/ z <= w
          /\ AtHeight(A, y) # {}
          /\ r = [id_set |-> AtHeight(A, y), top |-> y, bottom |-> z]
    BY <1>5 DEF Region
  <2>2. ActiveSet(Line(A), y) = AtHeight(A, y)
    BY <1>2
  <2>3. <<y, z>> \in Pairs
    BY <2>1, <2>2
  <2>4. r = R(<<y, z>>)
    BY <2>1, <2>2
  <2> QED
    BY <1>3, <2>3, <2>4
<1> QED
  BY <1>1, <1>4, <1>5

(* Every height with rectangles over it is in a region. *)
LEMMA RegionsCover ==
  ASSUME in \in Inputs, NEW A \in SUBSET Ids, NEW y \in Int, AtHeight(A, y) # {}
  PROVE  \E r \in ActiveRegions(Line(A)) : r.top <= y /\ y < r.bottom
<1>1. Edges(A) \in SUBSET Int
  BY RegionsAreRegions
<1>2. PICK i \in A : in[i].top <= y /\ y < in[i].bottom
  BY DEF AtHeight
<1>3. in[i].top \in Edges(A) /\ in[i].bottom \in Edges(A)
  BY DEF Edges
<1>4. PICK t \in Edges(A) : t <= y /\ \A w \in Edges(A) : w <= t \/ y < w
  BY <1>1, <1>2, <1>3, GreatestUpTo
<1>5. PICK b \in Edges(A) : y < b /\ \A w \in Edges(A) : w <= y \/ b <= w
  BY <1>1, <1>2, <1>3, LeastAbove
<1>6. t \in Int /\ b \in Int /\ t < b
  BY <1>1, <1>4, <1>5
<1>7. \A w \in Edges(A) : w <= t \/ b <= w
  BY <1>1, <1>4, <1>5, <1>6
<1>8. AtHeight(A, t) # {}
  BY <1>1, <1>2, <1>3, <1>4, <1>6 DEF AtHeight
<1> DEFINE r == [id_set |-> AtHeight(A, t), top |-> t, bottom |-> b]
<1>9. r \in ActiveRegions(Line(A))
  BY <1>6, <1>7, <1>8, RegionsAreRegions DEF Region
<1> QED
  BY <1>4, <1>5, <1>9

(* A region has one set of rectangles over it, from its top to its bottom. *)
LEMMA RegionHasIds ==
  ASSUME in \in Inputs, NEW A \in SUBSET Ids, NEW r \in ActiveRegions(Line(A))
  PROVE  /\ r \in [id_set : SUBSET Nat, top : Int, bottom : Int]
         /\ r.id_set # {}
         /\ \A y \in Int : r.top <= y /\ y < r.bottom => r.id_set = AtHeight(A, y)
<1>1. Edges(A) \in SUBSET Int
  BY RegionsAreRegions
<1>2. PICK t \in Edges(A), b \in Edges(A) :
        /\ t < b /\ \A w \in Edges(A) : w <= t \/ b <= w
        /\ AtHeight(A, t) # {}
        /\ r = [id_set |-> AtHeight(A, t), top |-> t, bottom |-> b]
  BY RegionsAreRegions DEF Region
<1>3. t \in Int /\ b \in Int
  BY <1>1
<1>4. AtHeight(A, t) \in SUBSET Nat
  BY IdsAreProper DEF AtHeight
<1>5. ASSUME NEW y \in Int, t <= y, y < b PROVE AtHeight(A, y) = AtHeight(A, t)
  <2>1. ASSUME NEW w \in Edges(A) PROVE w \in Int /\ (w <= y <=> w <= t)
    <3>1. w \in Int /\ (w <= t \/ b <= w)
      BY <1>1, <1>2
    <3> QED
      BY <1>3, <1>5, <3>1
  <2>2. ASSUME NEW i \in A
        PROVE  (in[i].top <= y /\ y < in[i].bottom)
                 <=> (in[i].top <= t /\ t < in[i].bottom)
    <3>1. in[i].top \in Edges(A) /\ in[i].bottom \in Edges(A)
      BY DEF Edges
    <3>2. /\ in[i].top <= y <=> in[i].top <= t
          /\ in[i].bottom \in Int /\ (in[i].bottom <= y <=> in[i].bottom <= t)
      BY <2>1, <3>1
    <3> QED
      BY <1>3, <3>2
  <2> QED
    BY <2>2 DEF AtHeight
<1> QED
  BY <1>2, <1>3, <1>4, <1>5

(* No two regions at one height. *)
LEMMA RegionsDisjoint ==
  ASSUME in \in Inputs, NEW A \in SUBSET Ids, NEW y \in Int,
         NEW r \in ActiveRegions(Line(A)), NEW q \in ActiveRegions(Line(A)),
         r.top <= y, y < r.bottom, q.top <= y, y < q.bottom
  PROVE  r = q
<1>1. Edges(A) \in SUBSET Int
  BY RegionsAreRegions
<1>2. PICK t \in Edges(A), b \in Edges(A) :
        /\ t < b /\ \A w \in Edges(A) : w <= t \/ b <= w
        /\ r = [id_set |-> AtHeight(A, t), top |-> t, bottom |-> b]
  BY RegionsAreRegions DEF Region
<1>3. PICK u \in Edges(A), c \in Edges(A) :
        /\ u < c /\ \A w \in Edges(A) : w <= u \/ c <= w
        /\ q = [id_set |-> AtHeight(A, u), top |-> u, bottom |-> c]
  BY RegionsAreRegions DEF Region
<1>4. t \in Int /\ b \in Int /\ u \in Int /\ c \in Int
  BY <1>1
<1>5. t <= y /\ y < b /\ u <= y /\ y < c
  BY <1>2, <1>3
<1>6. (u <= t \/ b <= u) /\ (c <= t \/ b <= c) /\ (t <= u \/ c <= t) /\ (b <= u \/ c <= b)
  BY <1>2, <1>3
<1>7. t = u /\ b = c
  BY <1>4, <1>5, <1>6
<1> QED
  BY <1>2, <1>3, <1>7
-------------------------------------------------------------------------------
(***************************************************************************)
(* The inductive invariant.  The events are met in their order, so the     *)
(* marks on the sweep line are those of the rectangles whose left edge has *)
(* been met and whose right edge has not.  Between two stops nothing       *)
(* changes along the x axis; the regions of the last stop are the started  *)
(* rectangles, and with what was put out they are right for everything     *)
(* left of the sweep line.  Before the first stop there is neither.        *)
(***************************************************************************)
LeftEdge(i) == [type |-> START, at |-> in[i].left, rect_id |-> i]
RightEdge(i) == [type |-> END, at |-> in[i].right, rect_id |-> i]

Met == HEvents(in) \ sweep_h_events

(* An edge at this place is still to come. *)
Pending(at) == \E h \in sweep_h_events : h.at = at

EventsInOrder ==
  /\ sweep_h_events \subseteq HEvents(in)
  /\ \A e \in Met, h \in sweep_h_events : Before(e, h)

Marked == {i \in Ids : LeftEdge(i) \in Met /\ RightEdge(i) \notin Met}

LineMarked == sweep_v_events = Line(Marked)

(* The rectangles the sweep line crosses just to the right of w. *)
ActiveAt(w) == {i \in Ids : in[i].left <= w /\ w < in[i].right}

StartedRect == [id_set : SUBSET Nat, left : Int, top : Int, bottom : Int]
OutRect == [id_set : SUBSET Nat, left : Int, top : Int, right : Int, bottom : Int]

Plane == Int \X Int

(* A started rectangle goes on to the right for the time being. *)
InStrip(s, p) == s.left <= p[1] /\ s.top <= p[2] /\ p[2] < s.bottom

(* At this point there is one rectangle if any, and it is the right one. *)
RightAt(p) ==
  /\ IdsOver(p) # {} => \/ \E o \in out : Over(o, p)
                        \/ \E s \in started_rects : InStrip(s, p)
  /\ \A o \in out : Over(o, p) => o.id_set = IdsOver(p)
  /\ \A s \in started_rects : InStrip(s, p) => s.id_set = IdsOver(p)
  /\ \A o, q \in out : Over(o, p) /\ Over(q, p) => o = q
  /\ \A o \in out, s \in started_rects : ~(Over(o, p) /\ InStrip(s, p))
  /\ \A s, t \in started_rects : InStrip(s, p) /\ InStrip(t, p) => s = t

Shapes ==
  /\ \A s \in started_rects : s \in StartedRect /\ s.id_set # {}
  /\ \A o \in out : o \in OutRect /\ o.id_set # {} /\ o.left < o.right

(* No two that touch could be one. *)
Whole ==
  /\ NoSplit
  /\ \A o \in out, s \in started_rects : o.right = s.left => ~SameKey(o, s)
  /\ \A s, t \in started_rects : SameKey(s, t) => s = t

Fresh == /\ started_rects = {} /\ out = {} /\ x \in Int
         /\ \A e \in Met : Pending(e.at)

Swept ==
  /\ x \in Int
  /\ \A p \in Plane : p[1] < x => RightAt(p)
  /\ \A s \in started_rects : s.left <= x
  /\ \A o \in out : o.right <= x
  /\ \A h \in sweep_h_events : h.at > x
  /\ \A e \in Met : e.at <= x \/ Pending(e.at)
  /\ \A r \in ActiveRegions(Line(ActiveAt(x))) :
       \E s \in started_rects : SameKey(s, r)
  /\ \A s \in started_rects :
       \E r \in ActiveRegions(Line(ActiveAt(x))) : SameKey(s, r)

Sweeping == /\ EventsInOrder /\ LineMarked
            /\ Shapes /\ Whole
            /\ Fresh \/ Swept

IInv == /\ in \in Inputs
        /\ Len(in) > MaxElements => sweep_h_events = {} /\ out = {}
        /\ Len(in) <= MaxElements => Sweeping
-------------------------------------------------------------------------------
(***************************************************************************)
(* The events, and the marks they leave on the sweep line.                 *)
(***************************************************************************)
LEMMA EventsAreEdges ==
  ASSUME in \in Inputs, Len(in) <= MaxElements
  PROVE  /\ \A e \in HEvents(in) : \E i \in Ids : e = LeftEdge(i) \/ e = RightEdge(i)
         /\ \A i \in Ids : LeftEdge(i) \in HEvents(in) /\ RightEdge(i) \in HEvents(in)
         /\ \A i \in Ids : /\ in[i].left \in Int /\ in[i].right \in Int
                           /\ in[i].left < in[i].right
         /\ \A e \in HEvents(in) : e.at \in Int
<1>1. HEvents(in) = UNION {{LeftEdge(i), RightEdge(i)} : i \in Ids}
  <2>1. ~(Len(in) > MaxElements)
    BY IdsAreProper, RectConstants
  <2> QED
    BY <2>1 DEF HEvents, Ids, LeftEdge, RightEdge
<1>2. \A i \in Ids : /\ in[i].left \in Int /\ in[i].right \in Int
                     /\ in[i].left < in[i].right
  BY IdsAreProper DEF Bounds, Proper
<1>3. \A e \in HEvents(in) : \E i \in Ids : e = LeftEdge(i) \/ e = RightEdge(i)
  BY <1>1
<1>4. \A i \in Ids : LeftEdge(i) \in HEvents(in) /\ RightEdge(i) \in HEvents(in)
  BY <1>1
<1>5. \A e \in HEvents(in) : e.at \in Int
  BY <1>2, <1>3 DEF LeftEdge, RightEdge
<1> QED
  BY <1>2, <1>3, <1>4, <1>5

LEMMA LineAdds ==
  ASSUME NEW A, NEW i
  PROVE  Line(A \cup {i}) = Line(A) \cup VEvents(i)
BY DEF Line

LEMMA LineDrops ==
  ASSUME NEW A, NEW i
  PROVE  Line(A \ {i}) = Line(A) \ VEvents(i)
<1>1. \A j : j # i => VEvents(j) \cap VEvents(i) = {}
  BY DEF VEvents
<1>2. ASSUME NEW e \in Line(A \ {i}) PROVE e \in Line(A) \ VEvents(i)
  BY <1>1, <1>2 DEF Line
<1>3. ASSUME NEW e \in Line(A) \ VEvents(i) PROVE e \in Line(A \ {i})
  BY <1>3 DEF Line
<1> QED
  BY <1>2, <1>3

(* What both iterations do with the event h they meet. *)
Meets(h) ==
  /\ h \in sweep_h_events
  /\ \A e \in sweep_h_events \ {h} : Before(h, e)
  /\ sweep_v_events' = Mark(h)
  /\ sweep_h_events' = sweep_h_events \ {h}
  /\ in' = in

(* The right edge of a rectangle is met after its left edge. *)
LEMMA LeftFirst ==
  ASSUME in \in Inputs, Len(in) <= MaxElements, EventsInOrder,
         NEW h, Meets(h), NEW i \in Ids
  PROVE  /\ h = LeftEdge(i) => RightEdge(i) \in sweep_h_events
         /\ h = RightEdge(i) => LeftEdge(i) \in Met
<1>1. ~Before(RightEdge(i), LeftEdge(i))
  <2>1. /\ RightEdge(i).at = in[i].right /\ LeftEdge(i).at = in[i].left
        /\ in[i].left \in Int /\ in[i].right \in Int /\ in[i].left < in[i].right
    BY EventsAreEdges DEF LeftEdge, RightEdge
  <2> QED
    BY <2>1 DEF Before
<1>2. LeftEdge(i) # RightEdge(i)
  BY DEF LeftEdge, RightEdge, START, END
<1>3. LeftEdge(i) \in HEvents(in) /\ RightEdge(i) \in HEvents(in)
  BY EventsAreEdges
<1> QED
  BY <1>1, <1>2, <1>3 DEF EventsInOrder, Meets, Met

LEMMA MeetsEdge ==
  ASSUME in \in Inputs, Len(in) <= MaxElements, EventsInOrder, LineMarked,
         NEW h, Meets(h)
  PROVE  /\ EventsInOrder' /\ LineMarked'
         /\ Met' = Met \cup {h} /\ h \in HEvents(in) /\ h.at \in Int
         /\ HEvents(in)' = HEvents(in)
<1>1. /\ HEvents(in)' = HEvents(in) /\ Ids' = Ids
      /\ \A i : LeftEdge(i)' = LeftEdge(i) /\ RightEdge(i)' = RightEdge(i)
      /\ \A i : VEvents(i)' = VEvents(i)
  BY DEF Meets, HEvents, Ids, LeftEdge, RightEdge, VEvents
<1>2. h \in HEvents(in) /\ h.at \in Int
  BY EventsAreEdges DEF EventsInOrder, Meets
<1>3. Met' = Met \cup {h}
  BY <1>1, <1>2 DEF Met, Meets
<1>4. EventsInOrder'
  <2>1. (sweep_h_events \subseteq HEvents(in))'
    BY <1>1 DEF EventsInOrder, Meets
  <2>2. ASSUME NEW e \in Met', NEW k \in sweep_h_events' PROVE Before(e, k)
    BY <1>3, <2>2 DEF EventsInOrder, Meets
  <2> QED
    BY <2>1, <2>2 DEF EventsInOrder, Before
<1>5. LineMarked'
  <2>1. PICK i \in Ids : h = LeftEdge(i) \/ h = RightEdge(i)
    BY <1>2, EventsAreEdges
  <2>2. \A j \in Ids : j # i => h # LeftEdge(j) /\ h # RightEdge(j)
    BY <2>1 DEF LeftEdge, RightEdge
  <2>3. Marked' = {j \in Ids : /\ LeftEdge(j) \in Met \cup {h}
                               /\ RightEdge(j) \notin Met \cup {h}}
    BY <1>1, <1>3 DEF Marked
  <2>4. Line(Marked)' = Line(Marked')
    BY <1>1 DEF Line
  <2>5. CASE h = LeftEdge(i)
    <3>1. h # RightEdge(i) /\ h.type = START /\ h.rect_id = i
      BY <2>5 DEF LeftEdge, RightEdge, START, END
    <3>2. RightEdge(i) \notin Met
      BY <2>5, LeftFirst DEF Met
    <3>3. Marked' = Marked \cup {i}
      BY <2>2, <2>3, <2>5, <3>1, <3>2 DEF Marked
    <3>4. sweep_v_events' = Line(Marked) \cup VEvents(i)
      BY <3>1 DEF Meets, Mark, LineMarked
    <3> QED
      BY <2>4, <3>3, <3>4, LineAdds DEF LineMarked
  <2>6. CASE h = RightEdge(i)
    <3>1. h # LeftEdge(i) /\ h.type # START /\ h.rect_id = i
      BY <2>6 DEF LeftEdge, RightEdge, START, END
    <3>2. Marked' = Marked \ {i}
      BY <2>2, <2>3, <2>6, <3>1 DEF Marked
    <3>3. sweep_v_events' = Line(Marked) \ VEvents(i)
      BY <3>1 DEF Meets, Mark, LineMarked
    <3> QED
      BY <2>4, <3>2, <3>3, LineDrops DEF LineMarked
  <2> QED
    BY <2>1, <2>5, <2>6
<1> QED
  BY <1>1, <1>2, <1>3, <1>4, <1>5
-------------------------------------------------------------------------------
(***************************************************************************)
(* Up to the next edge: between two stops the rectangles over a point do   *)
(* not depend on how far right it is.                                      *)
(***************************************************************************)
LEMMA OverAreIds ==
  ASSUME in \in Inputs, NEW p \in Plane
  PROVE  IdsOver(p) = {i \in Ids : Over(in[i], p)}
<1>1. p[1] \in Int /\ p[2] \in Int
  BY DEF Plane
<1>2. ASSUME NEW i \in DOMAIN in, Over(in[i], p) PROVE i \in Ids
  <2>1. in[i] \in Bounds
    BY IdsAreProper
  <2> QED
    BY <1>1, <1>2, <2>1 DEF Bounds, Over, Ids, Proper
<1> QED
  BY <1>2 DEF IdsOver, Ids

(* Nothing to come is before the next event, nothing met after it. *)
LEMMA NextIsBetween ==
  ASSUME in \in Inputs, Len(in) <= MaxElements, EventsInOrder,
         NEW h, Meets(h)
  PROVE  /\ h.at \in Int
         /\ \A k \in sweep_h_events : k.at \in Int /\ h.at <= k.at
         /\ \A e \in Met : e.at \in Int /\ e.at <= h.at
         /\ \A e \in Met : Pending(e.at) => e.at = h.at
<1>1. \A e \in HEvents(in) : e.at \in Int
  BY EventsAreEdges
<1>2. h.at \in Int /\ h \in sweep_h_events
  BY <1>1 DEF EventsInOrder, Meets
<1>3. ASSUME NEW k \in sweep_h_events PROVE k.at \in Int /\ h.at <= k.at
  <2>1. k.at \in Int
    BY <1>1 DEF EventsInOrder
  <2>2. k = h \/ Before(h, k)
    BY DEF Meets
  <2> QED
    BY <1>2, <2>1, <2>2 DEF Before
<1>4. ASSUME NEW e \in Met PROVE e.at \in Int /\ e.at <= h.at
  <2>1. e.at \in Int /\ Before(e, h)
    BY <1>1, <1>2 DEF Met, EventsInOrder
  <2> QED
    BY <1>2, <2>1 DEF Before
<1>5. ASSUME NEW e \in Met, Pending(e.at) PROVE e.at = h.at
  <2>1. e.at \in Int /\ e.at <= h.at /\ h.at <= e.at
    BY <1>3, <1>4, <1>5 DEF Pending
  <2> QED
    BY <1>2, <2>1
<1> QED
  BY <1>2, <1>3, <1>4, <1>5

(* What the next stop finds: everything left of it is right. *)
Ready(w) ==
  /\ \A p \in Plane : p[1] < w => RightAt(p)
  /\ \A s \in started_rects : s.left < w
  /\ \A o \in out : o.right < w

LEMMA FreshIsReady ==
  ASSUME in \in Inputs, Len(in) <= MaxElements, EventsInOrder, Fresh,
         NEW h, Meets(h)
  PROVE  Ready(h.at)
<1>1. ASSUME NEW p \in Plane, p[1] < h.at PROVE IdsOver(p) = {}
  <2>1. ASSUME NEW i \in Ids, Over(in[i], p) PROVE FALSE
    <3>1. in[i].left \in Int /\ in[i].left <= p[1] /\ p[1] \in Int
      BY <2>1, EventsAreEdges DEF Over, Plane
    <3>2. LeftEdge(i) \in Met \/ LeftEdge(i) \in sweep_h_events
      BY EventsAreEdges DEF Met
    <3>3. h.at <= LeftEdge(i).at /\ h.at \in Int
      BY <3>1, <3>2, NextIsBetween DEF Fresh, LeftEdge
    <3> QED
      BY <1>1, <3>1, <3>3 DEF LeftEdge
  <2> QED
    BY <2>1, OverAreIds
<1> QED
  BY <1>1 DEF Fresh, Ready, RightAt

(* No edge lies between the last stop and the next. *)
LEMMA SameUntilNext ==
  ASSUME in \in Inputs, Len(in) <= MaxElements, EventsInOrder, Swept,
         NEW h, Meets(h), NEW p \in Plane, x <= p[1], p[1] < h.at
  PROVE  IdsOver(p) = AtHeight(ActiveAt(x), p[2])
<1>1. p[1] \in Int /\ p[2] \in Int /\ x \in Int /\ h.at \in Int
  BY NextIsBetween DEF Plane, Swept
<1>2. ASSUME NEW e \in HEvents(in)
      PROVE  e.at \in Int /\ (e.at <= p[1] <=> e.at <= x)
  <2>1. CASE e \in Met
    <3>1. e.at \in Int /\ (e.at <= x \/ e.at = h.at)
      BY <2>1, NextIsBetween DEF Swept
    <3> QED
      BY <1>1, <3>1
  <2>2. CASE e \in sweep_h_events
    <3>1. e.at \in Int /\ h.at <= e.at
      BY <2>2, NextIsBetween
    <3> QED
      BY <1>1, <3>1
  <2> QED
    BY <2>1, <2>2 DEF Met
<1>3. ASSUME NEW i \in Ids
      PROVE  Over(in[i], p) <=> i \in AtHeight(ActiveAt(x), p[2])
  <2>1. /\ in[i].left \in Int /\ (in[i].left <= p[1] <=> in[i].left <= x)
        /\ in[i].right \in Int /\ (in[i].right <= p[1] <=> in[i].right <= x)
    <3>1. LeftEdge(i) \in HEvents(in) /\ RightEdge(i) \in HEvents(in)
      BY EventsAreEdges
    <3> QED
      BY <1>2, <3>1 DEF LeftEdge, RightEdge
  <2>2. p[1] < in[i].right <=> x < in[i].right
    BY <1>1, <2>1
  <2> QED
    BY <2>1, <2>2 DEF Over, AtHeight, ActiveAt
<1>4. AtHeight(ActiveAt(x), p[2]) \subseteq Ids
  BY DEF AtHeight, ActiveAt
<1> QED
  BY <1>3, <1>4, OverAreIds

LEMMA SweptIsReady ==
  ASSUME in \in Inputs, Len(in) <= MaxElements, EventsInOrder, Shapes, Whole,
         Swept, NEW h, Meets(h)
  PROVE  Ready(h.at)
<1> DEFINE A == ActiveAt(x)
           R == ActiveRegions(Line(A))
<1>1. /\ x \in Int /\ h.at \in Int /\ x < h.at
      /\ A \in SUBSET Ids
  BY NextIsBetween DEF Swept, Meets, ActiveAt
<1>2. /\ \A s \in started_rects : s.left \in Int /\ s.left <= x
      /\ \A o \in out : o.right \in Int /\ o.right <= x
  BY DEF Swept, Shapes, StartedRect, OutRect
<1>3. ASSUME NEW p \in Plane, x <= p[1], p[1] < h.at PROVE RightAt(p)
  <2>1. p[1] \in Int /\ p[2] \in Int
    BY DEF Plane
  <2>2. IdsOver(p) = AtHeight(A, p[2])
    BY <1>3, SameUntilNext
  <2>3. \A o \in out : ~Over(o, p)
    BY <1>1, <1>2, <1>3, <2>1 DEF Over
  <2>4. ASSUME NEW s \in started_rects, InStrip(s, p)
        PROVE  \E r \in R : /\ SameKey(s, r) /\ r.top <= p[2] /\ p[2] < r.bottom
                            /\ s.id_set = IdsOver(p)
    <3>1. PICK r \in R : SameKey(s, r)
      BY DEF Swept
    <3>2. r.top <= p[2] /\ p[2] < r.bottom
      BY <2>4, <3>1 DEF InStrip, SameKey
    <3>3. r.id_set = AtHeight(A, p[2])
      BY <1>1, <2>1, <3>2, RegionHasIds
    <3> QED
      BY <2>2, <3>1, <3>2, <3>3 DEF SameKey
  <2>5. ASSUME IdsOver(p) # {} PROVE \E s \in started_rects : InStrip(s, p)
    <3>1. PICK r \in R : r.top <= p[2] /\ p[2] < r.bottom
      BY <1>1, <2>1, <2>2, <2>5, RegionsCover
    <3>2. PICK s \in started_rects : SameKey(s, r)
      BY DEF Swept
    <3>3. s.left <= p[1]
      BY <1>1, <1>2, <1>3, <2>1
    <3> QED
      BY <3>1, <3>2, <3>3 DEF SameKey, InStrip
  <2>6. ASSUME NEW s \in started_rects, NEW t \in started_rects,
               InStrip(s, p), InStrip(t, p)
        PROVE  s = t
    <3>1. PICK r \in R : SameKey(s, r) /\ r.top <= p[2] /\ p[2] < r.bottom
      BY <2>4, <2>6
    <3>2. PICK q \in R : SameKey(t, q) /\ q.top <= p[2] /\ p[2] < q.bottom
      BY <2>4, <2>6
    <3>3. r = q
      BY <1>1, <2>1, <3>1, <3>2, RegionsDisjoint
    <3> QED
      BY <3>1, <3>2, <3>3 DEF SameKey, Whole
  <2> HIDE DEF A, R
  <2> QED
    BY <2>3, <2>4, <2>5, <2>6 DEF RightAt
<1>4. ASSUME NEW p \in Plane, p[1] < h.at PROVE RightAt(p)
  <2>1. p[1] < x \/ x <= p[1]
    BY <1>1 DEF Plane
  <2> QED
    BY <1>3, <1>4, <2>1 DEF Swept
<1>5. /\ \A s \in started_rects : s.left < h.at
      /\ \A o \in out : o.right < h.at
  BY <1>1, <1>2
<1> QED
  BY <1>4, <1>5 DEF Ready
-------------------------------------------------------------------------------
(***************************************************************************)
(* A stop: the started rectangles that were not seen are put out, the      *)
(* regions seen for the first time are started.                            *)
(***************************************************************************)
Stops(h) ==
  /\ Meets(h) /\ ~MoreEdges(h)
  /\ x' = h.at
  /\ LET regions == ActiveRegions(sweep_v_events')
     IN  /\ started_rects' = (started_rects \ Unseen(regions))
                               \cup Started(regions, h.at)
         /\ out' = out \cup {Ended(s, h.at) : s \in Unseen(regions)}

(* After a stop every edge met is at the sweep line or left of it, every other
   one is right of it; the marks are those of the rectangles it crosses. *)
LEMMA StopPosition ==
  ASSUME in \in Inputs, Len(in) <= MaxElements, EventsInOrder, LineMarked,
         NEW h, Stops(h)
  PROVE  /\ \A k \in sweep_h_events' : k.at > h.at
         /\ \A e \in Met' : e.at <= h.at
         /\ sweep_v_events' = Line(ActiveAt(h.at))
         /\ Line(ActiveAt(x))' = Line(ActiveAt(h.at))
         /\ ActiveRegions(Line(ActiveAt(x)))' = ActiveRegions(Line(ActiveAt(h.at)))
<1>0. Meets(h) /\ x' = h.at /\ in' = in
  BY DEF Stops, Meets
<1>1. ASSUME NEW k \in sweep_h_events' PROVE k.at > h.at
  <2>1. k \in sweep_h_events \ {h} /\ h.at # k.at
    BY <1>0 DEF Stops, Meets, MoreEdges
  <2>2. k.at \in Int /\ h.at \in Int /\ h.at <= k.at
    BY <1>0, <2>1, NextIsBetween
  <2> QED
    BY <2>1, <2>2
<1>2. ASSUME NEW e \in Met' PROVE e.at <= h.at
  <2>1. e \in Met \/ e = h
    BY <1>0, MeetsEdge
  <2> QED
    BY <1>0, <2>1, NextIsBetween
<1>3. Marked' = ActiveAt(h.at)
  <2>1. /\ HEvents(in)' = HEvents(in) /\ Ids' = Ids /\ h.at \in Int
        /\ \A i : LeftEdge(i)' = LeftEdge(i) /\ RightEdge(i)' = RightEdge(i)
    BY <1>0, MeetsEdge DEF Ids, LeftEdge, RightEdge
  <2>2. ASSUME NEW e \in HEvents(in) PROVE e.at \in Int /\ (e \in Met' <=> e.at <= h.at)
    <3>1. e.at \in Int
      BY EventsAreEdges
    <3>2. e \in Met' \/ e \in sweep_h_events'
      BY <2>1 DEF Met
    <3> QED
      BY <1>1, <1>2, <2>1, <3>1, <3>2
  <2>3. ASSUME NEW i \in Ids
        PROVE  /\ LeftEdge(i) \in Met' <=> in[i].left <= h.at
               /\ RightEdge(i) \notin Met' <=> h.at < in[i].right
    <3>1. LeftEdge(i) \in HEvents(in) /\ RightEdge(i) \in HEvents(in)
      BY EventsAreEdges
    <3>2. /\ LeftEdge(i) \in Met' <=> in[i].left <= h.at
          /\ RightEdge(i) \in Met' <=> in[i].right <= h.at
      BY <2>2, <3>1 DEF LeftEdge, RightEdge
    <3>3. in[i].right \in Int /\ h.at \in Int
      BY <2>1, EventsAreEdges
    <3> QED
      BY <3>2, <3>3
  <2>4. Marked' = {i \in Ids : LeftEdge(i) \in Met' /\ RightEdge(i) \notin Met'}
    BY <2>1 DEF Marked
  <2> QED
    BY <2>3, <2>4 DEF ActiveAt
<1>4. /\ \A A : UNION {VEvents(i)' : i \in A} = Line(A)
      /\ ActiveAt(x)' = ActiveAt(h.at)
  BY <1>0 DEF Line, VEvents, ActiveAt, Ids
<1>5. sweep_v_events' = Line(ActiveAt(h.at))
  <2>1. LineMarked'
    BY <1>0, MeetsEdge
  <2>2. sweep_v_events' = UNION {VEvents(i)' : i \in Marked'}
    BY <2>1 DEF LineMarked, Line
  <2> QED
    BY <1>3, <1>4, <2>2
<1>6. Line(ActiveAt(x))' = Line(ActiveAt(h.at))
  <2>1. Line(ActiveAt(x))' = UNION {VEvents(i)' : i \in ActiveAt(x)'}
    BY DEF Line
  <2> QED
    BY <1>4, <2>1
<1>7. ActiveRegions(Line(ActiveAt(x)))' = ActiveRegions(Line(ActiveAt(x))')
  BY DEF ActiveRegions, ActiveSet
<1> QED
  BY <1>1, <1>2, <1>5, <1>6, <1>7

(* The regions become started rectangles, one for each that has none. *)
LEMMA StartedRegions ==
  ASSUME NEW R, NEW w \in Int,
         \A r \in R : /\ r \in [id_set : SUBSET Nat, top : Int, bottom : Int]
                      /\ r.id_set # {}
  PROVE  /\ \A t \in Started(R, w) :
              /\ t \in StartedRect /\ t.id_set # {} /\ t.left = w
              /\ \E r \in R : SameKey(t, r)
              /\ \A s \in started_rects : ~SameKey(s, t)
         /\ \A t, u \in Started(R, w) : SameKey(t, u) => t = u
         /\ \A r \in R : \/ \E s \in started_rects : SameKey(s, r)
                         \/ \E t \in Started(R, w) : SameKey(t, r)
<1> DEFINE New(r) == [id_set |-> r.id_set, left |-> w, top |-> r.top, bottom |-> r.bottom]
           F == {q \in R : \A s \in started_rects : ~SameKey(s, q)}
<1>1. Started(R, w) = {New(r) : r \in F}
  BY DEF Started
<1>2. ASSUME NEW t \in Started(R, w)
      PROVE  /\ t \in StartedRect /\ t.id_set # {} /\ t.left = w
             /\ \E r \in R : SameKey(t, r)
             /\ \A s \in started_rects : ~SameKey(s, t)
             /\ t = [id_set |-> t.id_set, left |-> w, top |-> t.top, bottom |-> t.bottom]
  <2>1. PICK r \in F : t = New(r)
    BY <1>1
  <2>2. t.id_set = r.id_set /\ t.top = r.top /\ t.bottom = r.bottom /\ t.left = w
    BY <2>1
  <2>3. t \in StartedRect
    BY <2>1 DEF StartedRect
  <2>4. SameKey(t, r) /\ \A s : SameKey(s, t) => SameKey(s, r)
    BY <2>2 DEF SameKey
  <2> QED
    BY <2>1, <2>2, <2>3, <2>4
<1>3. ASSUME NEW t \in Started(R, w), NEW u \in Started(R, w), SameKey(t, u)
      PROVE  t = u
  BY <1>2, <1>3 DEF SameKey
<1>4. ASSUME NEW r \in R, \A s \in started_rects : ~SameKey(s, r)
      PROVE  \E t \in Started(R, w) : SameKey(t, r)
  <2>1. New(r) \in Started(R, w)
    BY <1>1, <1>4
  <2>2. SameKey(New(r), r)
    BY DEF SameKey
  <2> HIDE DEF New
  <2> QED
    BY <2>1, <2>2
<1> QED
  BY <1>2, <1>3, <1>4
(* A started rectangle that is put out is over what it was over so far. *)
LEMMA EndedIsStrip ==
  ASSUME NEW s \in StartedRect, NEW w \in Int, s.left < w
  PROVE  /\ Ended(s, w) \in OutRect
         /\ Ended(s, w).left = s.left /\ Ended(s, w).right = w
         /\ Ended(s, w).id_set = s.id_set
         /\ \A t : SameKey(Ended(s, w), t) <=> SameKey(s, t)
         /\ \A p \in Plane : p[1] < w => (Over(Ended(s, w), p) <=> InStrip(s, p))
BY DEF Ended, StartedRect, OutRect, SameKey, Over, InStrip

(* The stop in terms of the regions of the sweep line. *)
StopsAt(R, w) ==
  /\ started_rects' = (started_rects \ Unseen(R)) \cup Started(R, w)
  /\ out' = out \cup {Ended(s, w) : s \in Unseen(R)}
  /\ w \in Int
  /\ \A r \in R : /\ r \in [id_set : SUBSET Nat, top : Int, bottom : Int]
                  /\ r.id_set # {}

LEMMA StopShapes ==
  ASSUME Shapes, NEW R, NEW w, Ready(w), StopsAt(R, w)
  PROVE  /\ Shapes'
         /\ \A s \in started_rects' : s.left <= w
         /\ \A o \in out' : o.right <= w
<1>1. w \in Int /\ Unseen(R) \subseteq started_rects
  BY DEF StopsAt, Unseen
<1>2. ASSUME NEW s \in started_rects'
      PROVE  s \in StartedRect /\ s.id_set # {} /\ s.left <= w
  <2>1. CASE s \in started_rects
    BY <1>1, <2>1 DEF Shapes, Ready, StartedRect
  <2>2. CASE s \in Started(R, w)
    BY <1>1, <2>2, StartedRegions DEF StopsAt
  <2> QED
    BY <2>1, <2>2 DEF StopsAt
<1>3. ASSUME NEW o \in out'
      PROVE  /\ o \in OutRect /\ o.id_set # {} /\ o.left < o.right
             /\ o.right <= w
  <2>1. CASE o \in out
    BY <1>1, <2>1 DEF Shapes, Ready, OutRect
  <2>2. ASSUME NEW s \in Unseen(R), o = Ended(s, w)
        PROVE  /\ o \in OutRect /\ o.id_set # {} /\ o.left < o.right
               /\ o.right <= w
    <3>1. s \in StartedRect /\ s.id_set # {} /\ s.left < w
      BY <1>1 DEF Shapes, Ready
    <3> QED
      BY <1>1, <2>2, <3>1, EndedIsStrip
  <2> QED
    BY <2>1, <2>2 DEF StopsAt
<1> QED
  BY <1>2, <1>3 DEF Shapes

LEMMA StopRight ==
  ASSUME Shapes, NEW R, NEW w, Ready(w), StopsAt(R, w), in' = in,
         NEW p \in Plane, p[1] < w
  PROVE  RightAt(p)'
<1>1. w \in Int /\ Unseen(R) \subseteq started_rects /\ p[1] \in Int
  BY DEF StopsAt, Unseen, Plane
<1>2. IdsOver(p)' = IdsOver(p) /\ RightAt(p)
  BY DEF IdsOver, Ready
<1>3. ASSUME NEW o \in out', Over(o, p)
      PROVE  \/ o \in out
             \/ \E s \in Unseen(R) : o = Ended(s, w) /\ InStrip(s, p) /\ o.id_set = s.id_set
  <2>1. ASSUME NEW s \in Unseen(R), o = Ended(s, w)
        PROVE  InStrip(s, p) /\ o.id_set = s.id_set
    <3>1. s \in StartedRect /\ s.left < w
      BY <1>1 DEF Shapes, Ready
    <3> QED
      BY <1>1, <1>3, <2>1, <3>1, EndedIsStrip
  <2> QED
    BY <2>1 DEF StopsAt
<1>4. ASSUME NEW s \in started_rects', InStrip(s, p)
      PROVE  s \in started_rects /\ s \notin Unseen(R)
  <2>1. s \notin Started(R, w)
    <3>1. s \in Started(R, w) => s.left = w
      BY <1>1, StartedRegions DEF StopsAt
    <3> QED
      BY <1>1, <1>4, <3>1 DEF InStrip
  <2> QED
    BY <2>1 DEF StopsAt
<1>5. ASSUME IdsOver(p) # {}
      PROVE  \/ \E o \in out' : Over(o, p)
             \/ \E s \in started_rects' : InStrip(s, p)
  <2>1. CASE \E o \in out : Over(o, p)
    BY <2>1 DEF StopsAt
  <2>2. ASSUME NEW s \in started_rects, InStrip(s, p)
        PROVE  \/ \E o \in out' : Over(o, p)
               \/ \E t \in started_rects' : InStrip(t, p)
    <3>1. CASE s \in Unseen(R)
      <4>1. s \in StartedRect /\ s.left < w
        BY DEF Shapes, Ready
      <4>2. Over(Ended(s, w), p)
        BY <1>1, <2>2, <4>1, EndedIsStrip
      <4> QED
        BY <3>1, <4>2 DEF StopsAt
    <3>2. CASE s \notin Unseen(R)
      BY <2>2, <3>2 DEF StopsAt
    <3> QED
      BY <3>1, <3>2
  <2> QED
    BY <1>2, <1>5, <2>1, <2>2 DEF RightAt
<1>6. ASSUME NEW o \in out', Over(o, p) PROVE o.id_set = IdsOver(p)
  BY <1>1, <1>2, <1>3, <1>6 DEF RightAt
<1>7. ASSUME NEW s \in started_rects', InStrip(s, p) PROVE s.id_set = IdsOver(p)
  BY <1>2, <1>4, <1>7 DEF RightAt
<1>8. ASSUME NEW o \in out', NEW q \in out', Over(o, p), Over(q, p) PROVE o = q
  BY <1>1, <1>2, <1>3, <1>8 DEF RightAt
<1>9. ASSUME NEW o \in out', NEW s \in started_rects', Over(o, p), InStrip(s, p)
      PROVE  FALSE
  BY <1>1, <1>2, <1>3, <1>4, <1>9 DEF RightAt
<1>10. ASSUME NEW s \in started_rects', NEW t \in started_rects',
              InStrip(s, p), InStrip(t, p)
       PROVE  s = t
  BY <1>2, <1>4, <1>10 DEF RightAt
<1> QED
  BY <1>2, <1>5, <1>6, <1>7, <1>8, <1>9, <1>10 DEF RightAt

LEMMA StopWhole ==
  ASSUME Shapes, Whole, NEW R, NEW w, Ready(w), StopsAt(R, w)
  PROVE  Whole'
<1>1. w \in Int /\ Unseen(R) \subseteq started_rects
  BY DEF StopsAt, Unseen
<1>2. \A s \in started_rects : s \in StartedRect /\ s.left \in Int /\ s.left < w
  BY DEF Shapes, Ready, StartedRect
<1>3. \A o \in out : /\ o.left \in Int /\ o.right \in Int
                     /\ o.left < o.right /\ o.right < w
  BY DEF Shapes, Ready, OutRect
<1>4. ASSUME NEW s \in Unseen(R)
      PROVE  /\ Ended(s, w).left = s.left /\ Ended(s, w).right = w
             /\ \A t : SameKey(Ended(s, w), t) <=> SameKey(s, t)
  BY <1>1, <1>2, EndedIsStrip
<1>5. \A t \in Started(R, w) : /\ t.left = w
                               /\ \E r \in R : SameKey(t, r)
                               /\ \A s \in started_rects : ~SameKey(s, t)
  BY StartedRegions DEF StopsAt
<1>6. \A s, t, r : SameKey(s, t) /\ SameKey(t, r) => SameKey(s, r)
  BY DEF SameKey
<1>7. \A s, t : SameKey(s, t) => SameKey(t, s)
  BY DEF SameKey
<1>8. \A r, s \in out : r.right = s.left => ~SameKey(r, s)
  BY DEF Whole, NoSplit, SameKey
<1>9. ASSUME NEW r \in out', NEW s \in out', r.right = s.left PROVE ~SameKey(r, s)
  <2>1. CASE r \in out /\ s \in out
    BY <1>8, <1>9, <2>1
  <2>2. ASSUME NEW t \in Unseen(R), r \in out, s = Ended(t, w)
        PROVE  ~SameKey(r, s)
    <3>1. r.right = t.left
      BY <1>4, <1>9, <2>2
    <3>2. ~SameKey(r, t)
      BY <1>1, <2>2, <3>1 DEF Whole
    <3> QED
      BY <1>4, <1>7, <2>2, <3>2
  <2>3. ASSUME NEW t \in Unseen(R), r = Ended(t, w) PROVE FALSE
    <3>1. s.left = w
      BY <1>4, <1>9, <2>3
    <3>2. \/ s \in out
          \/ \E u \in Unseen(R) : s = Ended(u, w)
      BY DEF StopsAt
    <3>3. s.left \in Int /\ s.left < w
      BY <1>1, <1>2, <1>3, <1>4, <3>2
    <3> QED
      BY <1>1, <3>1, <3>3
  <2> QED
    BY <2>1, <2>2, <2>3 DEF StopsAt
<1>10. ASSUME NEW o \in out', NEW s \in started_rects', o.right = s.left
       PROVE  ~SameKey(o, s)
  <2>1. CASE s \in Started(R, w)
    <3>1. s.left = w
      BY <1>5, <2>1
    <3>2. PICK t \in Unseen(R) : o = Ended(t, w)
      BY <1>1, <1>3, <1>10, <3>1 DEF StopsAt
    <3>3. ~SameKey(t, s)
      BY <1>1, <1>5, <2>1
    <3> QED
      BY <1>4, <3>2, <3>3
  <2>2. CASE s \in started_rects
    <3>1. s.left # w
      BY <1>1, <1>2, <2>2
    <3>2. o \in out
      BY <1>4, <1>10, <3>1 DEF StopsAt
    <3> QED
      BY <1>10, <2>2, <3>2 DEF Whole
  <2> QED
    BY <2>1, <2>2 DEF StopsAt
<1>11. ASSUME NEW s \in started_rects', NEW t \in started_rects', SameKey(s, t)
       PROVE  s = t
  <2>1. CASE s \in started_rects /\ t \in started_rects
    BY <1>11, <2>1 DEF Whole
  <2>2. CASE s \in Started(R, w) /\ t \in Started(R, w)
    BY <1>11, <2>2, StartedRegions DEF StopsAt
  <2>3. CASE s \in started_rects /\ t \in Started(R, w)
    BY <1>5, <1>11, <2>3
  <2>4. CASE s \in Started(R, w) /\ t \in started_rects
    BY <1>5, <1>7, <1>11, <2>4
  <2> QED
    BY <2>1, <2>2, <2>3, <2>4 DEF StopsAt
<1>12. NoSplit'
  BY <1>9 DEF NoSplit, SameKey
<1> QED
  BY <1>10, <1>11, <1>12 DEF Whole
(* What is started then are the regions the sweep line crosses. *)
LEMMA StopRegions ==
  ASSUME Shapes, NEW R, NEW w, StopsAt(R, w)
  PROVE  /\ \A r \in R : \E s \in started_rects' : SameKey(s, r)
         /\ \A s \in started_rects' : \E r \in R : SameKey(s, r)
<1>1. ASSUME NEW r \in R PROVE \E s \in started_rects' : SameKey(s, r)
  <2>1. CASE \E s \in started_rects : SameKey(s, r)
    <3>1. PICK s \in started_rects : SameKey(s, r)
      BY <2>1
    <3>2. s \notin Unseen(R)
      BY <3>1 DEF Unseen
    <3> QED
      BY <3>1, <3>2 DEF StopsAt
  <2>2. CASE \E t \in Started(R, w) : SameKey(t, r)
    BY <2>2 DEF StopsAt
  <2>3. w \in Int /\ \A q \in R : /\ q \in [id_set : SUBSET Nat, top : Int, bottom : Int]
                                 /\ q.id_set # {}
    BY DEF StopsAt
  <2>4. \/ \E s \in started_rects : SameKey(s, r)
        \/ \E t \in Started(R, w) : SameKey(t, r)
    BY <2>3, StartedRegions
  <2> QED
    BY <2>1, <2>2, <2>4
<1>2. ASSUME NEW s \in started_rects' PROVE \E r \in R : SameKey(s, r)
  <2>1. CASE s \in started_rects \ Unseen(R)
    BY <2>1 DEF Unseen
  <2>2. CASE s \in Started(R, w)
    BY <2>2, StartedRegions DEF StopsAt
  <2> QED
    BY <2>1, <2>2 DEF StopsAt
<1> QED
  BY <1>1, <1>2

LEMMA StopStep ==
  ASSUME in \in Inputs, Len(in) <= MaxElements, Sweeping, NEW h, Stops(h)
  PROVE  Sweeping'
<1> DEFINE R == ActiveRegions(Line(ActiveAt(h.at)))
<1>1. EventsInOrder /\ LineMarked /\ Shapes /\ Whole /\ (Fresh \/ Swept)
  BY DEF Sweeping
<1>2. Meets(h) /\ x' = h.at /\ in' = in
  BY DEF Stops, Meets
<1>3. EventsInOrder' /\ LineMarked' /\ h.at \in Int
  BY <1>1, <1>2, MeetsEdge
<1>4. Ready(h.at)
  BY <1>1, <1>2, FreshIsReady, SweptIsReady
<1>5. /\ \A k \in sweep_h_events' : k.at > h.at
      /\ \A e \in Met' : e.at <= h.at
      /\ sweep_v_events' = Line(ActiveAt(h.at))
      /\ ActiveRegions(Line(ActiveAt(x)))' = R
  BY <1>1, StopPosition
<1>6. StopsAt(R, h.at)
  <2>1. ActiveAt(h.at) \in SUBSET Ids
    BY DEF ActiveAt
  <2>2. \A r \in R : /\ r \in [id_set : SUBSET Nat, top : Int, bottom : Int]
                     /\ r.id_set # {}
    BY <2>1, RegionHasIds
  <2>3. /\ started_rects' = (started_rects \ Unseen(R)) \cup Started(R, h.at)
        /\ out' = out \cup {Ended(s, h.at) : s \in Unseen(R)}
    BY <1>5 DEF Stops
  <2> QED
    BY <1>3, <2>2, <2>3 DEF StopsAt
<1> HIDE DEF R
<1>7. Whole'
  BY <1>1, <1>4, <1>6, StopWhole
<1>8. /\ Shapes'
      /\ \A s \in started_rects' : s.left <= h.at
      /\ \A o \in out' : o.right <= h.at
  BY <1>1, <1>4, <1>6, StopShapes
<1>9. \A p \in Plane : p[1] < h.at => RightAt(p)'
  BY <1>1, <1>2, <1>4, <1>6, StopRight
<1>10. /\ \A r \in R : \E s \in started_rects' : SameKey(s, r)
       /\ \A s \in started_rects' : \E r \in R : SameKey(s, r)
  BY <1>1, <1>6, StopRegions
<1>11. Swept'
  BY <1>2, <1>3, <1>5, <1>8, <1>9, <1>10 DEF Swept
<1> QED
  BY <1>3, <1>7, <1>8, <1>11 DEF Sweeping

(* An iteration that only marks an edge: the next event is at the same place,
   and nothing else changes. *)
LEMMA MarkStep ==
  ASSUME in \in Inputs, Len(in) <= MaxElements, Sweeping,
         NEW h, Meets(h), MoreEdges(h), UNCHANGED <<in, started_rects, out, x>>
  PROVE  Sweeping'
<1>1. EventsInOrder /\ LineMarked /\ Shapes /\ Whole /\ (Fresh \/ Swept)
  BY DEF Sweeping
<1>2. EventsInOrder' /\ LineMarked' /\ Met' = Met \cup {h}
  BY <1>1, MeetsEdge
<1>3. Shapes'
  BY <1>1 DEF Shapes
<1>4. Whole'
  BY <1>1 DEF Whole, NoSplit
<1>5. \A at : Pending(at) => Pending(at)'
  BY DEF Pending, Meets, MoreEdges
<1>6. Pending(h.at)'
  BY DEF Pending, Meets, MoreEdges
<1>7. CASE Fresh
  <2>1. Fresh'
    BY <1>2, <1>5, <1>6, <1>7 DEF Fresh
  <2> QED
    BY <1>2, <1>3, <1>4, <2>1 DEF Sweeping
<1>8. CASE Swept
  <2>1. \A p : RightAt(p)' <=> RightAt(p)
    BY DEF RightAt, IdsOver
  <2>2. \A k \in sweep_h_events' : k.at > x
    BY <1>8 DEF Swept, Meets
  <2>3. \A e \in Met' : e.at <= x \/ Pending(e.at)'
    BY <1>2, <1>5, <1>6, <1>8 DEF Swept
  <2>4. ActiveRegions(Line(ActiveAt(x)))' = ActiveRegions(Line(ActiveAt(x)))
    BY DEF ActiveRegions, ActiveSet, Line, VEvents, ActiveAt, Ids
  <2>5. /\ x' \in Int
        /\ \A s \in started_rects' : s.left <= x'
        /\ \A o \in out' : o.right <= x'
    BY <1>8 DEF Swept
  <2>6. \A p \in Plane : p[1] < x' => RightAt(p)'
    BY <1>8, <2>1 DEF Swept
  <2>7. /\ \A r \in ActiveRegions(Line(ActiveAt(x)))' :
             \E s \in started_rects' : SameKey(s, r)
        /\ \A s \in started_rects' :
             \E r \in ActiveRegions(Line(ActiveAt(x)))' : SameKey(s, r)
    BY <1>8, <2>4 DEF Swept
  <2>8. Swept'
    BY <2>2, <2>3, <2>5, <2>6, <2>7 DEF Swept
  <2> QED
    BY <1>2, <1>3, <1>4, <2>8 DEF Sweeping
<1> QED
  BY <1>1, <1>7, <1>8
-------------------------------------------------------------------------------
LEMMA InitInv == Init => IInv
<1> SUFFICES ASSUME Init PROVE IInv
  OBVIOUS
<1>1. in \in Inputs /\ sweep_h_events = HEvents(in) /\ out = {} /\ started_rects = {}
  BY DEF Init
<1>2. Len(in) > MaxElements => sweep_h_events = {}
  BY <1>1 DEF HEvents
<1>3. Met = {}
  BY <1>1 DEF Met
<1>4. EventsInOrder /\ Fresh
  BY <1>1, <1>3 DEF EventsInOrder, Fresh, Init
<1>5. LineMarked
  BY <1>3 DEF Init, LineMarked, Marked, Line
<1>6. Shapes /\ Whole
  BY <1>1 DEF Shapes, Whole, NoSplit
<1> QED
  BY <1>1, <1>2, <1>4, <1>5, <1>6 DEF IInv, Sweeping

LEMMA NextInv == IInv /\ [Next]_vars => IInv'
<1> SUFFICES ASSUME IInv, [Next]_vars PROVE IInv'
  OBVIOUS
<1>1. CASE UNCHANGED vars
  <2>1. UNCHANGED <<in, sweep_h_events, sweep_v_events, started_rects, out, x>>
    BY <1>1 DEF vars
  <2>2. EventsInOrder' <=> EventsInOrder
    BY <2>1 DEF EventsInOrder, Met
  <2>3. LineMarked' <=> LineMarked
    BY <2>1 DEF LineMarked, Marked, Met, Ids, Line, VEvents, LeftEdge, RightEdge
  <2>4. (Shapes' <=> Shapes) /\ (Whole' <=> Whole)
    BY <2>1 DEF Shapes, Whole, NoSplit
  <2>5. Fresh' <=> Fresh
    BY <2>1 DEF Fresh, Met, Pending
  <2>6. Swept' <=> Swept
    <3>1. ActiveRegions(Line(ActiveAt(x)))' = ActiveRegions(Line(ActiveAt(x)))
      BY <2>1 DEF ActiveRegions, ActiveSet, Line, VEvents, ActiveAt, Ids
    <3>2. \A p : RightAt(p)' <=> RightAt(p)
      BY <2>1 DEF RightAt, IdsOver
    <3>3. /\ Met' = Met
          /\ \A at : Pending(at)' <=> Pending(at)
      BY <2>1 DEF Met, Pending
    <3> QED
      BY <2>1, <3>1, <3>2, <3>3 DEF Swept
  <2>7. Sweeping' <=> Sweeping
    BY <2>2, <2>3, <2>4, <2>5, <2>6 DEF Sweeping
  <2> QED
    BY <2>1, <2>7 DEF IInv
<1>2. CASE Len(in) > MaxElements
  <2>1. sweep_h_events = {}
    BY <1>2 DEF IInv
  <2>2. UNCHANGED vars
    BY <2>1 DEF Next, MarkEdge, Stop, Return
  <2> QED
    BY <1>1, <2>2
<1>3. CASE Len(in) <= MaxElements /\ ~UNCHANGED vars
  <2>1. in \in Inputs /\ Sweeping /\ Len(in) <= MaxElements
    BY <1>3 DEF IInv
  <2>2. in' = in
    BY <1>3 DEF Next, MarkEdge, Stop, Return
  <2>3. Sweeping' => IInv'
    <3>1. Len(in) \in Nat /\ MaxElements \in Nat
      BY <2>1, IdsAreProper, RectConstants
    <3> QED
      BY <2>1, <2>2, <3>1 DEF IInv
  <2>4. CASE MarkEdge
    <3>1. PICK h \in sweep_h_events : Meets(h) /\ MoreEdges(h)
      BY <2>2, <2>4 DEF MarkEdge, Meets
    <3>2. UNCHANGED <<in, started_rects, out, x>>
      BY <2>4 DEF MarkEdge
    <3> QED
      BY <2>1, <2>3, <3>1, <3>2, MarkStep
  <2>5. CASE Stop
    <3>1. PICK h \in sweep_h_events : Stops(h)
      BY <2>5 DEF Stop, Stops, Meets
    <3> QED
      BY <2>1, <2>3, <3>1, StopStep
  <2> QED
    BY <1>3, <2>4, <2>5 DEF Next, Return
<1>4. in \in Inputs /\ Len(in) \in Nat
  BY IdsAreProper DEF IInv
<1> QED
  BY <1>1, <1>2, <1>3, <1>4, RectConstants

(* The inductive invariant holds in every reachable state. *)
THEOREM Invariance == Spec => []IInv
BY InitInv, NextInv, PTL DEF Spec
-------------------------------------------------------------------------------
(* Everything met and nothing to come: nothing is left started, and no input
   is right of the sweep line. *)
LEMMA AllMet ==
  ASSUME in \in Inputs, Len(in) <= MaxElements, EventsInOrder, Swept,
         sweep_h_events = {}
  PROVE  /\ started_rects = {}
         /\ \A p \in Plane : p[1] >= x => IdsOver(p) = {}
<1>1. ASSUME NEW i \in Ids PROVE in[i].right \in Int /\ in[i].right <= x
  <2>1. RightEdge(i) \in Met /\ in[i].right \in Int
    BY EventsAreEdges DEF Met
  <2>2. ~Pending(RightEdge(i).at)
    BY DEF Pending
  <2> QED
    BY <2>1, <2>2 DEF Swept, RightEdge
<1>2. x \in Int
  BY DEF Swept
<1>3. ActiveAt(x) = {}
  BY <1>1, <1>2 DEF ActiveAt
<1>4. ActiveRegions(Line(ActiveAt(x))) = {}
  <2>1. Edges({}) = {}
    BY DEF Edges
  <2> QED
    BY <1>3, <2>1, RegionsAreRegions DEF Region
<1>5. started_rects = {}
  BY <1>4 DEF Swept
<1>6. ASSUME NEW p \in Plane, p[1] >= x PROVE IdsOver(p) = {}
  <2>1. p[1] \in Int
    BY DEF Plane
  <2>2. \A i \in Ids : ~Over(in[i], p)
    BY <1>1, <1>2, <1>6, <2>1 DEF Over
  <2> QED
    BY <2>2, OverAreIds
<1> QED
  BY <1>5, <1>6

(* With no event left at all nothing was there to be met. *)
LEMMA FreshIsEmpty ==
  ASSUME in \in Inputs, Len(in) <= MaxElements, EventsInOrder, Fresh, AtStop,
         NEW p \in Plane, p[1] < x \/ sweep_h_events = {}
  PROVE  IdsOver(p) = {}
<1>0. x \in Int
  BY DEF Fresh
<1>1. ASSUME NEW i \in Ids
      PROVE  in[i].left \in Int /\ in[i].left > x /\ sweep_h_events # {}
  <2>1. LeftEdge(i) \in HEvents(in) /\ in[i].left \in Int
    BY EventsAreEdges
  <2>2. PICK k \in sweep_h_events : k.at = LeftEdge(i).at
    BY <2>1 DEF Fresh, Met, Pending
  <2>3. k.at > x
    BY DEF AtStop
  <2> QED
    BY <2>1, <2>2, <2>3 DEF LeftEdge
<1>2. \A i \in Ids : ~Over(in[i], p)
  BY <1>0, <1>1 DEF Over, Plane
<1> QED
  BY <1>2, OverAreIds

LEMMA AtMostOne ==
  ASSUME NEW D, \A r, s \in D : r = s
  PROVE  Cardinality(D) <= 1
<1>1. CASE D = {}
  BY <1>1, FS_EmptySet
<1>2. CASE D # {}
  <2>1. PICK d : D = {d}
    BY <1>2
  <2> QED
    BY <2>1, FS_Singleton
<1> QED
  BY <1>1, <1>2

LEMMA PointsInPlane ==
  ASSUME in \in Inputs
  PROVE  Points \subseteq Plane
<1>1. ASSUME NEW i \in DOMAIN in
      PROVE  {in[i].left, in[i].right, in[i].top, in[i].bottom} \subseteq Int
  BY IdsAreProper DEF Bounds
<1>2. Coordinates \subseteq Int
  BY <1>1 DEF Coordinates
<1> QED
  BY <1>2 DEF Points, Plane

(* Rectangles that are right at every one of some points separate the input
   there. *)
LEMMA RightSeparates ==
  ASSUME NEW rects, NEW points,
         \A p \in points :
           /\ IdsOver(p) # {} => \E r \in rects : Over(r, p)
           /\ \A r \in rects : Over(r, p) => r.id_set = IdsOver(p) /\ r.id_set # {}
           /\ \A r, s \in rects : Over(r, p) /\ Over(s, p) => r = s
  PROVE  Separates(rects, points) /\ Disjoint(rects, points)
<1>1. ASSUME NEW p \in points
      PROVE  {r.id_set : r \in {q \in rects : Over(q, p)}}
               = IF IdsOver(p) = {} THEN {} ELSE {IdsOver(p)}
  <2>1. CASE IdsOver(p) = {}
    <3>1. {q \in rects : Over(q, p)} = {}
      BY <2>1
    <3> QED
      BY <2>1, <3>1
  <2>2. CASE IdsOver(p) # {}
    <3>1. \E r \in {q \in rects : Over(q, p)} : r.id_set = IdsOver(p)
      BY <2>2
    <3>2. \A r \in {q \in rects : Over(q, p)} : r.id_set = IdsOver(p)
      OBVIOUS
    <3> QED
      BY <2>2, <3>1, <3>2
  <2> QED
    BY <2>1, <2>2
<1>2. ASSUME NEW p \in points
      PROVE  Cardinality({r \in rects : Over(r, p)}) <= 1
  BY AtMostOne
<1> QED
  BY <1>1, <1>2 DEF Separates, Disjoint

(* Between stops too, the output and what was started are right for everything
   the sweep line has passed. *)
LEMMA PassedIsRight ==
  ASSUME in \in Inputs, Len(in) <= MaxElements, Sweeping, AtStop,
         NEW p \in Plane, p[1] < x, NEW rects,
         rects = out \cup {Ended(s, x) : s \in started_rects}
  PROVE  /\ IdsOver(p) # {} => \E r \in rects : Over(r, p)
         /\ \A r \in rects : Over(r, p) => r.id_set = IdsOver(p) /\ r.id_set # {}
         /\ \A r, s \in rects : Over(r, p) /\ Over(s, p) => r = s
<1>1. EventsInOrder /\ Shapes /\ (Fresh \/ Swept)
  BY DEF Sweeping
<1>2. CASE Fresh
  BY <1>1, <1>2, FreshIsEmpty DEF Fresh
<1>3. CASE Swept
  <2>1. p[1] \in Int /\ x \in Int /\ RightAt(p)
    BY <1>3 DEF Swept, Plane
  <2>2. ASSUME NEW s \in started_rects
        PROVE  /\ Over(Ended(s, x), p) <=> InStrip(s, p)
               /\ Ended(s, x).id_set = s.id_set
    BY <2>1 DEF Over, InStrip, Ended
  <2>3. /\ \A s \in started_rects : s.id_set # {}
        /\ \A o \in out : o.id_set # {}
    BY <1>1 DEF Shapes
  <2>4. ASSUME NEW r \in rects, Over(r, p)
        PROVE  \/ r \in out
               \/ \E s \in started_rects : /\ r = Ended(s, x) /\ InStrip(s, p)
                                           /\ r.id_set = s.id_set
    BY <2>2, <2>4
  <2>5. ASSUME IdsOver(p) # {} PROVE \E r \in rects : Over(r, p)
    BY <2>1, <2>2, <2>5 DEF RightAt
  <2>6. ASSUME NEW r \in rects, Over(r, p)
        PROVE  r.id_set = IdsOver(p) /\ r.id_set # {}
    BY <2>1, <2>3, <2>4, <2>6 DEF RightAt
  <2>7. ASSUME NEW r \in rects, NEW s \in rects, Over(r, p), Over(s, p) PROVE r = s
    BY <2>1, <2>4, <2>7 DEF RightAt
  <2> QED
    BY <2>5, <2>6, <2>7
<1> QED
  BY <1>1, <1>2, <1>3

(* In the end it is the output alone, for the whole plane. *)
LEMMA EndIsRight ==
  ASSUME in \in Inputs, Len(in) <= MaxElements, Sweeping, sweep_h_events = {}
  PROVE  /\ started_rects = {}
         /\ \A p \in Plane :
              /\ IdsOver(p) # {} => \E r \in out : Over(r, p)
              /\ \A r \in out : Over(r, p) => r.id_set = IdsOver(p) /\ r.id_set # {}
              /\ \A r, s \in out : Over(r, p) /\ Over(s, p) => r = s
<1>1. EventsInOrder /\ Shapes /\ (Fresh \/ Swept) /\ AtStop
  BY DEF Sweeping, AtStop
<1>2. CASE Fresh
  <2>1. out = {} /\ started_rects = {}
    BY <1>2 DEF Fresh
  <2>2. \A p \in Plane : IdsOver(p) = {}
    BY <1>1, <1>2, FreshIsEmpty
  <2> QED
    BY <2>1, <2>2
<1>3. CASE Swept
  <2>1. /\ started_rects = {} /\ x \in Int
        /\ \A p \in Plane : p[1] >= x => IdsOver(p) = {}
    BY <1>1, <1>3, AllMet DEF Swept
  <2>2. ASSUME NEW p \in Plane
        PROVE  /\ IdsOver(p) # {} => \E r \in out : Over(r, p)
               /\ \A r \in out : Over(r, p) => r.id_set = IdsOver(p) /\ r.id_set # {}
               /\ \A r, s \in out : Over(r, p) /\ Over(s, p) => r = s
    <3>1. p[1] \in Int
      BY DEF Plane
    <3>2. CASE p[1] < x
      <4>1. RightAt(p)
        BY <1>3, <3>2 DEF Swept
      <4> QED
        BY <1>1, <2>1, <4>1 DEF RightAt, Shapes
    <3>3. CASE p[1] >= x
      <4>1. ASSUME NEW o \in out PROVE ~Over(o, p)
        <5>1. o.right \in Int /\ o.right <= x
          BY <1>1, <1>3 DEF Shapes, OutRect, Swept
        <5> QED
          BY <2>1, <3>1, <3>3, <5>1 DEF Over
      <4> QED
        BY <2>1, <3>3, <4>1
    <3> QED
      BY <2>1, <3>1, <3>2, <3>3
  <2> QED
    BY <2>1, <2>2
<1> QED
  BY <1>1, <1>2, <1>3
-------------------------------------------------------------------------------
(* "separates up to a maximum of 64 input rectangles into mutually non-
   overlapping rectangles that cover the exact same area" (separate_rects.h),
   with the right set of rectangles each, for any number of rectangles
   anywhere; and before the end, for what the sweep line has passed. *)
THEOREM Separated == Spec => []SweepSeparates
<1>1. IInv => SweepSeparates
  <2> SUFFICES ASSUME IInv, AtStop, Len(in) <= MaxElements PROVE SweepSeparates
    BY DEF SweepSeparates
  <2> DEFINE passed == {p \in Points : p[1] < x}
             rects == out \cup {Ended(s, x) : s \in started_rects}
  <2>1. in \in Inputs /\ Sweeping
    BY DEF IInv
  <2>2. Points \subseteq Plane
    BY <2>1, PointsInPlane
  <2>3. Separates(rects, passed) /\ Disjoint(rects, passed)
    <3>1. \A p \in passed :
            /\ IdsOver(p) # {} => \E r \in rects : Over(r, p)
            /\ \A r \in rects : Over(r, p) => r.id_set = IdsOver(p) /\ r.id_set # {}
            /\ \A r, s \in rects : Over(r, p) /\ Over(s, p) => r = s
      BY <2>1, <2>2, PassedIsRight
    <3> HIDE DEF rects, passed
    <3> QED
      BY <3>1, RightSeparates
  <2>4. ASSUME sweep_h_events = {}
        PROVE  started_rects = {} /\ Separates(out, Points)
    <3>1. /\ started_rects = {}
          /\ \A p \in Points :
               /\ IdsOver(p) # {} => \E r \in out : Over(r, p)
               /\ \A r \in out : Over(r, p) => r.id_set = IdsOver(p) /\ r.id_set # {}
               /\ \A r, s \in out : Over(r, p) /\ Over(s, p) => r = s
      BY <2>1, <2>2, <2>4, EndIsRight
    <3> QED
      BY <3>1, RightSeparates
  <2> QED
    BY <2>3, <2>4 DEF SweepSeparates
<1>2. QED
  BY <1>1, Invariance, PTL

(* A region that goes on is put out as one rectangle. *)
THEOREM NoRegionSplit == Spec => []NoSplit
<1>1. IInv => NoSplit
  <2> SUFFICES ASSUME IInv PROVE NoSplit
    OBVIOUS
  <2>1. CASE Len(in) <= MaxElements
    BY <2>1 DEF IInv, Sweeping, Whole
  <2>2. CASE Len(in) > MaxElements
    BY <2>2 DEF IInv, NoSplit
  <2>3. Len(in) \in Nat /\ MaxElements \in Nat
    BY IdsAreProper, RectConstants DEF IInv
  <2> QED
    BY <2>1, <2>2, <2>3
<1>2. QED
  BY <1>1, Invariance, PTL

(* Not only at the corners that TLC looks at: when the sweep ends the output
   has, at every point of the plane, one rectangle with the inputs over it, or
   none where there is no input. *)
THEOREM PlaneSeparated ==
  Spec => [](sweep_h_events = {} /\ Len(in) <= MaxElements =>
               Separates(out, Plane) /\ Disjoint(out, Plane))
<1>1. IInv => (sweep_h_events = {} /\ Len(in) <= MaxElements =>
                 Separates(out, Plane) /\ Disjoint(out, Plane))
  <2> SUFFICES ASSUME IInv, sweep_h_events = {}, Len(in) <= MaxElements
               PROVE  Separates(out, Plane) /\ Disjoint(out, Plane)
    OBVIOUS
  <2>1. \A p \in Plane :
          /\ IdsOver(p) # {} => \E r \in out : Over(r, p)
          /\ \A r \in out : Over(r, p) => r.id_set = IdsOver(p) /\ r.id_set # {}
          /\ \A r, s \in out : Over(r, p) /\ Over(s, p) => r = s
    BY EndIsRight DEF IInv
  <2> QED
    BY <2>1, RightSeparates
<1>2. QED
  BY <1>1, Invariance, PTL
===============================================================================
