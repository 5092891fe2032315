--------------------------- MODULE NativeBatchProofs ---------------------------
(***************************************************************************)
(* Theorems about NativeBatch, for any boards, any operations and batches  *)
(* of any length: what the document declares and what KiCad's setters do   *)
(* agree, the operations of a batch commute, and the board stays a board.  *)
(*                                                                         *)
(* An operation is first shown to change a board item by item (Eff), which *)
(* the setters and the expectation then share; two operations of a batch   *)
(* name no item twice but for a footprint's fields, and so neither spoils  *)
(* what the other one looks for (FitKept), nor undoes it (Commute).        *)
(***************************************************************************)
EXTENDS NativeBatch, FiniteSetTheorems, TLAPS

-----------------------------------------------------------------------------
(* Geometry.                                                               *)

\* A turn is a quarter turn, a half turn, or three quarters.
LEMMA TurnTyped ==
    ASSUME NEW r \in 0 .. 3, NEW s \in 0 .. 3
    PROVE  (s - r) % 4 \in 0 .. 3
BY SMT

\* Points stay points.
LEMMA PointsTyped ==
    ASSUME NEW p \in Points, NEW q \in Points, NEW k \in 0 .. 3
    PROVE  Plus(p, q) \in Points /\ Minus(p, q) \in Points /\ Turned(p, k) \in Points
BY DEF Points, Plus, Minus, Turned

\* KiCad's turn about the old position and move by the difference put a point
\* where the tool reckons it to go.
LEMMA Carried ==
    ASSUME NEW p \in Points, NEW a \in Points, NEW c \in Points, NEW k \in 0 .. 3
    PROVE  Plus(Plus(a, Turned(Minus(p, a), k)), Minus(c, a)) = Plus(c, Turned(Minus(p, a), k))
<1>1. PICK q \in Points : q = Turned(Minus(p, a), k)
  BY PointsTyped
<1>2. Plus(Plus(a, q), Minus(c, a)) = Plus(c, q)
  BY DEF Points, Plus, Minus
<1> QED
  BY <1>1, <1>2

\* So do a move by the difference and a turn about the new position.
LEMMA Pushed ==
    ASSUME NEW p \in Points, NEW a \in Points, NEW c \in Points
    PROVE  Minus(Plus(p, Minus(c, a)), c) = Minus(p, a)
BY DEF Points, Plus, Minus

\* An angle wrapped twice is wrapped once.
LEMMA WrappedOnce ==
    ASSUME NEW r \in 0 .. 3, NEW a \in 0 .. 3, NEW c \in 0 .. 3
    PROVE  /\ Wrapped(r + ((c - a) % 4)) = Wrapped(r + c - a)
           /\ Wrapped(r + c - a) \in 0 .. 3
BY SMT DEF Wrapped

-----------------------------------------------------------------------------
(* A group move.                                                           *)

\* An item as the tool reckons that a move takes it along.
Along(item, a, c, k) == OnPoints(item, LAMBDA p : Plus(c, Turned(Minus(p, a), k)))

\* KiCad's turn and move take an item there.
LEMMA ItemMoved ==
    ASSUME NEW item \in Tracks \cup Vias \cup Zones,
           NEW a \in Points, NEW c \in Points, NEW k \in 0 .. 3
    PROVE  /\ Move(Rotate(item, a, k), Minus(c, a)) = Along(item, a, c, k)
           /\ Along(item, a, c, k) \in Tracks \cup Vias \cup Zones
           /\ Along(item, a, c, k).kind = item.kind
<1> DEFINE F(p) == Plus(a, Turned(Minus(p, a), k))
           G(p) == Plus(p, Minus(c, a))
           H(p) == Plus(c, Turned(Minus(p, a), k))
<1>1. ASSUME NEW p \in Points
      PROVE  G(F(p)) = H(p) /\ H(p) \in Points
  <2>1. G(F(p)) = H(p)
    BY Carried
  <2>2. Minus(p, a) \in Points
    BY PointsTyped
  <2>3. Turned(Minus(p, a), k) \in Points
    BY <2>2, PointsTyped
  <2>4. H(p) \in Points
    BY <2>3, PointsTyped
  <2> QED
    BY <2>1, <2>4
<1>2. Rotate(item, a, k) = OnPoints(item, F)
  BY DEF Rotate
<1>3. \A x : Move(x, Minus(c, a)) = OnPoints(x, G)
  BY DEF Move
<1>4. Along(item, a, c, k) = OnPoints(item, H)
  BY DEF Along
<1> HIDE DEF F, G, H
<1>5. CASE item \in Vias
  <2>1. OnPoints(item, F) = [item EXCEPT !.pos = F(item.pos)]
    BY <1>5 DEF OnPoints, Vias
  <2>2. OnPoints(item, H) = [item EXCEPT !.pos = H(item.pos)]
    BY <1>5 DEF OnPoints, Vias
  <2>3. OnPoints([item EXCEPT !.pos = F(item.pos)], G) = [item EXCEPT !.pos = G(F(item.pos))]
    BY <1>5 DEF OnPoints, Vias
  <2>4. item.pos \in Points
    BY <1>5 DEF Vias
  <2>5. [item EXCEPT !.pos = H(item.pos)] \in Vias /\ item.kind = "via"
    BY <1>1, <1>5, <2>4 DEF Vias
  <2> QED
    BY <1>1, <1>2, <1>3, <1>4, <2>1, <2>2, <2>3, <2>4, <2>5 DEF Vias
<1>6. CASE item \in Tracks
  <2>1. OnPoints(item, F) = [item EXCEPT !.start = F(item.start), !.end = F(item.end)]
    BY <1>6 DEF OnPoints, Tracks
  <2>2. OnPoints(item, H) = [item EXCEPT !.start = H(item.start), !.end = H(item.end)]
    BY <1>6 DEF OnPoints, Tracks
  <2>3. OnPoints([item EXCEPT !.start = F(item.start), !.end = F(item.end)], G) =
          [item EXCEPT !.start = G(F(item.start)), !.end = G(F(item.end))]
    BY <1>6 DEF OnPoints, Tracks
  <2>4. item.start \in Points /\ item.end \in Points
    BY <1>6 DEF Tracks
  <2>5. [item EXCEPT !.start = H(item.start), !.end = H(item.end)] \in Tracks /\ item.kind = "track"
    BY <1>1, <1>6, <2>4 DEF Tracks
  <2> QED
    BY <1>1, <1>2, <1>3, <1>4, <2>1, <2>2, <2>3, <2>4, <2>5 DEF Tracks
<1>7. CASE item \in Zones
  <2> DEFINE Over(o) == [i \in DOMAIN item.outline |-> o[i]]
  <2>1. OnPoints(item, F) = [item EXCEPT !.outline = [i \in DOMAIN item.outline |-> F(item.outline[i])]]
    BY <1>7 DEF OnPoints, Zones
  <2>2. OnPoints(item, H) = [item EXCEPT !.outline = [i \in DOMAIN item.outline |-> H(item.outline[i])]]
    BY <1>7 DEF OnPoints, Zones
  <2>3. \A o : OnPoints([item EXCEPT !.outline = o], G) =
          [item EXCEPT !.outline = [i \in DOMAIN o |-> G(o[i])]]
    BY <1>7 DEF OnPoints, Zones
  <2>4. item.outline \in Seq(Points)
    BY <1>7 DEF Zones
  <2>5. \A i \in DOMAIN item.outline : item.outline[i] \in Points
    BY <2>4
  <2>6. [i \in DOMAIN item.outline |-> H(item.outline[i])] \in Seq(Points)
    BY <1>1, <2>4, <2>5
  <2>7. [i \in DOMAIN item.outline |-> G(F(item.outline[i]))] =
           [i \in DOMAIN item.outline |-> H(item.outline[i])]
    BY <1>1, <2>5
  <2>8. \A o \in Seq(Points) : [item EXCEPT !.outline = o] \in Zones
    BY <1>7 DEF Zones
  <2>9. PICK one : one = [i \in DOMAIN item.outline |-> F(item.outline[i])]
    OBVIOUS
  <2>10. [i \in DOMAIN one |-> G(one[i])] = [i \in DOMAIN item.outline |-> G(F(item.outline[i]))]
    BY <2>9
  <2>11. OnPoints([item EXCEPT !.outline = one], G) = OnPoints(item, H)
    BY <2>2, <2>3, <2>7, <2>10
  <2>12. OnPoints(item, H) \in Zones
    BY <2>2, <2>6, <2>8
  <2> QED
    BY <1>2, <1>3, <1>4, <1>7, <2>1, <2>9, <2>11, <2>12 DEF Zones
<1> QED
  BY <1>5, <1>6, <1>7

\* What an operation finds on the board when its turn comes: less than the
\* preflight asks, and enough for what it does.
Fit(b, op) ==
    /\ op.op = "footprint_move" =>
          /\ b[op.uuid].kind = "footprint" /\ b[op.uuid].pose = op.from
          /\ op.from \in Poses /\ op.to \in Poses /\ op.uuid \notin op.members
          /\ \A u \in op.members : b[u].kind \in {"track", "via", "zone"}
    /\ op.op = "pad_paste" => b[op.uuid].kind = "pad"
    /\ op.op = "field" => b[op.uuid].kind = "footprint" /\ op.name \in {"Value", "MPN"}
    /\ op.op = "add" => b[op.uuid].kind = "missing"
    /\ op.op = "delete" => b[op.uuid].kind \in {"track", "via"}
    /\ op.op = "update" => b[op.uuid].kind \in {"zone", "text"}
    /\ op.op = "outline_rectangle" =>
          /\ Len(op.uuids) = 4 /\ IsInjective(op.uuids)
          /\ \A u \in ToSet(op.uuids) : b[u].kind \in {"missing", "edge"}

\* What an operation makes of one item.
PadWith(x, op) ==
    [x EXCEPT !.pose = [pos |-> Transformed(x.pose.pos, op.from, op.to),
                        rot |-> Wrapped(x.pose.rot + op.to.rot - op.from.rot)]]

MoveOf(op, u, x) ==
    IF u = op.uuid THEN [x EXCEPT !.pose = op.to]
    ELSE IF x.kind = "pad" /\ x.owner = op.uuid THEN PadWith(x, op)
    ELSE IF u \in op.members THEN Along(x, op.from.pos, op.to.pos, Turn(op.from, op.to))
    ELSE x

\* The items of a board, by kind.
LEMMA ItemKinds ==
    ASSUME NEW b, IsBoard(b), NEW u \in Uuids
    PROVE  /\ b[u].kind = "missing" => b[u] = Missing
           /\ b[u].kind = "footprint" => b[u] \in Footprints
           /\ b[u].kind = "pad" => b[u] \in Pads
           /\ b[u].kind = "track" => b[u] \in Tracks
           /\ b[u].kind = "via" => b[u] \in Vias
           /\ b[u].kind = "zone" => b[u] \in Zones
           /\ b[u].kind = "edge" => b[u] \in EdgeCuts
           /\ b[u].kind = "text" => b[u] \in Texts
           /\ b[u].kind \in {"missing", "footprint", "pad", "track", "via", "zone", "edge", "text"}
<1>1. b[u] \in Items
  BY DEF IsBoard
<1> QED
  BY <1>1 DEF Items, Missing, Footprints, Pads, Drawn, Tracks, Vias, Zones, EdgeCuts, Texts

\* What the document declares of a move, item by item.
LEMMA MoveExpected ==
    ASSUME NEW b, IsBoard(b), NEW op \in Operations, op.op = "footprint_move", Fit(b, op)
    PROVE  Expect(b, op) = [u \in DOMAIN b |-> MoveOf(op, u, b[u])]
<1> DEFINE Carry(p) == Transformed(p, op.from, op.to)
<1>1. \A x : OnPoints(x, Carry) = Along(x, op.from.pos, op.to.pos, Turn(op.from, op.to))
  BY DEF Along, Transformed
<1>2. \A u \in DOMAIN b : u \in PadsOf(b, op.uuid) <=> (b[u].kind = "pad" /\ b[u].owner = op.uuid)
  BY DEF IsBoard, PadsOf, Classes
<1>3. Expect(b, op) = [u \in DOMAIN b |->
               IF u = op.uuid THEN [b[u] EXCEPT !.pose = op.to]
               ELSE IF u \in PadsOf(b, op.uuid)
                 THEN [b[u] EXCEPT !.pose = [pos |-> Carry(b[u].pose.pos),
                                             rot |-> Wrapped(b[u].pose.rot + op.to.rot - op.from.rot)]]
               ELSE IF u \in op.members THEN OnPoints(b[u], Carry)
               ELSE b[u]]
  BY DEF Expect
<1>4. ASSUME NEW u \in DOMAIN b
      PROVE  (IF u = op.uuid THEN [b[u] EXCEPT !.pose = op.to]
               ELSE IF u \in PadsOf(b, op.uuid)
                 THEN [b[u] EXCEPT !.pose = [pos |-> Carry(b[u].pose.pos),
                                             rot |-> Wrapped(b[u].pose.rot + op.to.rot - op.from.rot)]]
               ELSE IF u \in op.members THEN OnPoints(b[u], Carry)
               ELSE b[u]) = MoveOf(op, u, b[u])
  BY <1>1, <1>2 DEF MoveOf, PadWith
<1> QED
  BY <1>3, <1>4

\* A pad that a move takes along stays a pad of its footprint.
LEMMA PadTyped ==
    ASSUME NEW x \in Pads, NEW op, op.from \in Poses, op.to \in Poses
    PROVE  PadWith(x, op) \in Pads /\ PadWith(x, op).owner = x.owner
<1>1. /\ op.from.pos \in Points /\ op.to.pos \in Points /\ op.from.rot \in 0 .. 3 /\ op.to.rot \in 0 .. 3
      /\ x.pose.pos \in Points /\ x.pose.rot \in 0 .. 3
  BY DEF Poses, Pads
<1>2. Turn(op.from, op.to) \in 0 .. 3
  BY <1>1, TurnTyped DEF Turn
<1>3. Transformed(x.pose.pos, op.from, op.to) \in Points
  <2>1. Minus(x.pose.pos, op.from.pos) \in Points
    BY <1>1, PointsTyped
  <2>2. Turned(Minus(x.pose.pos, op.from.pos), Turn(op.from, op.to)) \in Points
    BY <1>2, <2>1, PointsTyped
  <2> QED
    BY <1>1, <2>2, PointsTyped DEF Transformed
<1>4. Wrapped(x.pose.rot + op.to.rot - op.from.rot) \in 0 .. 3
  BY <1>1, WrappedOnce
<1>5. \A w \in Poses : [x EXCEPT !.pose = w] \in Pads /\ [x EXCEPT !.pose = w].owner = x.owner
  BY DEF Pads
<1>6. [pos |-> Transformed(x.pose.pos, op.from, op.to),
       rot |-> Wrapped(x.pose.rot + op.to.rot - op.from.rot)] \in Poses
  BY <1>3, <1>4 DEF Poses
<1> QED
  BY <1>5, <1>6 DEF PadWith

\* KiCad's setters take a footprint's pads where the tool reckons.
LEMMA PadMoved ==
    ASSUME NEW x \in Pads, NEW op, op.from \in Poses, op.to \in Poses,
           NEW k, k = Turn(op.from, op.to),
           NEW pos, pos = Plus(x.pose.pos, Minus(op.to.pos, op.from.pos))
    PROVE  /\ Plus(op.to.pos, Turned(Minus(pos, op.to.pos), k)) = Transformed(x.pose.pos, op.from, op.to)
           /\ Wrapped(x.pose.rot + k) = Wrapped(x.pose.rot + op.to.rot - op.from.rot)
<1>1. /\ op.from.pos \in Points /\ op.to.pos \in Points /\ op.from.rot \in 0 .. 3 /\ op.to.rot \in 0 .. 3
      /\ x.pose.pos \in Points /\ x.pose.rot \in 0 .. 3
  BY DEF Poses, Pads
<1>2. k = (op.to.rot - op.from.rot) % 4
  BY DEF Turn
<1>3. Minus(pos, op.to.pos) = Minus(x.pose.pos, op.from.pos)
  <2>1. Minus(Plus(x.pose.pos, Minus(op.to.pos, op.from.pos)), op.to.pos) = Minus(x.pose.pos, op.from.pos)
    BY <1>1, Pushed
  <2> QED
    BY <2>1
<1>4. Plus(op.to.pos, Turned(Minus(pos, op.to.pos), k)) = Transformed(x.pose.pos, op.from, op.to)
  BY <1>3 DEF Transformed
<1>5. Wrapped(x.pose.rot + k) = Wrapped(x.pose.rot + op.to.rot - op.from.rot)
  <2>1. Wrapped(x.pose.rot + ((op.to.rot - op.from.rot) % 4)) = Wrapped(x.pose.rot + op.to.rot - op.from.rot)
    BY <1>1, WrappedOnce
  <2> QED
    BY <1>2, <2>1
<1> QED
  BY <1>4, <1>5

\* On a board that a move fits, KiCad's setters do what is declared of it.
LEMMA MoveAgrees ==
    ASSUME NEW b, IsBoard(b), NEW op \in Operations, op.op = "footprint_move", Fit(b, op)
    PROVE  Apply(b, op) = [u \in DOMAIN b |-> MoveOf(op, u, b[u])]
<1> DEFINE by == Minus(op.to.pos, op.from.pos)
           k == Turn(op.from, op.to)
           fp == op.uuid
           carried == [u \in DOMAIN b |->
                         IF u \in op.members THEN Move(Rotate(b[u], op.from.pos, k), by) ELSE b[u]]
           placed == SetPosition(carried, fp, op.to.pos)
           turned == SetOrientation(placed, fp, op.to.rot)
<1>1. /\ fp \in Uuids /\ op.members \subseteq Uuids /\ DOMAIN b = Uuids \cup {Class}
      /\ op.from \in Poses /\ op.to \in Poses /\ fp \notin op.members
      /\ b[fp] \in Footprints /\ b[fp].pose = op.from
      /\ \A u \in op.members : b[u] \in Tracks \cup Vias \cup Zones
  <2>1. fp \in Uuids /\ op.members \subseteq Uuids
    BY DEF Operations
  <2>2. DOMAIN b = Uuids \cup {Class}
    BY DEF IsBoard
  <2> QED
    BY <2>1, <2>2, ItemKinds DEF Fit
<1>2. k \in 0 .. 3 /\ op.from.pos \in Points /\ op.to.pos \in Points
  BY <1>1, TurnTyped DEF Poses, Turn
<1>3. Apply(b, op) = turned
  BY DEF Apply
<1>4. \A u \in op.members : /\ carried[u] = Along(b[u], op.from.pos, op.to.pos, k)
                            /\ carried[u].kind = b[u].kind
  <2> TAKE u \in op.members
  <2>1. carried[u] = Move(Rotate(b[u], op.from.pos, k), by)
    BY <1>1
  <2>2. b[u] \in Tracks \cup Vias \cup Zones
    BY <1>1
  <2> HIDE DEF carried, k
  <2>3. /\ Move(Rotate(b[u], op.from.pos, k), by) = Along(b[u], op.from.pos, op.to.pos, k)
        /\ Along(b[u], op.from.pos, op.to.pos, k).kind = b[u].kind
    BY <1>2, <2>2, ItemMoved
  <2> QED
    BY <2>1, <2>3
<1>5. /\ DOMAIN carried = DOMAIN b /\ carried[fp] = b[fp]
      /\ \A u \in DOMAIN b : u \notin op.members => carried[u] = b[u]
  BY <1>1
<1>6. \A u \in Uuids : u \in PadsOf(carried, fp) <=> (b[u].kind = "pad" /\ b[u].owner = fp)
  <2>1. \A u \in op.members : b[u].kind # "pad"
    BY <1>1 DEF Tracks, Vias, Zones
  <2> HIDE DEF carried
  <2> QED
    BY <1>1, <1>4, <1>5, <2>1 DEF PadsOf
<1> HIDE DEF carried
<1>7. /\ DOMAIN placed = DOMAIN b
      /\ placed[fp] = [b[fp] EXCEPT !.pose.pos = op.to.pos]
      /\ \A u \in DOMAIN b : u # fp =>
            placed[u] = IF u \in PadsOf(carried, fp)
                        THEN [carried[u] EXCEPT !.pose.pos = Plus(carried[u].pose.pos, by)]
                        ELSE carried[u]
  BY <1>1, <1>5 DEF SetPosition
<1>8. placed[fp].pose.rot = op.from.rot /\ placed[fp].pose.pos = op.to.pos /\ placed[fp].kind = "footprint"
  BY <1>1, <1>7 DEF Footprints, Poses
<1>9. \A u \in DOMAIN b : u \in PadsOf(carried, fp) => u # fp /\ carried[u] = b[u] /\ b[u] \in Pads
  <2>1. \A u \in op.members : b[u].kind # "pad"
    BY <1>1 DEF Tracks, Vias, Zones
  <2>2. \A u \in PadsOf(carried, fp) : u \in Uuids
    BY DEF PadsOf
  <2>3. b[fp].kind # "pad"
    BY <1>1 DEF Footprints
  <2> QED
    BY <1>1, <1>5, <1>6, <2>1, <2>2, <2>3, ItemKinds
<1>10. \A u \in PadsOf(carried, fp) :
          /\ placed[u].kind = "pad" /\ placed[u].owner = fp
          /\ [placed[u] EXCEPT !.pose =
                [pos |-> Plus(op.to.pos, Turned(Minus(placed[u].pose.pos, op.to.pos), k)),
                 rot |-> Wrapped(placed[u].pose.rot + k)]] = PadWith(b[u], op)
  <2> TAKE u \in PadsOf(carried, fp)
  <2>1. u \in Uuids /\ b[u].owner = fp /\ u \in DOMAIN b
    BY <1>1, <1>6 DEF PadsOf
  <2>2. placed[u] = [b[u] EXCEPT !.pose.pos = Plus(b[u].pose.pos, by)] /\ b[u] \in Pads
    BY <1>7, <1>9, <2>1
  <2>3. /\ placed[u].pose.pos = Plus(b[u].pose.pos, by) /\ placed[u].pose.rot = b[u].pose.rot
        /\ placed[u].kind = "pad" /\ placed[u].owner = b[u].owner
        /\ \A w : [placed[u] EXCEPT !.pose = w] = [b[u] EXCEPT !.pose = w]
    <3> HIDE DEF placed, by, k
    <3> QED
      BY <2>2 DEF Pads, Poses
  <2> HIDE DEF placed, k
  <2>4. k = Turn(op.from, op.to)
    BY DEF k
  <2>5. [placed[u] EXCEPT !.pose = [pos |-> Plus(op.to.pos, Turned(Minus(placed[u].pose.pos, op.to.pos), k)),
                                    rot |-> Wrapped(placed[u].pose.rot + k)]] = PadWith(b[u], op)
    <3>1. b[u] \in Pads /\ op.from \in Poses /\ op.to \in Poses
      BY <1>1, <2>2
    <3>2. placed[u].pose.pos = Plus(b[u].pose.pos, Minus(op.to.pos, op.from.pos))
      BY <2>3
    <3>3. /\ Plus(op.to.pos, Turned(Minus(placed[u].pose.pos, op.to.pos), k)) =
               Transformed(b[u].pose.pos, op.from, op.to)
          /\ Wrapped(b[u].pose.rot + k) = Wrapped(b[u].pose.rot + op.to.rot - op.from.rot)
      BY <2>4, <3>1, <3>2, PadMoved
    <3> QED
      BY <2>3, <3>3 DEF PadWith
  <2> QED
    BY <2>1, <2>3, <2>5
<1>11. \A u \in Uuids : u \in PadsOf(placed, fp) <=> u \in PadsOf(carried, fp)
  <2>1. ASSUME NEW u \in Uuids, u \notin PadsOf(carried, fp)
        PROVE  u \notin PadsOf(placed, fp)
    <3>1. CASE u = fp
      BY <1>8, <3>1 DEF PadsOf
    <3>2. CASE u # fp
      <4>1. placed[u] = carried[u]
        BY <1>1, <1>7, <2>1, <3>2
      <4> HIDE DEF placed
      <4> QED
        BY <2>1, <4>1 DEF PadsOf
    <3> QED
      BY <3>1, <3>2
  <2> HIDE DEF placed
  <2> QED
    BY <1>10, <2>1 DEF PadsOf
<1>12. ASSUME NEW u \in DOMAIN b
       PROVE  turned[u] = MoveOf(op, u, b[u])
  <2>0. /\ (op.to.rot - placed[fp].pose.rot) % 4 = k /\ placed[fp].pose.pos = op.to.pos
        /\ DOMAIN placed = DOMAIN b
    BY <1>7, <1>8 DEF Turn
  <2> HIDE DEF placed
  <2>1. turned[u] = IF u = fp THEN [placed[u] EXCEPT !.pose.rot = op.to.rot]
                    ELSE IF u \in PadsOf(placed, fp)
                    THEN [placed[u] EXCEPT !.pose =
                            [pos |-> Plus(op.to.pos, Turned(Minus(placed[u].pose.pos, op.to.pos), k)),
                             rot |-> Wrapped(placed[u].pose.rot + k)]]
                    ELSE placed[u]
    BY <2>0 DEF SetOrientation
  <2> HIDE DEF turned
  <2>2. CASE u = fp
    <3>1. turned[u] = [[b[fp] EXCEPT !.pose.pos = op.to.pos] EXCEPT !.pose.rot = op.to.rot]
      BY <1>7, <2>1, <2>2
    <3>2. [[b[fp] EXCEPT !.pose.pos = op.to.pos] EXCEPT !.pose.rot = op.to.rot] =
             [b[fp] EXCEPT !.pose = op.to]
      BY <1>1 DEF Footprints, Poses
    <3> QED
      BY <2>2, <3>1, <3>2 DEF MoveOf
  <2>3. CASE u # fp /\ u \in PadsOf(carried, fp)
    <3>1. turned[u] = PadWith(b[u], op)
      BY <1>10, <1>11, <2>1, <2>3 DEF PadsOf
    <3>2. b[u].kind = "pad" /\ b[u].owner = fp
      BY <1>6, <2>3 DEF PadsOf
    <3> QED
      BY <2>3, <3>1, <3>2 DEF MoveOf
  <2>4. CASE u # fp /\ u \notin PadsOf(carried, fp)
    <3>1. u \notin PadsOf(placed, fp)
      BY <1>11, <2>4 DEF PadsOf
    <3>2. turned[u] = carried[u]
      BY <1>7, <2>1, <2>4, <3>1
    <3>3. ~(b[u].kind = "pad" /\ b[u].owner = fp)
      <4>1. CASE u \in Uuids
        BY <1>6, <2>4, <4>1
      <4>2. CASE u = Class
        BY <4>2 DEF IsBoard, Classes
      <4> QED
        BY <1>1, <1>12, <4>1, <4>2
    <3> QED
      BY <1>4, <1>5, <1>12, <2>4, <3>2, <3>3 DEF MoveOf
  <2> QED
    BY <2>2, <2>3, <2>4
<1>13. turned = [u \in DOMAIN turned |-> turned[u]] /\ DOMAIN turned = DOMAIN b
  BY <1>7 DEF SetOrientation
<1> HIDE DEF turned
<1> QED
  BY <1>3, <1>12, <1>13

-----------------------------------------------------------------------------
(* What any operation makes of one item.                                   *)

\* The items an operation names.
Own(op) ==
    IF op.op = "netclass_update" THEN {Class}
    ELSE IF op.op = "outline_rectangle" THEN ToSet(op.uuids)
    ELSE IF op.op = "footprint_move" THEN {op.uuid} \cup op.members
    ELSE {op.uuid}

\* One of them, after an operation that is not a move.
Made(op, u, x) ==
    IF op.op = "field" THEN [x EXCEPT !.fields[op.name] = op.to]
    ELSE IF op.op = "pad_paste" THEN [x EXCEPT !.paste = op.to]
    ELSE IF op.op = "delete" THEN Missing
    ELSE IF op.op = "outline_rectangle" THEN Edge(op.bounds, CHOOSE i \in 1 .. 4 : op.uuids[i] = u)
    ELSE op.to

\* Any item, after any operation.
Eff(op, u, x) ==
    IF op.op = "footprint_move" THEN MoveOf(op, u, x)
    ELSE IF u \in Own(op) THEN Made(op, u, x)
    ELSE x

\* A board, item by item.
Step(b, op) == [u \in DOMAIN b |-> Eff(op, u, b[u])]

\* The names of the operations.
LEMMA OpKinds ==
    ASSUME NEW op \in Operations
    PROVE  op.op \in {"footprint_move", "pad_paste", "field", "add", "delete", "update",
                      "outline_rectangle", "netclass_update"}
BY DEF Operations

\* On a board that an operation fits, KiCad's setters and the expectation of
\* the document are the same, item by item.
LEMMA ApplyIs ==
    ASSUME NEW b, IsBoard(b), NEW op \in Operations, Fit(b, op)
    PROVE  Apply(b, op) = Step(b, op) /\ Expect(b, op) = Step(b, op)
<1>0. DOMAIN b = Uuids \cup {Class} /\ b = [u \in DOMAIN b |-> b[u]]
  BY DEF IsBoard
<1>1. CASE op.op = "footprint_move"
  <2>1. Step(b, op) = [u \in DOMAIN b |-> MoveOf(op, u, b[u])]
    BY <1>1 DEF Step, Eff
  <2> QED
    BY <1>1, <2>1, MoveAgrees, MoveExpected
<1>2. ASSUME op.op # "footprint_move"
      PROVE  Expect(b, op) = Apply(b, op)
  BY <1>2 DEF Expect
<1>3. CASE op.op = "pad_paste"
  <2>1. Apply(b, op) = [b EXCEPT ![op.uuid].paste = op.to]
    BY <1>3 DEF Apply
  <2> QED
    BY <1>0, <1>2, <1>3, <2>1 DEF Step, Eff, Own, Made
<1>4. CASE op.op = "field"
  <2>1. Apply(b, op) = [b EXCEPT ![op.uuid].fields[op.name] = op.to]
    BY <1>4 DEF Apply, SetField
  <2> QED
    BY <1>0, <1>2, <1>4, <2>1 DEF Step, Eff, Own, Made
<1>5. CASE op.op = "delete"
  <2>1. Apply(b, op) = [b EXCEPT ![op.uuid] = Missing]
    BY <1>5 DEF Apply, RemoveNative
  <2> QED
    BY <1>0, <1>2, <1>5, <2>1 DEF Step, Eff, Own, Made
<1>6. CASE op.op \in {"add", "update"}
  <2>1. Apply(b, op) = [b EXCEPT ![op.uuid] = op.to]
    BY <1>6 DEF Apply, SetItem
  <2> QED
    BY <1>0, <1>2, <1>6, <2>1 DEF Step, Eff, Own, Made
<1>7. CASE op.op = "netclass_update"
  <2>1. Apply(b, op) = [b EXCEPT ![Class] = op.to]
    BY <1>7 DEF Apply
  <2> QED
    BY <1>0, <1>2, <1>7, <2>1 DEF Step, Eff, Own, Made
<1>8. CASE op.op = "outline_rectangle"
  <2>1. Apply(b, op) = [u \in DOMAIN b |-> IF \E i \in 1 .. 4 : op.uuids[i] = u
                               THEN Edge(op.bounds, CHOOSE i \in 1 .. 4 : op.uuids[i] = u)
                               ELSE b[u]]
    BY <1>8 DEF Apply
  <2>2. op.uuids \in Seq(Uuids) /\ Len(op.uuids) = 4
    BY <1>8 DEF Operations, Fit
  <2>3. DOMAIN op.uuids = 1 .. 4
    BY <2>2
  <2>4. \A u : u \in Own(op) <=> \E i \in 1 .. 4 : op.uuids[i] = u
    BY <1>8, <2>3 DEF Own, ToSet
  <2>5. \A u : Eff(op, u, b[u]) = IF \E i \in 1 .. 4 : op.uuids[i] = u
                               THEN Edge(op.bounds, CHOOSE i \in 1 .. 4 : op.uuids[i] = u)
                               ELSE b[u]
    BY <1>8, <2>4 DEF Eff, Made
  <2> QED
    BY <1>2, <1>8, <2>1, <2>5 DEF Step
<1> QED
  BY <1>1, <1>3, <1>4, <1>5, <1>6, <1>7, <1>8, OpKinds

\* The items an operation names are items of the board, or the net class.
LEMMA OwnTyped ==
    ASSUME NEW op \in Operations
    PROVE  /\ op.op = "netclass_update" => Own(op) = {Class} /\ op.to \in Classes
           /\ op.op # "netclass_update" => Own(op) \subseteq Uuids
<1>1. CASE op.op = "outline_rectangle"
  <2>1. op.uuids \in Seq(Uuids)
    BY <1>1 DEF Operations
  <2>2. ToSet(op.uuids) \subseteq Uuids
    BY <2>1 DEF ToSet
  <2> QED
    BY <1>1, <2>2 DEF Own
<1>2. CASE op.op # "outline_rectangle"
  BY <1>2 DEF Operations, Own
<1> QED
  BY <1>1, <1>2

\* The edges of a rectangle are edges.
LEMMA EdgeTyped ==
    ASSUME NEW box \in [1 .. 4 -> Int], NEW i
    PROVE  Edge(box, i) \in EdgeCuts
BY DEF Edge, Corner, EdgeCuts, Points

\* An item that an operation does not name stays as it is, but for the pads of
\* the footprint it moves, which stay its pads.
LEMMA NotNamed ==
    ASSUME NEW b, IsBoard(b), NEW op \in Operations, Fit(b, op), NEW u \in Uuids, u \notin Own(op)
    PROVE  \/ Eff(op, u, b[u]) = b[u]
           \/ /\ op.op = "footprint_move" /\ b[u] \in Pads /\ b[u].owner = op.uuid
              /\ Eff(op, u, b[u]) = PadWith(b[u], op)
              /\ Eff(op, u, b[u]) \in Pads /\ Eff(op, u, b[u]).owner = b[u].owner
<1>1. CASE op.op # "footprint_move"
  BY <1>1 DEF Eff
<1>2. CASE op.op = "footprint_move"
  <2>1. u # op.uuid /\ u \notin op.members
    BY <1>2 DEF Own
  <2>2. op.from \in Poses /\ op.to \in Poses
    BY <1>2 DEF Fit
  <2>3. CASE b[u].kind = "pad" /\ b[u].owner = op.uuid
    <3>1. b[u] \in Pads
      BY <2>3, ItemKinds
    <3>2. Eff(op, u, b[u]) = PadWith(b[u], op)
      BY <1>2, <2>1, <2>3 DEF Eff, MoveOf
    <3>3. PadWith(b[u], op) \in Pads /\ PadWith(b[u], op).owner = b[u].owner
      BY <2>2, <3>1, PadTyped
    <3> QED
      BY <1>2, <2>3, <3>1, <3>2, <3>3
  <2>4. CASE ~(b[u].kind = "pad" /\ b[u].owner = op.uuid)
    BY <1>2, <2>1, <2>4 DEF Eff, MoveOf
  <2> QED
    BY <2>3, <2>4
<1> QED
  BY <1>1, <1>2

\* What an operation makes of the items it names.
LEMMA NamedKinds ==
    ASSUME NEW b, IsBoard(b), NEW op \in Operations, Fit(b, op), NEW u \in Uuids, u \in Own(op),
           NEW y, y = Eff(op, u, b[u])
    PROVE  /\ op.op = "footprint_move" /\ u = op.uuid => y \in Footprints /\ b[u] \in Footprints
           /\ op.op = "footprint_move" /\ u # op.uuid =>
                 /\ y \in Tracks \cup Vias \cup Zones /\ b[u] \in Tracks \cup Vias \cup Zones
                 /\ y.kind = b[u].kind
           /\ op.op = "field" => y \in Footprints /\ b[u] \in Footprints
           /\ op.op = "pad_paste" => y \in Pads /\ b[u] \in Pads /\ y.owner = b[u].owner
           /\ op.op \in {"add", "delete", "update"} =>
                 /\ y \in Drawn \cup {Missing}
                 /\ b[u].kind \in {"missing", "track", "via", "zone", "text"}
           /\ op.op = "outline_rectangle" => y \in EdgeCuts /\ b[u].kind \in {"missing", "edge"}
           /\ op.op # "netclass_update"
<1>0. op.op # "netclass_update"
  BY OwnTyped, BoardAssumption
<1>1. CASE op.op = "footprint_move" /\ u = op.uuid
  <2>1. b[u] \in Footprints /\ op.to \in Poses
    BY <1>1, ItemKinds DEF Fit
  <2>2. y = [b[u] EXCEPT !.pose = op.to]
    BY <1>1 DEF Eff, MoveOf
  <2>3. y \in Footprints
    BY <2>1, <2>2 DEF Footprints
  <2> QED
    BY <1>1, <2>1, <2>3
<1>2. CASE op.op = "footprint_move" /\ u # op.uuid
  <2>1. u \in op.members
    BY <1>2 DEF Own
  <2>2. b[u] \in Tracks \cup Vias \cup Zones
    BY <1>2, <2>1, ItemKinds DEF Fit
  <2>3. b[u].kind # "pad"
    BY <2>2 DEF Tracks, Vias, Zones
  <2>4. y = Along(b[u], op.from.pos, op.to.pos, Turn(op.from, op.to))
    BY <1>2, <2>1, <2>3 DEF Eff, MoveOf
  <2>5. /\ op.from \in Poses /\ op.to \in Poses
    BY <1>2 DEF Fit
  <2>6. op.from.pos \in Points /\ op.to.pos \in Points /\ Turn(op.from, op.to) \in 0 .. 3
    BY <2>5, TurnTyped DEF Poses, Turn
  <2>7. PICK k \in 0 .. 3 : k = Turn(op.from, op.to)
    BY <2>6
  <2>8. /\ Along(b[u], op.from.pos, op.to.pos, k) \in Tracks \cup Vias \cup Zones
        /\ Along(b[u], op.from.pos, op.to.pos, k).kind = b[u].kind
    BY <2>2, <2>6, ItemMoved
  <2> QED
    BY <1>2, <2>2, <2>4, <2>7, <2>8
<1>3. CASE op.op = "field"
  <2>1. u = op.uuid
    BY <1>3 DEF Own
  <2>2. b[u] \in Footprints /\ op.name \in {"Value", "MPN"} /\ op.to \in STRING
    BY <1>3, <2>1, ItemKinds DEF Fit, Operations
  <2>3. y = [b[u] EXCEPT !.fields[op.name] = op.to]
    BY <1>3 DEF Eff, Made
  <2>4. y \in Footprints
    BY <2>2, <2>3 DEF Footprints
  <2> QED
    BY <1>3, <2>2, <2>4
<1>4. CASE op.op = "pad_paste"
  <2>1. u = op.uuid
    BY <1>4 DEF Own
  <2>2. b[u] \in Pads /\ op.to \in STRING
    BY <1>4, <2>1, ItemKinds DEF Fit, Operations
  <2>3. y = [b[u] EXCEPT !.paste = op.to]
    BY <1>4 DEF Eff, Made
  <2>4. y \in Pads /\ y.owner = b[u].owner
    BY <2>2, <2>3 DEF Pads
  <2> QED
    BY <1>4, <2>2, <2>4
<1>5. CASE op.op \in {"add", "delete", "update"}
  <2>1. u = op.uuid
    BY <1>5 DEF Own
  <2>2. b[u].kind \in {"missing", "track", "via", "zone", "text"}
    BY <1>5, <2>1 DEF Fit
  <2>3. op.op \in {"add", "update"} => op.to \in Drawn
    BY <1>5 DEF Operations
  <2>4. y = IF op.op = "delete" THEN Missing ELSE op.to
    BY <1>5 DEF Eff, Made
  <2> QED
    BY <1>5, <2>2, <2>3, <2>4
<1>6. CASE op.op = "outline_rectangle"
  <2>1. op.bounds \in [1 .. 4 -> Int]
    BY <1>6 DEF Operations
  <2>2. b[u].kind \in {"missing", "edge"}
    BY <1>6 DEF Fit, Own
  <2>3. y = Edge(op.bounds, CHOOSE i \in 1 .. 4 : op.uuids[i] = u)
    BY <1>6 DEF Eff, Made
  <2> QED
    BY <1>6, <2>1, <2>2, <2>3, EdgeTyped
<1> QED
  BY <1>0, <1>1, <1>2, <1>3, <1>4, <1>5, <1>6, OpKinds

\* Pads are never made: what is a pad after an operation was one of the same
\* footprint before.  Only an outline makes or changes an edge.
LEMMA KindsKept ==
    ASSUME NEW b, IsBoard(b), NEW op \in Operations, Fit(b, op), NEW u \in Uuids,
           NEW y, y = Eff(op, u, b[u])
    PROVE  /\ y \in Items
           /\ y.kind = "pad" => b[u].kind = "pad" /\ b[u].owner = y.owner
           /\ (y.kind = "edge" \/ b[u].kind = "edge") =>
                 y = b[u] \/ (op.op = "outline_rectangle" /\ u \in Own(op))
<1>1. b[u] \in Items
  BY DEF IsBoard
<1>2. CASE u \notin Own(op)
  <2>1. \/ y = b[u]
        \/ y \in Pads /\ b[u] \in Pads /\ y.owner = b[u].owner
    BY <1>2, NotNamed
  <2> QED
    BY <1>1, <2>1 DEF Pads, Items
<1>3. CASE u \in Own(op)
  <2>1. CASE op.op = "footprint_move"
    <3>1. \/ y \in Footprints /\ b[u] \in Footprints
          \/ y \in Tracks \cup Vias \cup Zones /\ b[u] \in Tracks \cup Vias \cup Zones
      BY <1>3, <2>1, NamedKinds
    <3> QED
      BY <3>1 DEF Footprints, Tracks, Vias, Zones, Items, Drawn
  <2>2. CASE op.op \in {"field", "pad_paste"}
    <3>1. \/ y \in Footprints /\ b[u] \in Footprints
          \/ y \in Pads /\ b[u] \in Pads /\ y.owner = b[u].owner
      BY <1>3, <2>2, NamedKinds
    <3> QED
      BY <3>1 DEF Footprints, Pads, Items
  <2>3. CASE op.op \in {"add", "delete", "update"}
    <3>1. /\ y \in Drawn \cup {Missing}
          /\ b[u].kind \in {"missing", "track", "via", "zone", "text"}
      BY <1>3, <2>3, NamedKinds
    <3> QED
      BY <3>1 DEF Drawn, Missing, Tracks, Vias, Zones, Texts, Items
  <2>4. CASE op.op = "outline_rectangle"
    <3>1. y \in EdgeCuts
      BY <1>3, <2>4, NamedKinds
    <3> QED
      BY <1>3, <2>4, <3>1 DEF EdgeCuts, Items
  <2> QED
    BY <1>3, <2>1, <2>2, <2>3, <2>4, OpKinds, NamedKinds
<1> QED
  BY <1>2, <1>3

\* The net class changes only as a net class.
LEMMA ClassKept ==
    ASSUME NEW b, IsBoard(b), NEW op \in Operations, Class \notin Uuids
    PROVE  /\ Eff(op, Class, b[Class]) \in Classes
           /\ op.op # "netclass_update" => Eff(op, Class, b[Class]) = b[Class]
           /\ op.op = "netclass_update" => Eff(op, Class, b[Class]) = op.to
<1>1. b[Class] \in Classes /\ b[Class].kind = "class"
  BY DEF IsBoard, Classes
<1>2. CASE op.op = "netclass_update"
  BY <1>2, OwnTyped DEF Eff, Made
<1>3. CASE op.op = "footprint_move"
  <2>1. Class \notin Own(op)
    BY <1>3, OwnTyped
  <2>2. Class # op.uuid /\ Class \notin op.members
    BY <1>3, <2>1 DEF Own
  <2> QED
    BY <1>1, <1>3, <2>2 DEF Eff, MoveOf
<1>4. CASE op.op \notin {"footprint_move", "netclass_update"}
  BY <1>1, <1>4, OwnTyped DEF Eff
<1> QED
  BY <1>2, <1>3, <1>4

\* A board stays a board.
LEMMA StepTyped ==
    ASSUME NEW b, IsBoard(b), NEW op \in Operations, Fit(b, op)
    PROVE  IsBoard(Step(b, op))
<1>1. DOMAIN b = Uuids \cup {Class} /\ Class \notin Uuids
  BY BoardAssumption DEF IsBoard
<1>2. \A u \in Uuids : Step(b, op)[u] \in Items
  <2> TAKE u \in Uuids
  <2>1. Step(b, op)[u] = Eff(op, u, b[u])
    BY <1>1 DEF Step
  <2> QED
    BY <2>1, KindsKept
<1>3. Step(b, op)[Class] \in Classes
  <2>1. Step(b, op)[Class] = Eff(op, Class, b[Class])
    BY <1>1 DEF Step
  <2> QED
    BY <1>1, <2>1, ClassKept
<1>4. Step(b, op) = [u \in Uuids \cup {Class} |-> Step(b, op)[u]]
  BY <1>1 DEF Step
<1> HIDE DEF Step
<1> QED
  BY <1>1, <1>2, <1>3, <1>4 DEF IsBoard

-----------------------------------------------------------------------------
(* Two operations of one batch.                                            *)

Apart(p, q) == Claimed(p) \cap Claimed(q) = {}

\* Two operations of a valid batch name the same item only if one of them
\* writes a field of it.
LEMMA OneWrites ==
    ASSUME NEW p \in Operations, NEW q \in Operations, Apart(p, q),
           NEW u, u \in Own(p), u \in Own(q)
    PROVE  /\ p.op = "field" \/ q.op = "field"
           /\ p.op = "field" => u = p.uuid
           /\ q.op = "field" => u = q.uuid
           /\ p.op = "field" /\ q.op = "field" => p.name # q.name
<1>1. ASSUME NEW o \in Operations, u \in Own(o)
      PROVE  /\ o.op = "netclass_update" => u = Class /\ <<Class, "sizes">> \in Claimed(o)
             /\ o.op \notin {"netclass_update", "field"} => <<u, "">> \in Claimed(o)
             /\ o.op = "field" => u = o.uuid /\ <<u, o.name>> \in Claimed(o)
             /\ o.op # "netclass_update" => u \in Uuids
  <2>1. CASE o.op = "netclass_update"
    BY <1>1, <2>1 DEF Own, Claimed
  <2>2. CASE o.op = "outline_rectangle"
    BY <1>1, <2>2, OwnTyped DEF Own, Claimed
  <2>3. CASE o.op = "footprint_move"
    BY <1>1, <2>3, OwnTyped DEF Own, Claimed
  <2>4. CASE o.op = "field"
    BY <1>1, <2>4, OwnTyped DEF Own, Claimed
  <2>5. CASE o.op \in {"pad_paste", "add", "delete", "update"}
    BY <1>1, <2>5, OwnTyped DEF Own, Claimed
  <2> QED
    BY <2>1, <2>2, <2>3, <2>4, <2>5, OpKinds
<1> QED
  BY <1>1, BoardAssumption DEF Apart

\* On a board that both fit, it is a footprint, and the other operation moves
\* it or writes another field.
LEMMA Shared ==
    ASSUME NEW b, IsBoard(b), NEW p \in Operations, NEW q \in Operations, Apart(p, q),
           Fit(b, p), Fit(b, q), NEW u, u \in Own(p), u \in Own(q)
    PROVE  /\ u \in Uuids /\ b[u] \in Footprints /\ u = p.uuid /\ u = q.uuid
           /\ p.op \in {"field", "footprint_move"} /\ q.op \in {"field", "footprint_move"}
           /\ p.op = "field" \/ q.op = "field"
           /\ p.op = "field" /\ q.op = "field" => p.name # q.name
<1>1. /\ p.op = "field" \/ q.op = "field"
      /\ p.op = "field" => u = p.uuid
      /\ q.op = "field" => u = q.uuid
      /\ p.op = "field" /\ q.op = "field" => p.name # q.name
  BY OneWrites
<1>2. u \in Uuids /\ b[u].kind = "footprint"
  BY <1>1 DEF Fit, Operations
<1>3. b[u] \in Footprints
  BY <1>2, ItemKinds
<1>4. ASSUME NEW o \in Operations, Fit(b, o), u \in Own(o)
      PROVE  o.op \in {"field", "footprint_move"} /\ u = o.uuid
  <2>1. CASE o.op = "footprint_move"
    BY <1>2, <1>4, <2>1 DEF Own, Fit
  <2>2. CASE o.op = "outline_rectangle"
    BY <1>2, <1>4, <2>2 DEF Own, Fit
  <2>3. CASE o.op = "netclass_update"
    BY <1>2, <1>4, <2>3, OwnTyped, BoardAssumption
  <2>4. CASE o.op \in {"field", "pad_paste", "add", "delete", "update"}
    BY <1>2, <1>4, <2>4 DEF Own, Fit
  <2> QED
    BY <2>1, <2>2, <2>3, <2>4, OpKinds
<1> QED
  BY <1>1, <1>2, <1>3, <1>4

\* What an operation looks for, another one of the batch leaves there.
LEMMA SameFound ==
    ASSUME NEW b, IsBoard(b), NEW p \in Operations, NEW q \in Operations, Apart(p, q),
           Fit(b, p), Fit(b, q), NEW u \in Uuids, u \in Own(q), NEW y, y = Eff(p, u, b[u])
    PROVE  /\ y.kind = b[u].kind
           /\ q.op = "footprint_move" /\ u = q.uuid => y.pose = b[u].pose
<1>1. CASE u \notin Own(p)
  <2>1. \/ y = b[u]
        \/ y \in Pads /\ b[u] \in Pads
    BY <1>1, NotNamed
  <2>2. q.op = "footprint_move" /\ u = q.uuid => b[u].kind = "footprint"
    BY DEF Fit
  <2> QED
    BY <2>1, <2>2 DEF Pads
<1>2. CASE u \in Own(p)
  <2>1. /\ b[u] \in Footprints /\ u = p.uuid
        /\ p.op \in {"field", "footprint_move"}
        /\ q.op = "footprint_move" => p.op = "field"
    BY <1>2, Shared
  <2>2. y \in Footprints
    BY <1>2, <2>1, NamedKinds
  <2>3. p.op = "field" => y = [b[u] EXCEPT !.fields[p.name] = p.to]
    BY <1>2 DEF Eff, Made
  <2>4. p.op = "field" => y.pose = b[u].pose
    BY <2>1, <2>3 DEF Footprints
  <2> QED
    BY <2>1, <2>2, <2>4 DEF Footprints
<1> QED
  BY <1>1, <1>2

\* An operation that fits still fits after another one of the batch.
LEMMA FitKept ==
    ASSUME NEW b, IsBoard(b), NEW p \in Operations, NEW q \in Operations, Apart(p, q),
           Fit(b, p), Fit(b, q)
    PROVE  Fit(Step(b, p), q)
<1>1. PICK c : c = Step(b, p)
  OBVIOUS
<1>2. \A u \in Own(q) : u \in Uuids =>
         /\ c[u].kind = b[u].kind
         /\ q.op = "footprint_move" /\ u = q.uuid => c[u].pose = b[u].pose
  <2> TAKE u \in Own(q)
  <2> HAVE u \in Uuids
  <2>1. c[u] = Eff(p, u, b[u])
    BY <1>1 DEF Step, IsBoard
  <2> QED
    BY <2>1, SameFound
<1>3. q.op # "netclass_update" => Own(q) \subseteq Uuids
  BY OwnTyped
<1> SUFFICES Fit(c, q)
  BY <1>1
<1>4. CASE q.op = "footprint_move"
  BY <1>2, <1>3, <1>4 DEF Fit, Own
<1>5. CASE q.op = "outline_rectangle"
  BY <1>2, <1>3, <1>5 DEF Fit, Own
<1>6. CASE q.op \in {"field", "pad_paste", "add", "delete", "update"}
  BY <1>2, <1>3, <1>6 DEF Fit, Own
<1>7. CASE q.op = "netclass_update"
  BY <1>7 DEF Fit
<1> QED
  BY <1>4, <1>5, <1>6, <1>7, OpKinds

\* A pad that goes with its footprint keeps the paste it is given, before or
\* after.
LEMMA PasteAndMove ==
    ASSUME NEW x \in Pads, NEW op, NEW to
    PROVE  PadWith([x EXCEPT !.paste = to], op) = [PadWith(x, op) EXCEPT !.paste = to]
<1>1. PICK y : y = [x EXCEPT !.paste = to]
  OBVIOUS
<1>2. y.pose = x.pose
  BY <1>1 DEF Pads
<1>3. PICK w : w = [pos |-> Transformed(x.pose.pos, op.from, op.to),
                    rot |-> Wrapped(x.pose.rot + op.to.rot - op.from.rot)]
  OBVIOUS
<1>4. PadWith(x, op) = [x EXCEPT !.pose = w]
  BY <1>3 DEF PadWith
<1>5. PadWith(y, op) = [y EXCEPT !.pose = w]
  BY <1>2, <1>3 DEF PadWith
<1>6. [y EXCEPT !.pose = w] = [[x EXCEPT !.pose = w] EXCEPT !.paste = to]
  BY <1>1 DEF Pads
<1> QED
  BY <1>1, <1>4, <1>5, <1>6

\* An item that only one of two operations names ends up the same in either
\* order.
LEMMA OneNames ==
    ASSUME NEW b, IsBoard(b), NEW p \in Operations, NEW q \in Operations, Apart(p, q),
           Fit(b, p), Fit(b, q), NEW u \in Uuids, u \in Own(p), u \notin Own(q)
    PROVE  Eff(q, u, Eff(p, u, b[u])) = Eff(p, u, Eff(q, u, b[u]))
<1>1. PICK y : y = Eff(p, u, b[u])
  OBVIOUS
<1>2. y.kind = "pad" => b[u].kind = "pad" /\ b[u].owner = y.owner
  BY <1>1, KindsKept
<1>3. CASE q.op = "footprint_move" /\ b[u].kind = "pad" /\ b[u].owner = q.uuid
  <2>1. p.op = "pad_paste"
    <3>1. b[u] \in Pads
      BY <1>3, ItemKinds
    <3>2. b[u] \notin Footprints /\ b[u] \notin Tracks \cup Vias \cup Zones
      BY <1>3 DEF Footprints, Tracks, Vias, Zones
    <3> QED
      BY <1>1, <1>3, <3>2, NamedKinds, OpKinds
  <2>2. b[u] \in Pads
    BY <1>3, ItemKinds
  <2>3. y = [b[u] EXCEPT !.paste = p.to]
    BY <1>1, <2>1 DEF Eff, Made
  <2>4. y.kind = "pad" /\ y.owner = q.uuid
    BY <1>3, <2>2, <2>3 DEF Pads
  <2>5. u # q.uuid
    BY <1>3 DEF Own
  <2>6. Eff(q, u, y) = PadWith(y, q)
    BY <1>3, <2>4, <2>5 DEF Eff, MoveOf
  <2>7. Eff(q, u, b[u]) = PadWith(b[u], q)
    BY <1>3, <2>5 DEF Eff, MoveOf
  <2>8. \A z : Eff(p, u, z) = [z EXCEPT !.paste = p.to]
    BY <2>1 DEF Eff, Made
  <2>9. Eff(p, u, PadWith(b[u], q)) = [PadWith(b[u], q) EXCEPT !.paste = p.to]
    BY <2>8
  <2>10. PadWith([b[u] EXCEPT !.paste = p.to], q) = [PadWith(b[u], q) EXCEPT !.paste = p.to]
    BY <2>2, PasteAndMove
  <2> QED
    BY <1>1, <2>3, <2>6, <2>7, <2>9, <2>10, Zenon
<1>4. CASE ~(q.op = "footprint_move" /\ b[u].kind = "pad" /\ b[u].owner = q.uuid)
  <2>1. ASSUME NEW z, ~(q.op = "footprint_move" /\ z.kind = "pad" /\ z.owner = q.uuid)
        PROVE  Eff(q, u, z) = z
    <3>1. q.op = "footprint_move" => u # q.uuid /\ u \notin q.members
      BY DEF Own
    <3> QED
      BY <2>1, <3>1 DEF Eff, MoveOf
  <2>2. Eff(q, u, y) = y
    BY <1>2, <1>4, <2>1
  <2>3. Eff(q, u, b[u]) = b[u]
    BY <1>4, <2>1
  <2> QED
    BY <1>1, <2>2, <2>3
<1> QED
  BY <1>3, <1>4

\* So does one that both name, a footprint moved and written or written twice.
LEMMA BothName ==
    ASSUME NEW b, IsBoard(b), NEW p \in Operations, NEW q \in Operations, Apart(p, q),
           Fit(b, p), Fit(b, q), NEW u \in Uuids, u \in Own(p), u \in Own(q)
    PROVE  Eff(q, u, Eff(p, u, b[u])) = Eff(p, u, Eff(q, u, b[u]))
<1>1. /\ b[u] \in Footprints /\ u = p.uuid /\ u = q.uuid
      /\ p.op \in {"field", "footprint_move"} /\ q.op \in {"field", "footprint_move"}
      /\ p.op = "field" \/ q.op = "field"
      /\ p.op = "field" /\ q.op = "field" => p.name # q.name
  BY Shared
<1>2. ASSUME NEW o \in {p, q}
      PROVE  /\ o.op = "field" => \A z : Eff(o, u, z) = [z EXCEPT !.fields[o.name] = o.to]
             /\ o.op = "footprint_move" => \A z : Eff(o, u, z) = [z EXCEPT !.pose = o.to]
  BY <1>1 DEF Eff, Made, MoveOf
<1>3. PICK x \in Footprints : x = b[u]
  BY <1>1
<1>4. /\ p.op = "field" => p.name \in {"Value", "MPN"}
      /\ q.op = "field" => q.name \in {"Value", "MPN"}
  BY DEF Fit
<1>5. ASSUME NEW f \in Footprints, NEW o \in {p, q}, NEW r \in {p, q},
             o.op = "field", r.op = "footprint_move"
      PROVE  Eff(r, u, Eff(o, u, f)) = Eff(o, u, Eff(r, u, f))
  <2>1. PICK y : y = [f EXCEPT !.fields[o.name] = o.to]
    OBVIOUS
  <2>2. PICK w : w = [f EXCEPT !.pose = r.to]
    OBVIOUS
  <2>3. [y EXCEPT !.pose = r.to] = [w EXCEPT !.fields[o.name] = o.to]
    BY <1>4, <1>5, <2>1, <2>2 DEF Footprints
  <2>4. Eff(o, u, f) = y /\ Eff(r, u, f) = w
    BY <1>2, <1>5, <2>1, <2>2
  <2>5. Eff(r, u, y) = [y EXCEPT !.pose = r.to] /\ Eff(o, u, w) = [w EXCEPT !.fields[o.name] = o.to]
    BY <1>2, <1>5
  <2> QED
    BY <2>3, <2>4, <2>5
<1>6. CASE p.op = "field" /\ q.op = "field"
  <2>1. PICK y : y = [x EXCEPT !.fields[p.name] = p.to]
    OBVIOUS
  <2>2. PICK w : w = [x EXCEPT !.fields[q.name] = q.to]
    OBVIOUS
  <2>3. [y EXCEPT !.fields[q.name] = q.to] = [w EXCEPT !.fields[p.name] = p.to]
    BY <1>1, <1>4, <1>6, <2>1, <2>2 DEF Footprints
  <2>4. /\ Eff(p, u, x) = y /\ Eff(q, u, x) = w
        /\ Eff(q, u, y) = [y EXCEPT !.fields[q.name] = q.to]
        /\ Eff(p, u, w) = [w EXCEPT !.fields[p.name] = p.to]
    BY <1>2, <1>6, <2>1, <2>2
  <2> QED
    BY <1>3, <2>3, <2>4
<1>7. CASE p.op = "field" /\ q.op = "footprint_move"
  BY <1>3, <1>5, <1>7
<1>8. CASE p.op = "footprint_move" /\ q.op = "field"
  BY <1>3, <1>5, <1>8
<1> QED
  BY <1>1, <1>6, <1>7, <1>8

\* So does one that neither names, a pad of a footprint only one can move.
LEMMA NeitherNames ==
    ASSUME NEW b, IsBoard(b), NEW p \in Operations, NEW q \in Operations, Apart(p, q),
           Fit(b, p), Fit(b, q), NEW u \in Uuids, u \notin Own(p), u \notin Own(q)
    PROVE  Eff(q, u, Eff(p, u, b[u])) = Eff(p, u, Eff(q, u, b[u]))
<1>1. ASSUME NEW o \in {p, q}, NEW z, ~(o.op = "footprint_move" /\ z.kind = "pad" /\ z.owner = o.uuid)
      PROVE  Eff(o, u, z) = z
  <2>1. o.op = "footprint_move" => u # o.uuid /\ u \notin o.members
    BY DEF Own
  <2> QED
    BY <1>1, <2>1 DEF Eff, MoveOf
<1>2. p.op = "footprint_move" /\ q.op = "footprint_move" => p.uuid # q.uuid
  BY OneWrites DEF Own
<1>3. ASSUME NEW o \in {p, q}, NEW z, z = Eff(o, u, b[u])
      PROVE  z.kind = "pad" => b[u].kind = "pad" /\ b[u].owner = z.owner
  BY <1>3, KindsKept
<1>4. CASE ~(p.op = "footprint_move" /\ b[u].kind = "pad" /\ b[u].owner = p.uuid)
  <2>1. Eff(p, u, b[u]) = b[u]
    BY <1>1, <1>4
  <2>2. Eff(p, u, Eff(q, u, b[u])) = Eff(q, u, b[u])
    BY <1>1, <1>3, <1>4
  <2> QED
    BY <2>1, <2>2
<1>5. CASE ~(q.op = "footprint_move" /\ b[u].kind = "pad" /\ b[u].owner = q.uuid)
  <2>1. Eff(q, u, b[u]) = b[u]
    BY <1>1, <1>5
  <2>2. Eff(q, u, Eff(p, u, b[u])) = Eff(p, u, b[u])
    BY <1>1, <1>3, <1>5
  <2> QED
    BY <2>1, <2>2
<1> QED
  BY <1>2, <1>4, <1>5

\* Two operations that fit a board may be applied in either order.
LEMMA Commute ==
    ASSUME NEW b, IsBoard(b), NEW p \in Operations, NEW q \in Operations, Apart(p, q),
           Fit(b, p), Fit(b, q)
    PROVE  Apply(Apply(b, p), q) = Apply(Apply(b, q), p)
<1>0. Apart(q, p) /\ Class \notin Uuids /\ DOMAIN b = Uuids \cup {Class}
  BY BoardAssumption DEF Apart, IsBoard
<1>1. /\ IsBoard(Step(b, p)) /\ Fit(Step(b, p), q) /\ IsBoard(Step(b, q)) /\ Fit(Step(b, q), p)
  BY <1>0, StepTyped, FitKept
<1>2. /\ Apply(Apply(b, p), q) = Step(Step(b, p), q)
      /\ Apply(Apply(b, q), p) = Step(Step(b, q), p)
  BY <1>1, ApplyIs
<1>3. ASSUME NEW u \in DOMAIN b
      PROVE  Eff(q, u, Eff(p, u, b[u])) = Eff(p, u, Eff(q, u, b[u]))
  <2>1. CASE u \in Uuids
    <3>1. CASE u \in Own(p) /\ u \in Own(q)
      BY <2>1, <3>1, BothName
    <3>2. CASE u \in Own(p) /\ u \notin Own(q)
      BY <2>1, <3>2, OneNames
    <3>3. CASE u \notin Own(p) /\ u \in Own(q)
      BY <1>0, <2>1, <3>3, OneNames
    <3>4. CASE u \notin Own(p) /\ u \notin Own(q)
      BY <2>1, <3>4, NeitherNames
    <3> QED
      BY <3>1, <3>2, <3>3, <3>4
  <2>2. CASE u = Class
    <3>1. ~(p.op = "netclass_update" /\ q.op = "netclass_update")
      BY OneWrites, OwnTyped
    <3>2. \/ Eff(p, u, b[u]) = b[u] /\ p.op # "netclass_update"
          \/ Eff(q, u, b[u]) = b[u] /\ q.op # "netclass_update"
      BY <1>0, <2>2, <3>1, ClassKept
    <3>3. ASSUME NEW o \in {p, q}, o.op # "netclass_update", NEW z \in Classes
          PROVE  Eff(o, u, z) = z
      <4>1. u \notin Own(o) /\ z.kind # "pad"
        BY <1>0, <2>2, <3>3, OwnTyped DEF Classes
      <4>2. o.op = "footprint_move" => u # o.uuid /\ u \notin o.members
        BY <4>1 DEF Own
      <4> QED
        BY <4>1, <4>2 DEF Eff, MoveOf
    <3>4. Eff(p, u, b[u]) \in Classes /\ Eff(q, u, b[u]) \in Classes
      BY <1>0, <2>2, ClassKept
    <3> QED
      BY <3>2, <3>3, <3>4
  <2> QED
    BY <1>0, <2>1, <2>2
<1>4. \A u \in DOMAIN b : /\ Step(Step(b, p), q)[u] = Eff(q, u, Eff(p, u, b[u]))
                          /\ Step(Step(b, q), p)[u] = Eff(p, u, Eff(q, u, b[u]))
  BY DEF Step
<1>5. /\ Step(Step(b, p), q) = [u \in DOMAIN b |-> Step(Step(b, p), q)[u]]
      /\ Step(Step(b, q), p) = [u \in DOMAIN b |-> Step(Step(b, q), p)[u]]
  BY DEF Step
<1> HIDE DEF Step
<1> QED
  BY <1>2, <1>3, <1>4, <1>5

-----------------------------------------------------------------------------
(* The batch.                                                              *)

\* What the preflight accepts fits the board as it was opened.
LEMMA AcceptedFits ==
    ASSUME NEW b, IsBoard(b), NEW op \in Operations, WellFormed(op), Preflight(b, op)
    PROVE  Fit(b, op)
<1>1. CASE op.op = "footprint_move"
  <2>1. op.from \in Poses /\ op.to \in Poses /\ op.uuid \notin op.members
    BY <1>1 DEF WellFormed, Operations, Poses
  <2> QED
    BY <1>1, <2>1 DEF Preflight, Fit
<1>2. CASE op.op = "outline_rectangle"
  <2>1. OutlineBound(b, op) /\ Len(op.uuids) = 4 /\ IsInjective(op.uuids)
    BY <1>2 DEF Preflight, WellFormed
  <2>2. \A u \in ToSet(op.uuids) : b[u].kind \in {"missing", "edge"}
    BY <2>1 DEF OutlineBound, Edges, Missing
  <2> QED
    BY <1>2, <2>1, <2>2 DEF Fit
<1>3. CASE op.op \in {"pad_paste", "field"}
  BY <1>3 DEF Preflight, Fit, WellFormed
<1>4. CASE op.op = "add"
  BY <1>4 DEF Preflight, Fit, Missing
<1>5. CASE op.op = "delete"
  BY <1>5 DEF Preflight, Fit, DeletesExactly
<1>6. CASE op.op = "update"
  BY <1>6 DEF Preflight, Fit
<1>7. CASE op.op = "netclass_update"
  BY <1>7 DEF Fit
<1> QED
  BY <1>1, <1>2, <1>3, <1>4, <1>5, <1>6, <1>7, OpKinds

\* The operations still to come fit the board as it is by then.
TurnsFit ==
    phase \in {"applying", "applied"} =>
        /\ Accepted(before, batch)
        /\ \A i \in done + 1 .. Len(batch) : Fit(board, batch[i])

\* Both loops are at the same board, which is the opened one until they start.
InStep ==
    /\ board = expected
    /\ phase \in {"composing", "refused"} => done = 0 /\ board = before

\* No pad is new, and none changes its footprint.
PadsKept ==
    \A u \in Uuids : board[u].kind = "pad" =>
        before[u].kind = "pad" /\ before[u].owner = board[u].owner

\* The edges are those that were there, or the last outline drawn.
Drawing(i) == batch[i].op = "outline_rectangle"
EdgesKept ==
    /\ \A u \in Uuids : before[u].kind = "edge" => board[u].kind = "edge"
    /\ \A u \in Uuids : board[u].kind = "edge" =>
         \/ board[u] = before[u]
         \/ \E i \in 1 .. done : Drawing(i) /\ u \in ToSet(batch[i].uuids)
    /\ \A i \in 1 .. done : Drawing(i) =>
         \A k \in 1 .. 4 : board[batch[i].uuids[k]] = Edge(batch[i].bounds, k)

Inv == /\ TypeOK /\ InStep /\ TurnsFit /\ ReadbackAgrees
       /\ OnlyDeclaredChanges /\ PadsKept /\ EdgesKept

\* The board as it is opened.
LEMMA InvInit == Init => Inv
<1> SUFFICES ASSUME Init
             PROVE  Inv
  OBVIOUS
<1>1. /\ board \in Boards /\ before = board /\ expected = board
      /\ batch = <<>> /\ done = 0 /\ phase = "composing"
  BY DEF Init
<1>2. IsBoard(board)
  BY <1>1, BoardAssumption
<1>3. TypeOK
  BY <1>1, <1>2, BatchAssumption DEF TypeOK, Phases
<1>4. InStep /\ TurnsFit /\ ReadbackAgrees /\ OnlyDeclaredChanges
  BY <1>1 DEF InStep, TurnsFit, ReadbackAgrees, OnlyDeclaredChanges
<1>5. PadsKept /\ EdgesKept
  BY <1>1 DEF PadsKept, EdgesKept
<1> QED
  BY <1>3, <1>4, <1>5 DEF Inv

\* Only a turn of the loops changes the board.
LEMMA InvOthers ==
    ASSUME Inv, (\E op \in Requests : Compose(op)) \/ Submit \/ Compare \/ UNCHANGED vars
    PROVE  Inv'
<1>1. CASE UNCHANGED vars
  <2>1. TypeOK' /\ InStep' /\ TurnsFit' /\ ReadbackAgrees'
    BY <1>1 DEF Inv, vars, TypeOK, InStep, TurnsFit, ReadbackAgrees
  <2>2. OnlyDeclaredChanges' /\ PadsKept' /\ EdgesKept'
    BY <1>1 DEF Inv, vars, OnlyDeclaredChanges, Names, PadsOf, PadsKept, EdgesKept, Drawing
  <2> QED
    BY <2>1, <2>2 DEF Inv
<1>2. ASSUME NEW op \in Requests, Compose(op)
      PROVE  Inv'
  <2>1. /\ phase = "composing" /\ batch' = Append(batch, op) /\ Len(batch) < MaxOps
        /\ UNCHANGED <<board, before, expected, done, phase>>
    BY <1>2 DEF Compose
  <2>2. done = 0 /\ board = before
    BY <2>1 DEF Inv, InStep
  <2>3. TypeOK'
    BY <2>1, BatchAssumption DEF Inv, TypeOK
  <2>4. InStep' /\ TurnsFit' /\ ReadbackAgrees'
    BY <2>1 DEF Inv, InStep, TurnsFit, ReadbackAgrees
  <2>5. OnlyDeclaredChanges' /\ PadsKept' /\ EdgesKept'
    BY <2>1, <2>2 DEF OnlyDeclaredChanges, PadsKept, EdgesKept
  <2> QED
    BY <2>3, <2>4, <2>5 DEF Inv
<1>3. CASE Submit
  <2>1. /\ phase = "composing" /\ phase' \in {"applying", "refused"}
        /\ phase' = "applying" => Accepted(before, batch)
        /\ UNCHANGED <<board, before, expected, batch, done>>
    BY <1>3 DEF Submit
  <2>2. done = 0 /\ board = before /\ before \in Boards /\ IsBoard(board)
        /\ batch \in Seq(Requests) /\ done \in 0 .. Len(batch)
    BY <2>1 DEF Inv, InStep, TypeOK
  <2>3. TypeOK'
    BY <2>1 DEF Inv, TypeOK, Phases
  <2>4. InStep' /\ ReadbackAgrees'
    BY <2>1 DEF Inv, InStep, ReadbackAgrees
  <2>5. TurnsFit'
    <3>1. ASSUME Accepted(before, batch), NEW i \in 1 .. Len(batch)
          PROVE  Fit(board, batch[i])
      <4>1. i \in DOMAIN batch /\ batch[i] \in Operations
        BY <2>2, <3>1, BatchAssumption
      <4>2. WellFormed(batch[i]) /\ Preflight(board, batch[i])
        BY <2>2, <3>1, <4>1 DEF Accepted, Valid
      <4> QED
        BY <2>2, <4>1, <4>2, AcceptedFits
    <3>2. phase' = "applying" => \A i \in done + 1 .. Len(batch) : Fit(board, batch[i])
      BY <2>1, <2>2, <3>1
    <3> QED
      BY <2>1, <3>2 DEF TurnsFit
  <2>6. OnlyDeclaredChanges' /\ PadsKept' /\ EdgesKept'
    BY <2>1, <2>2 DEF OnlyDeclaredChanges, PadsKept, EdgesKept
  <2> QED
    BY <2>3, <2>4, <2>5, <2>6 DEF Inv
<1>4. CASE Compare
  <2>1. /\ phase = "applying" /\ phase' = "applied"
        /\ UNCHANGED <<board, before, expected, batch, done>>
    BY <1>4 DEF Compare, Inv, InStep
  <2>2. TypeOK' /\ InStep' /\ ReadbackAgrees' /\ TurnsFit'
    BY <2>1 DEF Inv, TypeOK, Phases, InStep, ReadbackAgrees, TurnsFit
  <2>3. OnlyDeclaredChanges' /\ PadsKept' /\ EdgesKept'
    BY <2>1 DEF Inv, OnlyDeclaredChanges, Names, PadsOf, PadsKept, EdgesKept, Drawing
  <2> QED
    BY <2>2, <2>3 DEF Inv
<1> QED
  BY <1>1, <1>2, <1>3, <1>4

\* A turn of both loops, item by item.
LEMMA Turns ==
    ASSUME Inv, ApplyNext, NEW op, op = batch[done + 1]
    PROVE  /\ op \in Operations /\ IsBoard(board) /\ Fit(board, op)
           /\ board' = Step(board, op) /\ expected' = Step(board, op)
           /\ \A u \in Uuids : board'[u] = Eff(op, u, board[u])
           /\ UNCHANGED <<before, batch, phase>> /\ done' = done + 1 /\ phase = "applying"
           /\ done \in Nat /\ done + 1 \in 1 .. Len(batch) /\ batch \in Seq(Operations)
<1>1. /\ phase = "applying" /\ done < Len(batch) /\ done \in 0 .. Len(batch)
      /\ board = expected /\ IsBoard(board) /\ batch \in Seq(Requests)
      /\ \A i \in done + 1 .. Len(batch) : Fit(board, batch[i])
  BY DEF ApplyNext, Inv, InStep, TypeOK, TurnsFit
<1>2. done + 1 \in 1 .. Len(batch) /\ done + 1 \in done + 1 .. Len(batch) /\ batch \in Seq(Operations)
  BY <1>1, BatchAssumption
<1>3. op \in Operations /\ Fit(board, op)
  BY <1>1, <1>2
<1>4. board' = Apply(board, op) /\ expected' = Expect(expected, op)
  BY DEF ApplyNext
<1>5. board' = Step(board, op) /\ expected' = Step(board, op)
  BY <1>1, <1>3, <1>4, ApplyIs
<1>6. \A u \in Uuids : board'[u] = Eff(op, u, board[u])
  BY <1>1, <1>5 DEF Step, IsBoard
<1> QED
  BY <1>1, <1>2, <1>3, <1>5, <1>6 DEF ApplyNext

\* The operations of an accepted batch are apart.
LEMMA BatchApart ==
    ASSUME NEW b, Accepted(b, batch), NEW i \in DOMAIN batch, NEW j \in DOMAIN batch, i # j
    PROVE  Apart(batch[i], batch[j])
BY DEF Accepted, Valid, Apart

\* After a turn both loops are at the same board, which the rest still fits.
LEMMA TurnsFitNext ==
    ASSUME Inv, ApplyNext
    PROVE  TypeOK' /\ InStep' /\ TurnsFit' /\ ReadbackAgrees'
<1>0. PICK op : op = batch[done + 1]
  OBVIOUS
<1>1. /\ op \in Operations /\ IsBoard(board) /\ Fit(board, op)
      /\ board' = Step(board, op) /\ expected' = Step(board, op)
      /\ UNCHANGED <<before, batch, phase>> /\ done' = done + 1 /\ phase = "applying"
      /\ done \in Nat /\ done + 1 \in 1 .. Len(batch) /\ batch \in Seq(Operations)
  BY <1>0, Turns
<1>2. IsBoard(board') /\ IsBoard(expected')
  BY <1>1, StepTyped
<1>3. TypeOK'
  BY <1>1, <1>2 DEF Inv, TypeOK, IsBoard
<1>4. InStep' /\ ReadbackAgrees'
  BY <1>1 DEF InStep, ReadbackAgrees
<1>5. Accepted(before, batch)
  BY <1>1 DEF Inv, TurnsFit
<1>6. ASSUME NEW i \in done + 2 .. Len(batch)
      PROVE  Fit(Step(board, op), batch[i])
  <2>1. /\ i \in DOMAIN batch /\ done + 1 \in DOMAIN batch /\ i # done + 1
        /\ i \in done + 1 .. Len(batch) /\ batch[i] \in Operations
    BY <1>1
  <2>2. Apart(op, batch[i])
    BY <1>0, <1>5, <2>1, BatchApart
  <2>3. Fit(board, batch[i])
    BY <1>1, <2>1 DEF Inv, TurnsFit
  <2> QED
    BY <1>1, <2>1, <2>2, <2>3, FitKept
<1>7. \A i \in done' + 1 .. Len(batch') : Fit(board', batch'[i])
  BY <1>1, <1>6
<1>8. TurnsFit'
  BY <1>1, <1>5, <1>7 DEF TurnsFit
<1> QED
  BY <1>3, <1>4, <1>8

\* A turn changes what its operation names.
LEMMA ChangesDeclared ==
    ASSUME Inv, ApplyNext
    PROVE  PadsKept' /\ OnlyDeclaredChanges'
<1>0. PICK op : op = batch[done + 1]
  OBVIOUS
<1>1. /\ op \in Operations /\ IsBoard(board) /\ Fit(board, op) /\ board' = Step(board, op)
      /\ \A u \in Uuids : board'[u] = Eff(op, u, board[u])
      /\ UNCHANGED <<before, batch, phase>> /\ done' = done + 1
      /\ done \in Nat /\ done + 1 \in 1 .. Len(batch)
  BY <1>0, Turns
<1>2. \A u \in Uuids : board'[u].kind = "pad" => board[u].kind = "pad" /\ board[u].owner = board'[u].owner
  BY <1>1, KindsKept
<1>3. PadsKept'
  BY <1>1, <1>2 DEF Inv, PadsKept
<1>4. ASSUME NEW u \in DOMAIN board', board'[u] # before[u]
      PROVE  \E i \in 1 .. done + 1 : u \in Names(batch[i])
  <2>0. u \in Uuids \cup {Class} /\ DOMAIN board = Uuids \cup {Class} /\ Class \notin Uuids
    BY <1>1, <1>4, BoardAssumption DEF Step, IsBoard
  <2>1. CASE board[u] # before[u]
    <3>1. \E i \in 1 .. done : u \in Names(batch[i])
      BY <2>0, <2>1 DEF Inv, OnlyDeclaredChanges
    <3> QED
      BY <1>1, <3>1
  <2>2. CASE u \in Own(op)
    <3>1. u \in Names(op)
      BY <1>1, <2>2, OpKinds DEF Own, Names
    <3> QED
      BY <1>0, <1>1, <3>1
  <2>3. CASE board[u] = before[u] /\ u \notin Own(op)
    <3>1. u # Class
      <4>1. ASSUME u = Class
            PROVE  board'[u] = board[u]
        <5>1. op.op # "netclass_update"
          BY <1>1, <2>3, <4>1, OwnTyped
        <5>2. board'[u] = Eff(op, u, board[u])
          BY <1>1, <2>0 DEF Step
        <5> QED
          BY <1>1, <2>0, <4>1, <5>1, <5>2, ClassKept
      <4> QED
        BY <1>4, <2>3, <4>1
    <3>2. /\ op.op = "footprint_move" /\ board[u] \in Pads /\ board[u].owner = op.uuid
      BY <1>1, <1>4, <2>0, <2>3, <3>1, NotNamed
    <3>3. before[u].kind = "pad" /\ before[u].owner = op.uuid
      BY <2>3, <3>2 DEF Pads
    <3>4. u \in Names(op)
      BY <2>0, <3>1, <3>2, <3>3 DEF Names, PadsOf
    <3> QED
      BY <1>0, <1>1, <3>4
  <2> QED
    BY <2>1, <2>2, <2>3
<1>5. \A i : Names(batch[i])' = Names(batch[i])
  BY <1>1 DEF Names, PadsOf
<1>6. OnlyDeclaredChanges'
  BY <1>1, <1>4, <1>5 DEF OnlyDeclaredChanges
<1> QED
  BY <1>3, <1>6

\* A rectangle has its four edges at four different items.
LEMMA FourEdges ==
    ASSUME NEW op \in Operations, op.op = "outline_rectangle", Len(op.uuids) = 4,
           IsInjective(op.uuids)
    PROVE  /\ \A k \in 1 .. 4 : op.uuids[k] \in ToSet(op.uuids) /\ op.uuids[k] \in Uuids
           /\ \A u \in ToSet(op.uuids) : \E k \in 1 .. 4 : u = op.uuids[k]
           /\ \A k, j \in 1 .. 4 : op.uuids[k] = op.uuids[j] => k = j
<1>1. op.uuids \in Seq(Uuids) /\ DOMAIN op.uuids = 1 .. 4
  BY DEF Operations
<1> QED
  BY <1>1 DEF ToSet, IsInjective

\* A turn changes edges only by drawing the four of an outline.
LEMMA EdgesKeptNext ==
    ASSUME Inv, ApplyNext
    PROVE  EdgesKept'
<1>0. PICK op : op = batch[done + 1]
  OBVIOUS
<1>1. /\ op \in Operations /\ IsBoard(board) /\ Fit(board, op)
      /\ \A u \in Uuids : board'[u] = Eff(op, u, board[u])
      /\ UNCHANGED <<before, batch, phase>> /\ done' = done + 1 /\ phase = "applying"
      /\ done \in Nat /\ done + 1 \in 1 .. Len(batch) /\ batch \in Seq(Operations)
  BY <1>0, Turns
<1>2. \A u \in Uuids : (board'[u].kind = "edge" \/ board[u].kind = "edge") =>
          board'[u] = board[u] \/ (op.op = "outline_rectangle" /\ u \in Own(op))
  BY <1>1, KindsKept
<1>3. op.op = "outline_rectangle" =>
          \A k \in 1 .. 4 : board'[op.uuids[k]] = Edge(op.bounds, k)
  <2> SUFFICES ASSUME op.op = "outline_rectangle", NEW k \in 1 .. 4
               PROVE  board'[op.uuids[k]] = Edge(op.bounds, k)
    OBVIOUS
  <2>1. /\ op.uuids[k] \in ToSet(op.uuids) /\ op.uuids[k] \in Uuids
        /\ \A j \in 1 .. 4 : op.uuids[k] = op.uuids[j] => k = j
    BY <1>1, FourEdges DEF Fit
  <2>2. board'[op.uuids[k]] = Edge(op.bounds, CHOOSE j \in 1 .. 4 : op.uuids[j] = op.uuids[k])
    BY <1>1, <2>1 DEF Eff, Own, Made
  <2>3. (CHOOSE j \in 1 .. 4 : op.uuids[j] = op.uuids[k]) = k
    BY <2>1
  <2> QED
    BY <2>2, <2>3
<1>4. op.op = "outline_rectangle" => \A u \in Own(op) : u \in ToSet(op.uuids) /\ board'[u].kind = "edge"
  <2> SUFFICES ASSUME op.op = "outline_rectangle", NEW u \in Own(op)
               PROVE  u \in ToSet(op.uuids) /\ board'[u].kind = "edge"
    OBVIOUS
  <2>1. u \in ToSet(op.uuids)
    BY DEF Own
  <2>2. PICK k \in 1 .. 4 : u = op.uuids[k]
    BY <1>1, <2>1, FourEdges DEF Fit
  <2> QED
    BY <1>3, <2>1, <2>2 DEF Edge
<1>5. \A u \in Uuids : before[u].kind = "edge" => board'[u].kind = "edge"
  BY <1>2, <1>4 DEF Inv, EdgesKept
<1>6. \A u \in Uuids : board'[u].kind = "edge" =>
         \/ board'[u] = before[u]
         \/ \E i \in 1 .. done + 1 : Drawing(i) /\ u \in ToSet(batch[i].uuids)
  <2> SUFFICES ASSUME NEW u \in Uuids, board'[u].kind = "edge"
               PROVE  \/ board'[u] = before[u]
                      \/ \E i \in 1 .. done + 1 : Drawing(i) /\ u \in ToSet(batch[i].uuids)
    OBVIOUS
  <2>1. CASE board'[u] = board[u]
    <3>1. \/ board[u] = before[u]
          \/ \E i \in 1 .. done : Drawing(i) /\ u \in ToSet(batch[i].uuids)
      BY <2>1 DEF Inv, EdgesKept
    <3> QED
      BY <1>1, <2>1, <3>1
  <2>2. CASE op.op = "outline_rectangle" /\ u \in Own(op)
    BY <1>0, <1>1, <1>4, <2>2 DEF Drawing
  <2> QED
    BY <1>2, <2>1, <2>2
<1>7. ASSUME NEW i \in 1 .. done + 1, Drawing(i), NEW k \in 1 .. 4
      PROVE  board'[batch[i].uuids[k]] = Edge(batch[i].bounds, k)
  <2>1. CASE i = done + 1
    BY <1>0, <1>3, <1>7, <2>1 DEF Drawing
  <2>2. CASE i # done + 1
    <3>1. i \in 1 .. done /\ i \in DOMAIN batch /\ done + 1 \in DOMAIN batch
      BY <1>1, <2>2
    <3>2. board[batch[i].uuids[k]] = Edge(batch[i].bounds, k)
      BY <1>7, <3>1 DEF Inv, EdgesKept
    <3>3. Accepted(before, batch) /\ batch[i] \in Operations
      BY <1>1, <3>1 DEF Inv, TurnsFit
    <3>4. Apart(batch[i], op)
      BY <1>0, <2>2, <3>1, <3>3, BatchApart
    <3>5. batch[i].op = "outline_rectangle" /\ Len(batch[i].uuids) = 4 /\ IsInjective(batch[i].uuids)
      BY <1>7, <3>1, <3>3 DEF Drawing, Accepted, Valid, WellFormed
    <3>6. batch[i].uuids[k] \in Uuids /\ batch[i].uuids[k] \in Own(batch[i])
      BY <3>3, <3>5, FourEdges DEF Own
    <3>7. ~(op.op = "outline_rectangle" /\ batch[i].uuids[k] \in Own(op))
      BY <1>1, <3>3, <3>4, <3>5, <3>6, OneWrites
    <3>8. board[batch[i].uuids[k]].kind = "edge"
      BY <3>2 DEF Edge
    <3> QED
      BY <1>2, <3>2, <3>6, <3>7, <3>8
  <2> QED
    BY <2>1, <2>2
<1> QED
  BY <1>1, <1>5, <1>6, <1>7 DEF EdgesKept, Drawing

\* The inductive invariant: both loops are at the same board, the operations to
\* come fit it, and what the operations so far did to it is as they say.
THEOREM Invariance == Spec => []Inv
<1>1. Init => Inv
  BY InvInit
<1>2. Inv /\ [Next]_vars => Inv'
  <2> SUFFICES ASSUME Inv, [Next]_vars
               PROVE  Inv'
    OBVIOUS
  <2>1. CASE ApplyNext
    BY <2>1, TurnsFitNext, ChangesDeclared, EdgesKeptNext DEF Inv
  <2>2. CASE (\E op \in Requests : Compose(op)) \/ Submit \/ Compare \/ UNCHANGED vars
    BY <2>2, InvOthers
  <2> QED
    BY <2>1, <2>2 DEF Next
<1> QED
  BY <1>1, <1>2, PTL DEF Spec

\* Only one outline is drawn, unless a batch draws two first ones: the edges
\* there are can be replaced only once.
LEMMA OneOutline ==
    ASSUME NEW b, Accepted(b, batch), batch \in Seq(Operations),
           \A i, j \in Firsts : i = j,
           NEW i \in DOMAIN batch, NEW j \in DOMAIN batch, Drawing(i), Drawing(j)
    PROVE  i = j
<1>1. \A k \in {i, j} :
         /\ batch[k] \in Operations /\ batch[k].op = "outline_rectangle"
         /\ Len(batch[k].uuids) = 4 /\ IsInjective(batch[k].uuids)
         /\ OutlineBound(b, batch[k])
  <2> TAKE k \in {i, j}
  <2>1. k \in DOMAIN batch /\ batch[k] \in Operations /\ batch[k].op = "outline_rectangle"
    BY DEF Drawing
  <2>2. WellFormed(batch[k]) /\ Preflight(b, batch[k])
    BY <2>1 DEF Accepted, Valid
  <2> QED
    BY <2>1, <2>2 DEF WellFormed, Preflight
<1>2. CASE Edges(b) = {}
  BY <1>1, <1>2 DEF OutlineBound, Firsts
<1>3. CASE Edges(b) # {}
  <2>1. PICK u : u \in Edges(b)
    BY <1>3
  <2>2. \A k \in {i, j} : u \in Own(batch[k])
    BY <1>1, <1>3, <2>1 DEF OutlineBound, Own
  <2>3. Apart(batch[i], batch[j]) => FALSE
    BY <1>1, <2>2, OneWrites
  <2> QED
    BY <2>3, BatchApart
<1> QED
  BY <1>2, <1>3

\* The four edges of a rectangle close.
LEMMA RectangleCloses ==
    ASSUME NEW b, NEW op \in Operations, op.op = "outline_rectangle", Len(op.uuids) = 4,
           IsInjective(op.uuids), Edges(b) = ToSet(op.uuids),
           \A k \in 1 .. 4 : b[op.uuids[k]] = Edge(op.bounds, k)
    PROVE  Closed(b)
<1>1. /\ \A k \in 1 .. 4 : op.uuids[k] \in ToSet(op.uuids)
      /\ \A u \in ToSet(op.uuids) : \E k \in 1 .. 4 : u = op.uuids[k]
      /\ \A k, j \in 1 .. 4 : op.uuids[k] = op.uuids[j] => k = j
  BY FourEdges
<1>2. Cardinality(Edges(b)) = 4
  <2>1. Edges(b) = {op.uuids[1], op.uuids[2], op.uuids[3], op.uuids[4]}
    <3>1. \A u \in Edges(b) : u \in {op.uuids[1], op.uuids[2], op.uuids[3], op.uuids[4]}
      BY <1>1
    <3>2. \A u \in {op.uuids[1], op.uuids[2], op.uuids[3], op.uuids[4]} : u \in Edges(b)
      BY <1>1
    <3> QED
      BY <3>1, <3>2
  <2>2. PICK x1, x2, x3, x4 : x1 = op.uuids[1] /\ x2 = op.uuids[2] /\ x3 = op.uuids[3] /\ x4 = op.uuids[4]
    OBVIOUS
  <2>3. x1 # x2 /\ x1 # x3 /\ x1 # x4 /\ x2 # x3 /\ x2 # x4 /\ x3 # x4
    BY <1>1, <2>2
  <2>4. ASSUME NEW S, NEW n \in Nat, IsFiniteSet(S), Cardinality(S) = n, NEW x, x \notin S
        PROVE  IsFiniteSet(S \cup {x}) /\ Cardinality(S \cup {x}) = n + 1
    BY <2>4, FS_AddElement
  <2>5. IsFiniteSet({x1}) /\ Cardinality({x1}) = 1
    BY FS_Singleton
  <2>6. PICK S : S = {x1} \cup {x2}
    OBVIOUS
  <2>7. IsFiniteSet(S) /\ Cardinality(S) = 2
    BY <2>3, <2>4, <2>5, <2>6
  <2>8. PICK T : T = S \cup {x3}
    OBVIOUS
  <2>9. IsFiniteSet(T) /\ Cardinality(T) = 3
    BY <2>3, <2>4, <2>6, <2>7, <2>8
  <2>10. PICK U : U = T \cup {x4}
    OBVIOUS
  <2>11. Cardinality(U) = 4
    BY <2>3, <2>4, <2>6, <2>8, <2>9, <2>10
  <2>12. Edges(b) = U
    BY <2>1, <2>2, <2>6, <2>8, <2>10
  <2> QED
    BY <2>11, <2>12
<1>3. ASSUME NEW u \in Edges(b)
      PROVE  \E w \in Edges(b) \ {u} : b[w].start = b[u].end
  <2>1. PICK k \in 1 .. 4 : u = op.uuids[k]
    BY <1>1, <1>3
  <2>2. PICK j \in 1 .. 4 : j = IF k = 4 THEN 1 ELSE k + 1
    OBVIOUS
  <2>3. op.uuids[j] \in Edges(b) \ {u}
    BY <1>1, <2>1, <2>2
  <2>4. b[u].end = Corner(op.bounds, j) /\ b[op.uuids[j]].start = Corner(op.bounds, j)
    BY <2>1, <2>2 DEF Edge
  <2> QED
    BY <2>3, <2>4
<1> QED
  BY <1>2, <1>3 DEF Closed

\* The edges there are close: they are untouched, or one rectangle was drawn.
LEMMA InvOutline == Inv => OutlineClosed
<1> SUFFICES ASSUME Inv, Closed(before), \A i, j \in Firsts : i = j
             PROVE  Closed(board)
  BY DEF OutlineClosed
<1>1. /\ batch \in Seq(Operations) /\ done \in 0 .. Len(batch)
      /\ phase \in {"composing", "refused", "applying", "applied"}
  BY BatchAssumption DEF Inv, TypeOK, Phases, ReadbackAgrees
<1>2. CASE phase \in {"composing", "refused"}
  BY <1>2 DEF Inv, InStep
<1>3. CASE phase \in {"applying", "applied"}
  <2>1. Accepted(before, batch)
    BY <1>3 DEF Inv, TurnsFit
  <2>2. CASE \A i \in 1 .. done : ~Drawing(i)
    <3>1. \A u \in Uuids : board[u].kind = "edge" => board[u] = before[u]
      BY <2>2 DEF Inv, EdgesKept
    <3>2. \A u \in Uuids : before[u].kind = "edge" => board[u].kind = "edge"
      BY DEF Inv, EdgesKept
    <3>3. Edges(board) = Edges(before)
      BY <3>1, <3>2 DEF Edges
    <3>4. \A u \in Edges(board) : board[u] = before[u]
      BY <3>1 DEF Edges
    <3> QED
      BY <3>3, <3>4 DEF Closed
  <2>3. ASSUME NEW i \in 1 .. done, Drawing(i)
        PROVE  Closed(board)
    <3>1. i \in DOMAIN batch /\ batch[i] \in Operations /\ \A j \in 1 .. done : j \in DOMAIN batch
      BY <1>1
    <3>2. /\ batch[i].op = "outline_rectangle"
          /\ Len(batch[i].uuids) = 4 /\ IsInjective(batch[i].uuids)
          /\ OutlineBound(before, batch[i])
      BY <2>1, <2>3, <3>1 DEF Drawing, Accepted, Valid, WellFormed, Preflight
    <3>3. \A k \in 1 .. 4 : board[batch[i].uuids[k]] = Edge(batch[i].bounds, k)
      BY <2>3 DEF Inv, EdgesKept
    <3>4. \A u \in ToSet(batch[i].uuids) : u \in Edges(board)
      <4> TAKE u \in ToSet(batch[i].uuids)
      <4>1. PICK k \in 1 .. 4 : u = batch[i].uuids[k]
        BY <3>1, <3>2, FourEdges
      <4>2. u \in Uuids
        BY <3>1, <3>2, <4>1, FourEdges
      <4> QED
        BY <3>3, <4>1, <4>2 DEF Edges, Edge
    <3>5. ASSUME NEW u \in Edges(board)
          PROVE  u \in ToSet(batch[i].uuids)
      <4>1. \/ board[u] = before[u]
            \/ \E j \in 1 .. done : Drawing(j) /\ u \in ToSet(batch[j].uuids)
        BY <3>5 DEF Inv, EdgesKept, Edges
      <4>2. CASE board[u] = before[u]
        <5>1. u \in Edges(before)
          BY <3>5, <4>2 DEF Edges
        <5> QED
          BY <3>2, <5>1 DEF OutlineBound
      <4>3. ASSUME NEW j \in 1 .. done, Drawing(j), u \in ToSet(batch[j].uuids)
            PROVE  u \in ToSet(batch[i].uuids)
        <5>1. i = j
          BY <1>1, <2>1, <2>3, <3>1, <4>3, OneOutline
        <5> QED
          BY <4>3, <5>1
      <4> QED
        BY <4>1, <4>2, <4>3
    <3>6. Edges(board) = ToSet(batch[i].uuids)
      BY <3>4, <3>5
    <3> QED
      BY <3>1, <3>2, <3>3, <3>6, RectangleCloses
  <2> QED
    BY <2>2, <2>3
<1> QED
  BY <1>1, <1>2, <1>3

\* A board stays a board: its items keep their types and their pads their
\* footprints, only what a batch names is changed, and a closed outline stays
\* closed, however many operations a batch has and in whatever order.
THEOREM BatchKeepsBoard == Spec => []BoardKept
<1>1. Inv => BoardKept
  BY InvOutline DEF Inv, BoardKept
<1> QED
  BY <1>1, Invariance, PTL

\* What _expected_readback reckons from the document and what _apply leaves
\* through KiCad's setters are the same board after every accepted batch.
THEOREM SettersDoAsDeclared == Spec => []ReadbackAgrees
<1>1. Inv => ReadbackAgrees
  BY DEF Inv
<1> QED
  BY <1>1, Invariance, PTL

\* The operations of an accepted batch that are still to come commute on the
\* board they find.
THEOREM AnyOrder == Spec => []OrderIrrelevant
<1>1. ASSUME Inv
      PROVE  OrderIrrelevant
  <2> SUFFICES ASSUME phase = "applying",
                      NEW i \in done + 1 .. Len(batch), NEW j \in done + 1 .. Len(batch)
               PROVE  Apply(Apply(board, batch[i]), batch[j]) = Apply(Apply(board, batch[j]), batch[i])
    BY DEF OrderIrrelevant
  <2>1. /\ i \in DOMAIN batch /\ j \in DOMAIN batch
        /\ batch[i] \in Operations /\ batch[j] \in Operations /\ IsBoard(board)
    BY <1>1, BatchAssumption DEF Inv, TypeOK
  <2>2. Fit(board, batch[i]) /\ Fit(board, batch[j]) /\ Accepted(before, batch)
    BY <1>1 DEF Inv, TurnsFit
  <2>3. CASE i = j
    BY <2>3
  <2>4. CASE i # j
    BY <2>1, <2>2, <2>4, BatchApart, Commute
  <2> QED
    BY <2>3, <2>4
<1> QED
  BY <1>1, Invariance, PTL

=============================================================================
