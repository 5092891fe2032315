----------------------------- MODULE NativeBatch -----------------------------
(***************************************************************************)
(* What one batch of pcb/tools/kicad_native.py does to a board: its         *)
(* operations are validated, preflighted against the board as it was        *)
(* opened, applied through KiCad's setters, and the board read back is      *)
(* compared with an expectation computed without them.                      *)
(*                                                                         *)
(* Positions are points of the integer grid and rotations quarter turns,    *)
(* enough to tell a turn from its inverse and a move before a turn from a   *)
(* move after it.  Nets, layers, widths and texts are single tags.          *)
(***************************************************************************)
EXTENDS Integers, Sequences, FiniteSets, SequencesExt

CONSTANTS Uuids,      \* canonical UUIDs: those on the board and spare ones
          Boards,     \* the boards a transaction may be opened on
          Requests,   \* operations a transaction document may hold
          MaxOps      \* bound on the length of a batch

Missing == [kind |-> "missing"]
Class   == "Default"  \* the net class every board has

(* What the tool reads back of each kind of item.                           *)
Points     == Int \X Int
Poses      == [pos : Points, rot : 0 .. 3]
Footprints == [kind : {"footprint"}, pose : Poses, fields : [{"Value", "MPN"} -> STRING]]
Pads       == [kind : {"pad"}, owner : Uuids, pose : Poses, paste : STRING]
Tracks     == [kind : {"track"}, net : STRING, start : Points, end : Points]
Vias       == [kind : {"via"}, net : STRING, pos : Points, dia : Int, drill : Int]
Zones      == [kind : {"zone"}, net : STRING, rule : BOOLEAN, simple : BOOLEAN,
               outline : Seq(Points)]
EdgeCuts   == [kind : {"edge"}, start : Points, end : Points]
Texts      == [kind : {"text"}, layer : STRING]
Classes    == [kind : {"class"}, dia : Int, drill : Int]
Drawn      == Tracks \cup Vias \cup Zones \cup Texts
Items      == {Missing} \cup Footprints \cup Pads \cup EdgeCuts \cup Drawn

(* OPERATION_KEYS: what an operation says.  The adds of the four kinds are   *)
(* one operation here, and so are the two deletes and the two updates.      *)
Operations ==
    [op : {"footprint_move"}, uuid : Uuids, from : [pos : Points, rot : Int],
     to : [pos : Points, rot : Int], members : SUBSET Uuids]
      \cup [op : {"pad_paste"}, uuid : Uuids, from : STRING, to : STRING]
      \cup [op : {"field"}, uuid : Uuids, name : STRING, from : STRING, to : STRING]
      \cup [op : {"add"}, uuid : Uuids, to : Drawn]
      \cup [op : {"delete"}, uuid : Uuids, from : Drawn]
      \cup [op : {"update"}, uuid : Uuids, from : Drawn, to : Drawn]
      \cup [op : {"outline_rectangle"}, uuids : Seq(Uuids), from : SUBSET Uuids,
             bounds : [1 .. 4 -> Int]]
      \cup [op : {"netclass_update"}, from : Classes, to : Classes]

IsBoard(b) ==
    /\ b \in [Uuids \cup {Class} -> Items \cup Classes]
    /\ b[Class] \in Classes /\ \A u \in Uuids : b[u] \in Items

ASSUME BoardAssumption == Class \notin Uuids /\ \A b \in Boards : IsBoard(b)
ASSUME BatchAssumption == MaxOps \in Nat \ {0} /\ Requests \subseteq Operations

VARIABLES board,     \* [Uuids \cup {Class} -> Item]: the board in memory
          before,    \* the board as it was opened
          expected,  \* what the operations so far declare
          batch,     \* the operations of the transaction
          done,      \* how many of them are applied
          phase      \* composing it, applying it, or what became of it
vars == <<board, before, expected, batch, done, phase>>

Phases == {"composing", "refused", "applying", "differs", "applied"}

-----------------------------------------------------------------------------
(* Geometry.  KiCad's y axis points down and its angles turn from x to -y.  *)
Plus(p, q)  == <<p[1] + q[1], p[2] + q[2]>>
Minus(p, q) == <<p[1] - q[1], p[2] - q[2]>>
Turned(p, k) == CASE k = 0 -> p                [] k = 1 -> <<p[2], -p[1]>>
                  [] k = 2 -> <<-p[1], -p[2]>> [] k = 3 -> <<-p[2], p[1]>>
Turn(old, new) == (new.rot - old.rot) % 4

Wrapped(r) == r % 4
TransformedBackwards(p, old, new) ==   \* a slip: the turn has the wrong sense
    Plus(new.pos, Turned(Minus(p, old.pos), Turn(new, old)))

(* _transformed: where a point fixed to a footprint goes with it.           *)
Transformed(p, old, new) ==
    Plus(new.pos, Turned(Minus(p, old.pos), Turn(old, new)))

(* The points an item consists of, and the item with its points mapped.     *)
OnPoints(item, F(_)) ==
    CASE item.kind = "via"   -> [item EXCEPT !.pos = F(@)]
      [] item.kind = "track" -> [item EXCEPT !.start = F(@), !.end = F(@)]
      [] item.kind = "zone"  ->
           [item EXCEPT !.outline = [i \in DOMAIN @ |-> F(@[i])]]
      [] OTHER -> item

PadsOf(b, fp) == {u \in Uuids : b[u].kind = "pad" /\ b[u].owner = fp}
Edges(b)      == {u \in Uuids : b[u].kind = "edge"}
Corner(box, i) == <<IF i \in {1, 4} THEN box[1] ELSE box[3],
                    IF i \in {1, 2} THEN box[2] ELSE box[4]>>
Edge(box, i) == [kind |-> "edge", start |-> Corner(box, i),
                 end |-> Corner(box, IF i = 4 THEN 1 ELSE i + 1)]

-----------------------------------------------------------------------------
(* validate_transaction: what an operation claims, and no two may claim the *)
(* same.  Two different fields of a footprint are two claims.               *)
ClaimedByUuid(op) ==   \* a slip: the members of a group move are forgotten
    CASE op.op = "field"             -> {<<op.uuid, op.name>>}
      [] op.op = "netclass_update"   -> {<<Class, "sizes">>}
      [] op.op = "outline_rectangle" -> {<<u, "">> : u \in ToSet(op.uuids)}
      [] OTHER                       -> {<<op.uuid, "">>}

Claimed(op) ==
    CASE op.op = "field"             -> {<<op.uuid, op.name>>}
      [] op.op = "netclass_update"   -> {<<Class, "sizes">>}
      [] op.op = "outline_rectangle" -> {<<u, "">> : u \in ToSet(op.uuids)}
      [] op.op = "footprint_move"    -> {<<u, "">> : u \in {op.uuid} \cup op.members}
      [] OTHER                       -> {<<op.uuid, "">>}

WellFormed(op) ==
    /\ op.op = "footprint_move" =>
         op.uuid \notin op.members /\ {op.from.rot, op.to.rot} \subseteq 0 .. 3
    /\ op.op = "outline_rectangle" =>
         /\ Len(op.uuids) = 4 /\ IsInjective(op.uuids)
         /\ op.bounds[3] > op.bounds[1] /\ op.bounds[4] > op.bounds[2]
    /\ op.op = "field" => op.name \in {"Value", "MPN"} /\ op.to # "none"

Valid(ops) ==
    /\ ops # <<>>
    /\ \A i \in DOMAIN ops : WellFormed(ops[i])
    /\ \A i, j \in DOMAIN ops : i # j => Claimed(ops[i]) \cap Claimed(ops[j]) = {}

-----------------------------------------------------------------------------
(* _validate_geometry, _validate_zone, _validate_text and the net classes.  *)
DoubleArea(outline) ==
    FoldLeft(LAMBDA sum, i :
                LET p == outline[i]
                    q == outline[IF i = Len(outline) THEN 1 ELSE i + 1]
                IN sum + p[1] * q[2] - q[1] * p[2],
             0, [i \in 1 .. Len(outline) |-> i])

GoodItem(item) ==
    CASE item.kind = "track" -> item.net # "" /\ item.start # item.end
      [] item.kind = "via"   -> item.net # "" /\ 0 < item.drill /\ item.drill < item.dia
      [] item.kind = "zone"  ->
           /\ item.simple
           /\ item.net # "" \/ item.rule
           /\ Len(item.outline) >= 3 /\ IsInjective(item.outline)
           /\ DoubleArea(item.outline) # 0
      [] item.kind = "text"  -> item.layer \notin {"F.Cu", "B.Cu", "Edge.Cuts", "F.Mask",
                                                   "B.Mask", "F.Paste", "B.Paste"}

Unset == -1  \* the native sentinel -0.000001 of a size that is not set
GoodClass(c) ==
    /\ \A size \in {c.dia, c.drill} : size > 0 \/ size = Unset
    /\ ~(0 < c.dia /\ c.dia <= c.drill)

(* An outline is drawn where there is none, or replaces exactly the four    *)
(* edges there are.                                                         *)
OutlineBound(b, op) ==
    IF op.from = {} THEN Edges(b) = {} /\ \A u \in ToSet(op.uuids) : b[u] = Missing
                    ELSE op.from = Edges(b) /\ Edges(b) = ToSet(op.uuids)

DeletesExactly(b, op) ==
    /\ op.from.kind \in {"track", "via"} /\ GoodItem(op.from)
    /\ b[op.uuid] = op.from

(* _preflight: every operation against the board as it was opened.          *)
Preflight(b, op) ==
    CASE op.op = "footprint_move" ->
           /\ b[op.uuid].kind = "footprint"
           /\ b[op.uuid].pose = op.from
           /\ \A u \in op.members : b[u].kind \in {"track", "via", "zone"}
      [] op.op = "pad_paste" -> b[op.uuid].kind = "pad" /\ b[op.uuid].paste = op.from
      [] op.op = "field"     ->
           b[op.uuid].kind = "footprint" /\ b[op.uuid].fields[op.name] = op.from
      [] op.op = "add"       -> b[op.uuid] = Missing /\ GoodItem(op.to)
      [] op.op = "delete"    -> DeletesExactly(b, op)
      [] op.op = "update"    ->
           /\ op.to.kind \in {"zone", "text"} /\ op.from.kind = op.to.kind
           /\ GoodItem(op.to) /\ b[op.uuid] = op.from
           /\ op.to.kind = "zone" => GoodItem(op.from) /\ op.from.rule = op.to.rule
      [] op.op = "outline_rectangle" -> OutlineBound(b, op)
      [] op.op = "netclass_update"   -> b[Class] = op.from /\ GoodClass(op.to)

Accepted(b, ops) == Valid(ops) /\ \A i \in DOMAIN ops : Preflight(b, ops[i])

-----------------------------------------------------------------------------
(* KiCad's part of _apply.  Rotate turns an item about a point and Move     *)
(* shifts it; a footprint takes its pads along, SetPosition by shifting     *)
(* them and SetOrientation by turning them about the footprint.             *)
Rotate(item, about, k) ==
    LET Spin(p) == Plus(about, Turned(Minus(p, about), k)) IN OnPoints(item, Spin)
Move(item, by) == LET Shift(p) == Plus(p, by) IN OnPoints(item, Shift)

SetPosition(b, fp, pos) ==
    LET by == Minus(pos, b[fp].pose.pos) IN
    [u \in DOMAIN b |->
       IF u = fp THEN [b[u] EXCEPT !.pose.pos = pos]
       ELSE IF u \in PadsOf(b, fp) THEN [b[u] EXCEPT !.pose.pos = Plus(@, by)]
       ELSE b[u]]

SetOrientation(b, fp, rot) ==
    LET k == (rot - b[fp].pose.rot) % 4
        at == b[fp].pose.pos
        Spin(p) == Plus(at, Turned(Minus(p, at), k))
    IN [u \in DOMAIN b |->
          IF u = fp THEN [b[u] EXCEPT !.pose.rot = rot]
          ELSE IF u \in PadsOf(b, fp)
            THEN [b[u] EXCEPT !.pose = [pos |-> Spin(@.pos), rot |-> Wrapped(@.rot + k)]]
          ELSE b[u]]

SetEveryField(b, op) ==   \* a slip: every footprint with that field
    [u \in DOMAIN b |-> IF b[u].kind = "footprint"
                        THEN [b[u] EXCEPT !.fields[op.name] = op.to] ELSE b[u]]

SetField(b, op) == [b EXCEPT ![op.uuid].fields[op.name] = op.to]

RemoveNative(b, u) == [b EXCEPT ![u] = Missing]

(* _set_layers, _set_zone, _set_text: every attribute the document gives.   *)
SetItem(b, u, item) == [b EXCEPT ![u] = item]

(* One operation of _apply.                                                 *)
Apply(b, op) ==
    CASE op.op = "footprint_move" ->
           LET by == Minus(op.to.pos, op.from.pos)
               k  == Turn(op.from, op.to)
               carried == [u \in DOMAIN b |->
                             IF u \in op.members
                             THEN Move(Rotate(b[u], op.from.pos, k), by) ELSE b[u]]
           IN SetOrientation(SetPosition(carried, op.uuid, op.to.pos), op.uuid, op.to.rot)
      [] op.op = "pad_paste" -> [b EXCEPT ![op.uuid].paste = op.to]
      [] op.op = "field"     -> SetField(b, op)
      [] op.op = "delete"    -> RemoveNative(b, op.uuid)
      [] op.op \in {"add", "update"} -> SetItem(b, op.uuid, op.to)
      [] op.op = "outline_rectangle" ->
           [u \in DOMAIN b |-> IF \E i \in 1 .. 4 : op.uuids[i] = u
                               THEN Edge(op.bounds, CHOOSE i \in 1 .. 4 : op.uuids[i] = u)
                               ELSE b[u]]
      [] op.op = "netclass_update" -> [b EXCEPT ![Class] = op.to]

(* One operation of _expected_readback: the declared result, computed from  *)
(* the document alone.                                                      *)
Expect(b, op) ==
    IF op.op # "footprint_move" THEN Apply(b, op)
    ELSE LET Carry(p) == Transformed(p, op.from, op.to)
         IN [u \in DOMAIN b |->
               IF u = op.uuid THEN [b[u] EXCEPT !.pose = op.to]
               ELSE IF u \in PadsOf(b, op.uuid)
                 THEN [b[u] EXCEPT !.pose = [pos |-> Carry(@.pos),
                                             rot |-> Wrapped(@.rot + op.to.rot - op.from.rot)]]
               ELSE IF u \in op.members THEN OnPoints(b[u], Carry)
               ELSE b[u]]

\* A group move carries only zones of one simple outline.
Simple(b, ops) ==
    \A i \in DOMAIN ops : ops[i].op = "footprint_move" =>
        \A u \in ops[i].members : b[u].kind = "zone" => b[u].simple

-----------------------------------------------------------------------------
(* NativeProject opens the candidate board and reads its items.             *)
Init ==
    /\ board \in Boards /\ before = board /\ expected = board
    /\ batch = <<>> /\ done = 0 /\ phase = "composing"

(* The author of the transaction document adds an operation.                *)
Compose(op) ==
    /\ phase = "composing" /\ Len(batch) < MaxOps
    /\ batch' = Append(batch, op)
    /\ UNCHANGED <<board, before, expected, done, phase>>

(* The whole batch is checked against the board as it was opened.           *)
Submit ==
    /\ phase = "composing"
    /\ phase' = IF Accepted(before, batch) /\ Simple(before, batch) THEN "applying" ELSE "refused"
    /\ UNCHANGED <<board, before, expected, batch, done>>

(* A turn of the loop of _expected_readback and one of that of _apply.  The  *)
(* first loop is over before the second begins, but neither reads what the  *)
(* other writes.                                                            *)
ApplyNext ==
    /\ phase = "applying" /\ done < Len(batch)
    /\ LET op == batch[done + 1] IN board' = Apply(board, op) /\ expected' = Expect(expected, op)
    /\ done' = done + 1
    /\ UNCHANGED <<before, batch, phase>>

(* The board is saved only if the setters did what the document declares.   *)
Compare ==
    /\ phase = "applying" /\ done = Len(batch)
    /\ phase' = IF board = expected THEN "applied" ELSE "differs"
    /\ UNCHANGED <<board, before, expected, batch, done>>

Next == (\E op \in Requests : Compose(op)) \/ Submit \/ ApplyNext \/ Compare

Spec == Init /\ [][Next]_vars

-----------------------------------------------------------------------------
TypeOK ==
    /\ before \in Boards /\ IsBoard(board) /\ IsBoard(expected)
    /\ batch \in Seq(Requests) /\ Len(batch) <= MaxOps
    /\ done \in 0 .. Len(batch)
    /\ phase \in Phases

(* The expectation, which knows only the document, and KiCad's setters      *)
(* never disagree on an accepted batch: no good transaction is turned down  *)
(* because a turn, a move or their order was reckoned differently.          *)
ReadbackAgrees == phase # "differs"

(* The operations of an accepted batch may stand in any order, although all  *)
(* of them are preflighted against the board before the first: any two that *)
(* are still to come could change places.  A batch may be composed in any   *)
(* order, so every exchange of neighbours is covered.                       *)
OrderIrrelevant ==
    phase = "applying" =>
        \A i, j \in done + 1 .. Len(batch) :
            Apply(Apply(board, batch[i]), batch[j]) = Apply(Apply(board, batch[j]), batch[i])

(* Nothing but the items an operation names, and the pads of a moved        *)
(* footprint, is other than it was.                                         *)
Names(op) ==
    CASE op.op = "netclass_update"   -> {Class}
      [] op.op = "outline_rectangle" -> ToSet(op.uuids)
      [] op.op = "footprint_move"    -> {op.uuid} \cup op.members \cup PadsOf(before, op.uuid)
      [] OTHER                       -> {op.uuid}
OnlyDeclaredChanges ==
    \A u \in DOMAIN board : board[u] # before[u] =>
        \E i \in 1 .. done : u \in Names(batch[i])

(* A board outline that is one closed rectangle, or is not there yet, stays  *)
(* so, unless a batch draws two first ones: each is checked against the     *)
(* board as it was opened, which has none.                                  *)
Closed(b) ==
    Edges(b) = {} \/
        /\ Cardinality(Edges(b)) = 4
        /\ \A u \in Edges(b) : \E w \in Edges(b) \ {u} : b[w].start = b[u].end
Firsts == {i \in DOMAIN batch : batch[i].op = "outline_rectangle" /\ batch[i].from = {}}
OutlineClosed == Closed(before) /\ (\A i, j \in Firsts : i = j) => Closed(board)

(* The board stays a board: typed, with a closed outline, and touched only   *)
(* where the batch says.                                                    *)
BoardKept == TypeOK /\ OnlyDeclaredChanges /\ OutlineClosed
=============================================================================
