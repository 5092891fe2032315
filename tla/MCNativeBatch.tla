--------------------------- MODULE MCNativeBatch ---------------------------
(* A footprint with two pads, a second footprint, a track, a via and a zone *)
(* that may move with either, the four edges of the board, a label and the  *)
(* default net class; the requests name right and wrong kinds, states of    *)
(* now and of earlier, and a new UUID.                                      *)
EXTENDS NativeBatch

At(x, y, r) == [pos |-> <<x, y>>, rot |-> r]
Part(pose) == [kind |-> "footprint", pose |-> pose,
               fields |-> [Value |-> "10k", MPN |-> "none"]]
Pad(fp, pose) == [kind |-> "pad", owner |-> fp, pose |-> pose, paste |-> "on"]
Track(a, b) == [kind |-> "track", net |-> "GND", start |-> a, end |-> b]
Via(p, drill) == [kind |-> "via", net |-> "GND", pos |-> p, dia |-> 2, drill |-> drill]
Zone(outline, simple) == [kind |-> "zone", net |-> "GND", rule |-> FALSE,
                          simple |-> simple, outline |-> outline]
Label(layer) == [kind |-> "text", layer |-> layer]
Sizes(dia, drill) == [kind |-> "class", dia |-> dia, drill |-> drill]

EdgeIds == <<"e1", "e2", "e3", "e4">>
NewIds  == <<"n1", "n2", "n3", "n4">>
MoreIds == <<"m1", "m2", "m3", "m4">>
Box     == <<0, 0, 9, 9>>
Corners == <<<<1, 1>>, <<2, 1>>, <<2, 2>>>>
Known   == {"u1", "u2", "p1", "p2", "t1", "v1", "z1", "x1"}
             \cup ToSet(EdgeIds) \cup ToSet(NewIds) \cup ToSet(MoreIds)

(* With its four edges, or without.                                         *)
Open(outlined) == [u \in Known \cup {"Default"} |->
    CASE u = "u1" -> Part(At(1, 1, 0)) [] u = "u2" -> Part(At(4, 4, 1))
      [] u = "p1" -> Pad("u1", At(2, 1, 0)) [] u = "p2" -> Pad("u1", At(1, 3, 1))
      [] u = "t1" -> Track(<<2, 1>>, <<4, 1>>) [] u = "v1" -> Via(<<4, 1>>, 1)
      [] u = "z1" -> Zone(Corners, TRUE) [] u = "x1" -> Label("F.SilkS")
      [] u = "Default" -> Sizes(2, 1)
      [] outlined /\ u \in ToSet(EdgeIds) ->
            Edge(Box, CHOOSE i \in 1 .. 4 : EdgeIds[i] = u)
      [] OTHER -> Missing]

MCBoards == {Open(TRUE), Open(FALSE)}
Item(u) == Open(TRUE)[u]

MoveOps == {[op |-> "footprint_move", uuid |-> u, from |-> f, to |-> g, members |-> m] :
            u \in {"u1", "u2", "t1"}, f \in {At(1, 1, 0), At(4, 4, 1)},
            g \in {At(3, 1, 1), At(1, 1, 3), At(1, 1, 4)}, m \in SUBSET {"t1", "v1", "z1"}}
AddOps == {[op |-> "add", uuid |-> u, to |-> i] : u \in {"n1", "v1"},
           i \in {Track(<<0, 0>>, <<1, 0>>), Track(<<1, 1>>, <<1, 1>>), Via(<<5, 5>>, 2),
                  Via(<<5, 5>>, 1), Zone(<<<<0, 0>>, <<1, 1>>, <<2, 2>>>>, TRUE)}}
DeleteOps == {[op |-> "delete", uuid |-> u, from |-> i] : u \in {"t1", "v1"},
              i \in {Item("t1"), Item("v1"), Via(<<4, 2>>, 1)}}
UpdateOps == {[op |-> "update", uuid |-> "z1", from |-> Item("z1"), to |-> Zone(o, s)] :
              o \in {Corners, <<<<0, 0>>, <<0, 5>>, <<5, 0>>>>}, s \in BOOLEAN}
   \cup {[op |-> "update", uuid |-> "x1", from |-> Item("x1"), to |-> Label(l)] :
              l \in {"B.SilkS", "F.Cu"}}
FieldOps == {[op |-> "field", uuid |-> "u1", name |-> n, from |-> f, to |-> "22k"] :
              n \in {"Value", "MPN", "Reference"}, f \in {"10k", "none"}}
PasteOps == {[op |-> "pad_paste", uuid |-> p, from |-> "on", to |-> "off"] : p \in {"p1", "t1"}}
OutlineOps == {[op |-> "outline_rectangle", uuids |-> u, from |-> f, bounds |-> b] :
              u \in {EdgeIds, NewIds, MoreIds}, f \in {{}, ToSet(EdgeIds)},
              b \in {<<0, 0, 5, 5>>, <<3, 3, 3, 4>>}}
ClassOps == {[op |-> "netclass_update", from |-> Sizes(2, 1), to |-> Sizes(d, h)] :
              d \in {1, 3, -1}, h \in {1, 2}}

MCRequests == MoveOps \cup AddOps \cup DeleteOps \cup UpdateOps \cup FieldOps \cup PasteOps
                 \cup OutlineOps \cup ClassOps
=============================================================================
