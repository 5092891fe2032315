------------------------------ MODULE FabChecks ------------------------------
(***************************************************************************)
(* What the fabrication generator demands of a board, a schematic and a    *)
(* source map before it lets their files out: the pure part of             *)
(* pcb/tools/jlc_fab.py and of the checkers it runs.                       *)
(*                                                                         *)
(* A layout is [findings, loose, parts, npth, stack, bounds]: the DRC      *)
(* findings and unconnected items KiCad reports, the footprints in file    *)
(* order, whether it has unplated holes, the stack-up's names and the      *)
(* drawing's bounds.  A part is [ref, side, at, pads], a pad [num, net,    *)
(* drill, tented].  A schematic is [erc, groups, nets]: KiCad's ERC        *)
(* findings, the BOM lines it groups parts by and the nets with their      *)
(* pins.  A reference is <<prefix, number>>, a net [sheet, label].         *)
(***************************************************************************)
EXTENDS Integers, FiniteSets, Sequences, SequencesExt

CONSTANTS
    TrackWidths,   \* the narrow tracks waived, by UUID: [net, actual]
    EscapeVias,    \* the vias waived, by UUID
    Quadrant,      \* the locator's page a position is on, or "off"
    Frozen         \* the frozen schedule of PCB-01 V2: [refs, nets]

-----------------------------------------------------------------------------
(* The boards (BOARDS).                                                    *)

Kinds == {"pcb-01", "pcb-01-v2", "pcb-02", "pcb-03"}

Numbered(prefix, numbers) == {prefix} \X numbers

Bare == [assembly |-> FALSE, prefixes |-> {}, noPart |-> {}, dnp |-> {}, hand |-> {}, priced |-> FALSE]

BOARDS == [k \in Kinds |->
    CASE k = "pcb-01" ->
           [assembly |-> TRUE, prefixes |-> {"TP"}, noPart |-> {<<"J", 7>>, <<"NT", 1>>, <<"JP", 1>>},
            dnp |-> Numbered("C", {6, 32, 36, 37, 38, 39, 40}) \cup {<<"F", 1>>, <<"J", 8>>},
            hand |-> Numbered("C", {1, 2, 34}) \cup Numbered("J", {1, 2}) \cup {<<"U", 8>>},
            priced |-> FALSE]
      [] k = "pcb-01-v2" ->
           [assembly |-> TRUE, prefixes |-> {"FID"},
            noPart |-> {<<"NT", 1>>} \cup Numbered("TP", 1 .. 31) \cup Numbered("H", 1 .. 4),
            dnp |-> Numbered("C", {44, 45}),
            hand |-> Numbered("C", {1, 2}) \cup Numbered("J", {1, 2, 3}) \cup {<<"U", 8>>},
            priced |-> TRUE]
      [] OTHER -> Bare]

\* Never in the machine-assembly files.
Excluded(k, ref) ==
    \/ ref \in BOARDS[k].noPart \cup BOARDS[k].dnp \cup BOARDS[k].hand
    \/ ref[1] \in BOARDS[k].prefixes

\* The files one plot writes: the two the stencil takes, the job file, and a
\* name for all the other layers of the board, which are written with them.
Plots == {"F.Paste", "Edge.Cuts", "job", "layers"}

-----------------------------------------------------------------------------
(* The release gate.                                                       *)

\* A waiver holds for one item, by UUID, net and measured value.
ApprovedException(v) ==
    /\ Cardinality(v.items) = 1
    /\ \A item \in v.items :
          \/ /\ v.type = "track_width" /\ item.uuid \in DOMAIN TrackWidths
             /\ <<item.net, v.actual>> = <<TrackWidths[item.uuid].net, TrackWidths[item.uuid].actual>>
          \/ /\ <<v.type, v.actual>> \in {<<"drill_out_of_range", "0.3000">>, <<"via_diameter", "0.6000">>}
             /\ item.uuid \in EscapeVias /\ item.net = "PGND"

Active(findings) == {v \in findings : ~ApprovedException(v)}

Expand(spans) ==
    FlattenSeq([i \in DOMAIN spans |->
        [n \in 1 .. spans[i].to - spans[i].from + 1 |-> <<spans[i].prefix, spans[i].from + n - 1>>]])

AllRefs(sch) == ToSet(FlattenSeq([i \in DOMAIN sch.groups |-> Expand(sch.groups[i].spans)]))

\* The netlist is the frozen one: its references, and under every name its
\* pins, sheets and unconnected nets aside.  The second pin of a capacitor
\* that the schedule leaves out is on AGND.
Captured(sch) ==
    LET assigned == UNION {n.ends : n \in Frozen.nets}
        grounded == {<<ref, "2">> : ref \in {r \in Frozen.refs : r[1] = "C"}} \ assigned
        Wanted(label) == UNION {n.ends : n \in {x \in Frozen.nets : x.label = label}} \cup
                         (IF label = "AGND" THEN grounded ELSE {})
        named == {n \in sch.nets : n.label # "unconnected"}
        Drawn(label) == UNION {n.ends : n \in {x \in named : x.label = label}}
        wanted == {n.label : n \in Frozen.nets} \cup (IF grounded = {} THEN {} ELSE {"AGND"}) IN
    /\ AllRefs(sch) = Frozen.refs
    /\ {n.label : n \in named} \subseteq wanted
    /\ \A label \in wanted : Wanted(label) = Drawn(label)

\* A dictionary built from a sequence: the last entry of a key is kept.
LastPart(l, ref) ==
    l.parts[CHOOSE i \in DOMAIN l.parts :
              l.parts[i].ref = ref /\ \A j \in DOMAIN l.parts : l.parts[j].ref = ref => j <= i]

Placed(l) == {l.parts[i].ref : i \in DOMAIN l.parts}

PadNets(part) ==
    [num \in {p.num : p \in ToSet(part.pads)} |->
        part.pads[CHOOSE i \in DOMAIN part.pads :
            /\ part.pads[i].num = num
            /\ \A j \in DOMAIN part.pads : part.pads[j].num = num => j <= i].net.label]

\* The probe map is true of the board (verify_board).
Probed(l, probes) ==
    /\ \A p \in probes.points :
          /\ p.ref \in Placed(l)
          /\ LastPart(l, p.ref).at = p.at
          /\ \E pad \in ToSet(LastPart(l, p.ref).pads) : pad.net.label = p.label
    /\ \A c \in probes.connectors :
          /\ c.ref \in Placed(l)
          /\ LET named == SelectSeq(LastPart(l, c.ref).pads, LAMBDA p : p.num # "" /\ p.net.label # "")
                 nets == PadNets([pads |-> named]) IN
             \A pin \in DOMAIN c.pins : pin \in DOMAIN nets /\ nets[pin] = c.pins[pin]

-----------------------------------------------------------------------------
(* The documents that go with PCB-01 V2.                                   *)

\* U1's pad 41 has its twelve filled and capped holes, of 0.30 mm, tented.
Filled(l) ==
    /\ <<"U", 1>> \in Placed(l)
    /\ LET holes == SelectSeq(LastPart(l, <<"U", 1>>).pads, LAMBDA p : p.num = "41" /\ p.drill > 0) IN
       /\ Len(holes) = 12
       /\ \A p \in ToSet(holes) : p.drill = 300 /\ p.tented

\* Every part is on the top side, and every reference on one page of the four.
Pages(l, ref) == {Quadrant[p.at] : p \in {q \in ToSet(l.parts) : q.ref = ref}} \ {"off"}

Located(l) ==
    /\ {p.side : p \in ToSet(l.parts)} = {"top"}
    /\ \A ref \in Placed(l) : Cardinality(Pages(l, ref)) = 1

Critical == <<"U", 13>> :> ("1" :> "USB_DP" @@ "2" :> "USB_DN" @@ "3" :> "AGND") @@
            <<"U", 14>> :> ("1" :> "USB_CC1" @@ "2" :> "USB_CC2" @@ "3" :> "AGND")

\* The two ESD arrays are wired pin for pin.
Oriented(l) ==
    \A ref \in DOMAIN Critical : ref \in Placed(l) /\ PadNets(LastPart(l, ref)) = Critical[ref]

StackNames == {"F.Cu", "F.Cu/In1.Cu", "In1.Cu", "In1.Cu/In2.Cu", "In2.Cu", "In2.Cu/B.Cu", "B.Cu"}

-----------------------------------------------------------------------------
(* The assembly files.                                                     *)

\* A source map that names a part twice is refused.
SourceMapped(map) ==
    \A i, j \in DOMAIN map : <<map[i].comment, map[i].foot>> = <<map[j].comment, map[j].foot>> => i = j

\* A line's number is the schematic's, or the map's.
Filling(group, map, field) ==
    LET rows == {i \in DOMAIN map : <<map[i].comment, map[i].foot>> = <<group.comment, group.foot>>} IN
    IF group[field] # "" \/ rows = {} THEN group[field] ELSE map[CHOOSE i \in rows : TRUE][field]

Row(group, map, Keep(_)) ==
    [comment |-> group.comment, foot |-> group.foot, refs |-> SelectSeq(Expand(group.spans), Keep),
     mpn |-> Filling(group, map, "mpn"), lcsc |-> Filling(group, map, "lcsc")]

Rows(sch, map, Keep(_)) ==
    SelectSeq([i \in DOMAIN sch.groups |-> Row(sch.groups[i], map, Keep)], LAMBDA row : row.refs # <<>>)

BomRows(k, sch, map) == Rows(sch, map, LAMBDA ref : ~Excluded(k, ref))

HandRows(k, sch, map) == Rows(sch, map, LAMBDA ref : ref \in BOARDS[k].hand)

CplRows(k, l) ==
    LET kept == SelectSeq(l.parts, LAMBDA p : ~Excluded(k, p.ref)) IN
    [i \in DOMAIN kept |-> [refs |-> <<kept[i].ref>>, at |-> kept[i].at, side |-> kept[i].side]]

RefsFromRows(rows) == FlattenSeq([i \in DOMAIN rows |-> rows[i].refs])

Listing(rows) == ToSet(RefsFromRows(rows))

Once(rows) == \A i, j \in DOMAIN RefsFromRows(rows) :
                 RefsFromRows(rows)[i] = RefsFromRows(rows)[j] => i = j

Expected(k, sch) == {ref \in AllRefs(sch) : ~Excluded(k, ref)}

\* A file lists the expected parts, each once, and no forbidden one.
AssertRefPartition(rows, expected, forbidden) ==
    /\ Once(rows)
    /\ Listing(rows) = expected
    /\ Listing(rows) \cap forbidden = {}

Priced(rows) == \A i \in DOMAIN rows : rows[i].lcsc # "" /\ rows[i].mpn # ""

\* Footprints the schematic does not know are refused, unless excluded.
Classified(k, l, expected, forbidden) ==
    Placed(l) \subseteq expected \cup forbidden \cup {ref \in Placed(l) : Excluded(k, ref)}
=============================================================================
