--------------------------- MODULE HandoffDesign ---------------------------
(***************************************************************************)
(* What the tscircuit to KiCad handoff means by a design, a snapshot, an   *)
(* ECO plan, parity and preservation: the pure part of                     *)
(* pcb/tools/tscircuit_handoff.py.  Manifests, augmentations and snapshots *)
(* are records and sets; a digest is its value, a list the code sorts      *)
(* before comparing is a set.                                              *)
(***************************************************************************)
EXTENDS Integers, FiniteSets, Sequences

CONSTANTS
    Bare,       \* a board's net name without its leading slashes
    NcName,     \* the net KiCad invents for an unconnected pin <<ref, pad>>
    Tolerance   \* the distance two positions may differ by and still agree

-----------------------------------------------------------------------------
(* Manifests and augmentations.  A design is [parts, nets, board, meta]:   *)
(* parts are [id, ref, value, symbol, fields, place, pads, foot], nets are *)
(* [id, name, ends], the board is [outline, holes, spec].                  *)

ById(items, i) == CHOOSE item \in items : item.id = i

Ids(items) == {item.id : item \in items}

Unique(items, Key(_)) == \A a, b \in items : Key(a) = Key(b) => a = b

Pins(d) == UNION {{c.id} \X c.pads : c \in d.parts}

Connected(d) == UNION {n.ends : n \in d.nets}

\* A manifest the tool accepts: no identity, reference or net name twice, no
\* endpoint on an unknown pin, and none in two nets.
ValidDesign(d) ==
    /\ Unique(d.parts, LAMBDA c : c.id) /\ Unique(d.parts, LAMBDA c : c.ref)
    /\ Unique(d.nets, LAMBDA n : n.id) /\ Unique(d.nets, LAMBDA n : n.name)
    /\ Connected(d) \subseteq Pins(d)
    /\ \A n, m \in d.nets : n # m => n.ends \cap m.ends = {}
    /\ \A i, j \in DOMAIN d.board.holes :
          LET h == d.board.holes[i]  k == d.board.holes[j] IN
          <<h.ref, h.at>> = <<k.ref, k.at>> => i = j

OfKind(a, kind) == {op \in a : op.kind = kind}

\* An augmentation names parts and nets of its manifest, declares each
\* operation once, and binds what a routing operation may delete or add.
ValidAugmentation(a, d) ==
    /\ Unique(a, LAMBDA op : op.id)
    /\ \A op \in a :
          /\ op.net \in Ids(d.nets) \cup {""}
          /\ op.kind \in {"net_alias", "via", "zone"} => op.net # ""
          /\ op.kind = "routing_clear" => op.net = "" /\ op.p.uuids # {}
          /\ op.kind = "routing_add" =>
                /\ op.net = "" /\ op.p.tracks # {}
                /\ Unique(op.p.tracks, LAMBDA t : t.uuid)
                /\ \A t \in op.p.tracks : t.net \in {n.name : n \in d.nets}

-----------------------------------------------------------------------------
(* The change list between two manifests.  Every change carries the item   *)
(* whose new value it reports, or the item that is gone.                   *)

Change(kind, items) == {[kind |-> kind, target |-> i.id, item |-> i] : i \in items}

\* The items of new that old also has, with a different F.
Altered(old, new, F(_)) ==
    {i \in new : i.id \in Ids(old) /\ F(ById(old, i.id)) # F(i)}

Gained(old, new) == {i \in new : i.id \notin Ids(old)}

\* a slip: the two nets' names are compared, and their endpoints are not.
ClassifyNames(old, new) ==
    UNION { Change("component_add", Gained(old.parts, new.parts)),
            Change("component_remove", Gained(new.parts, old.parts)),
            Change("placement", Altered(old.parts, new.parts, LAMBDA c : c.place)),
            Change("value", Altered(old.parts, new.parts, LAMBDA c : c.value)),
            Change("net_rename", Altered(old.nets, new.nets, LAMBDA n : n.name)) }

ClassifyChanges(old, new) ==
    UNION { Change("component_add", Gained(old.parts, new.parts)),
            Change("component_remove", Gained(new.parts, old.parts)),
            Change("reference", Altered(old.parts, new.parts, LAMBDA c : c.ref)),
            Change("value", Altered(old.parts, new.parts, LAMBDA c : c.value)),
            Change("symbol", Altered(old.parts, new.parts, LAMBDA c : c.symbol)),
            Change("fields", Altered(old.parts, new.parts, LAMBDA c : c.fields)),
            Change("placement", Altered(old.parts, new.parts, LAMBDA c : c.place)),
            Change("pad_set", Altered(old.parts, new.parts, LAMBDA c : c.pads)),
            Change("footprint", Altered(old.parts, new.parts, LAMBDA c : c.foot)),
            Change("net_add", Gained(old.nets, new.nets)),
            Change("net_remove", Gained(new.nets, old.nets)),
            Change("net_rename", Altered(old.nets, new.nets, LAMBDA n : n.name)),
            Change("net_endpoints", Altered(old.nets, new.nets, LAMBDA n : n.ends)),
            Change("board_spec", IF old.board = new.board THEN {} ELSE {new.board}),
            Change("metadata", IF old.meta = new.meta THEN {} ELSE {new.meta}) }

-----------------------------------------------------------------------------
(* Coordinates: the source is X-right Y-up, KiCad is X-right Y-down.       *)

\* The coordinate transform; an augmentation without exactly one is refused.
Transformed(a) == Cardinality(OfKind(a, "coordinate_transform")) = 1

ToKicad(at, a) ==
    LET t == (CHOOSE op \in OfKind(a, "coordinate_transform") : TRUE).p IN
    <<t.kicad[1] + at[1] - t.source[1], t.kicad[2] - (at[2] - t.source[2])>>

Close(x, y) == x - y \in -Tolerance .. Tolerance

Near(p, q) == Close(p[1], q[1]) /\ Close(p[2], q[2])

-----------------------------------------------------------------------------
(* Snapshots.  A native board is [fps, outline, holes, tracks, vias,       *)
(* zones, graphics, rules]; a footprint is [uuid, ref, value, foot, place, *)
(* lands], a land one physical pad [num, k, net], several to a number.     *)

KicadOwned == {"tracks", "vias", "zones", "graphics", "rules"}

PadSet(fp) == {l.num : l \in fp.lands}

\* The pins, as <<reference, pad>>, that one net name reaches on a board.
Members(fps, net) ==
    UNION {{<<f.ref, l.num>> : l \in {k \in f.lands : k.net = net}} : f \in fps}

RefPins(d, pins) == {<<ById(d.parts, e[1]).ref, e[2]>> : e \in pins}

\* a slip: the name alone decides.
BookkeepingByName(fps, d, pin, net) == \E q \in DOMAIN NcName : net = NcName[q]

\* KiCad's own net for one unconnected pin counts as no net.  A net of the
\* source, a shared net, another pin's name and a pin the source connects
\* are never hidden.
Bookkeeping(fps, d, pin, net) ==
    /\ net = NcName[pin]
    /\ net \notin {n.name : n \in d.nets}
    /\ pin \in RefPins(d, Pins(d)) \ RefPins(d, Connected(d))
    /\ Members(fps, net) = {pin}

CanonicalNets(fps, d) ==
    {[f EXCEPT !.lands = {IF Bookkeeping(fps, d, <<f.ref, l.num>>, l.net)
                          THEN [l EXCEPT !.net = ""] ELSE l : l \in f.lands}] : f \in fps}

\* The board a snapshot may be taken of: every reference of the manifest
\* once and no other, with its pads, footprint and value.
Extractable(b, d) ==
    /\ Unique(b.fps, LAMBDA f : f.ref)
    /\ {f.ref : f \in b.fps} = {c.ref : c \in d.parts}
    /\ \A f \in b.fps, c \in d.parts :
          f.ref = c.ref => PadSet(f) = c.pads /\ f.foot = c.foot /\ f.value = c.value

\* a slip: the flag is believed.
RoutedFlagBelieved(b, flag) ==
    IF flag = "none" THEN {b.tracks \cup b.vias # {}} ELSE {flag = "routed"}

\* --unrouted is refused on a board with copper; without a flag the copper
\* decides.
RoutedState(b, flag) ==
    LET copper == b.tracks \cup b.vias # {} IN
    CASE flag = "none" -> {copper}
      [] flag = "routed" -> {TRUE}
      [] flag = "unrouted" -> IF copper THEN {} ELSE {FALSE}

SnapshotOf(b, sch, d, routed) ==
    [routed |-> routed,
     source_owned |-> [fps |-> CanonicalNets(b.fps, d),
                       outline |-> b.outline, holes |-> b.holes],
     kicad_owned |-> [k \in KicadOwned |-> b[k]],
     schematic_owned |-> sch]

-----------------------------------------------------------------------------
(* Parity of a snapshot with a manifest.                                   *)

Aliases(a) == OfKind(a, "net_alias")

\* The name the board must show for a net, and the name its schematic keeps.
KicadName(n, a) ==
    IF \E op \in Aliases(a) : op.net = n.id
    THEN (CHOOSE op \in Aliases(a) : op.net = n.id).p.kicad ELSE n.name

SourceName(n, a) ==
    IF \E op \in Aliases(a) : op.net = n.id
    THEN (CHOOSE op \in Aliases(a) : op.net = n.id).p.source ELSE n.name

\* A board's name for a net, without its sheet path and its alias.
NormalizedName(net, a) ==
    LET bare == IF net = "" THEN "" ELSE Bare[net] IN
    IF \E op \in Aliases(a) : op.p.source = bare
    THEN (CHOOSE op \in Aliases(a) : op.p.source = bare).p.kicad ELSE bare

\* The name the source gives a pin's net, with none for an unconnected pin.
ExpectedName(d, pin, Name(_)) ==
    IF pin \in Connected(d)
    THEN Name(CHOOSE n \in d.nets : pin \in n.ends) ELSE ""

LandsAgree(f, c, d, a) ==
    /\ PadSet(f) = c.pads
    /\ \A l \in f.lands :
          NormalizedName(l.net, a) =
             ExpectedName(d, <<c.id, l.num>>, LAMBDA n : KicadName(n, a))

PlacementAgrees(f, c, a) ==
    /\ Near(ToKicad(c.place.at, a), f.place.at)
    /\ f.place.rot % 360 = c.place.rot % 360
    /\ f.place.side = c.place.side

\* The outline is the rectangle around every point of Edge.Cuts.
OutlineAgrees(points, d, a) ==
    LET box == d.board.outline
        mid == ToKicad(box.mid, a)
        xs == {p[1] : p \in points}
        ys == {p[2] : p \in points}
        Lowest(s) == CHOOSE x \in s : \A y \in s : x <= y
        Highest(s) == CHOOSE x \in s : \A y \in s : x >= y IN
    /\ points # {}
    /\ Near(<<mid[1] - box.half[1], mid[2] - box.half[2]>>, <<Lowest(xs), Lowest(ys)>>)
    /\ Near(<<mid[1] + box.half[1], mid[2] + box.half[2]>>, <<Highest(xs), Highest(ys)>>)

\* Each hole of the source, in order, takes the one hole left that matches
\* it, and none is left over.
HolesAgree(holes, d, a) ==
    LET wanted == d.board.holes
        Matches(h, left) == {k \in left : /\ k.ref = h.ref
                                          /\ Near(ToKicad(h.at, a), k.at)
                                          /\ Close(h.drill, k.drill)}
        left[i \in 0 .. Len(wanted)] ==
           IF i = 0 THEN holes
           ELSE LET m == Matches(wanted[i], left[i - 1]) IN
                IF Cardinality(m) = 1 THEN left[i - 1] \ m ELSE left[i - 1] IN
    /\ \A i \in 1 .. Len(wanted) : Cardinality(Matches(wanted[i], left[i - 1])) = 1
    /\ left[Len(wanted)] = {}

Parity(s, d, a) ==
    LET fps == CanonicalNets(s.source_owned.fps, d) IN
    /\ Transformed(a)
    /\ {f.ref : f \in fps} = {c.ref : c \in d.parts}
    /\ \A c \in d.parts, f \in fps : f.ref = c.ref =>
          /\ f.value = c.value /\ f.foot = c.foot
          /\ LandsAgree(f, c, d, a)
          /\ PlacementAgrees(f, c, a)
    /\ OutlineAgrees(s.source_owned.outline, d, a)
    /\ HolesAgree(s.source_owned.holes, d, a)

\* A schematic is [symbols, nets]; a symbol is [ref, value, foot, symbol,
\* fields, pins], a net [name, ends] with its path stripped and KiCad's
\* unconnected nets left out.  Only the initial handoff may declare
\* differences in fields; pins and nets never differ.
SchematicParity(sch, d, a, strict) ==
    LET drawn == {c \in d.parts : c.pads # {}}
        declared == IF strict THEN {}
                    ELSE UNION {op.p.allowed : op \in OfKind(a, "schematic_cleanup")} IN
    /\ {x.ref : x \in sch.symbols} = {c.ref : c \in drawn}
    /\ \A c \in drawn, x \in sch.symbols : x.ref = c.ref =>
          /\ x.value = c.value \/ "value_format" \in declared
          /\ \/ x.foot = c.foot
             \/ ~strict /\ \E op \in OfKind(a, "footprint_override") :
                              op.part = c.id /\ op.p.kicad = c.foot
          /\ x.symbol = c.symbol \/ "symbol_id" \in declared
          /\ x.fields = c.fields \/ "datasheet" \in declared
          /\ x.pins = c.pads
    /\ sch.nets = {[name |-> SourceName(n, a), ends |-> RefPins(d, n.ends)] : n \in d.nets}

-----------------------------------------------------------------------------
(* The ECO plan and the preservation check.                                *)

RoutedBlocked == {"board_spec", "component_add", "component_remove", "footprint",
                  "net_add", "net_endpoints", "net_remove", "net_rename",
                  "pad_set", "reference", "symbol"}

ChangedOps(old, new) == (old \ new) \cup (new \ old)

Uuids(things) == {t.uuid : t \in things}

\* Every identity a snapshot records, with or without its tracks.
Identities(s, tracks) ==
    Uuids(s.source_owned.fps) \cup
    UNION {Uuids(s.kicad_owned[k]) : k \in {"vias", "zones", "graphics"}} \cup
    (IF tracks THEN Uuids(s.kicad_owned.tracks) ELSE {})

\* a slip: any operation the augmentation holds, changed or not, authorizes.
AuthorizedByAny(changes, ops) ==
    IF changes # {} \/ ops # {} THEN KicadOwned \ {"tracks"} ELSE {}

\* The KiCad-owned categories an ECO may change: graphics with its parts, and
\* what the operations it adds, alters or withdraws are about.  Tracks never.
Authorized(changes, ops) ==
    LET kinds == {c.kind : c \in changes}
        about == {op.kind : op \in ops} IN
    {k \in KicadOwned :
        \/ k = "graphics" /\ kinds \cap {"component_add", "component_remove",
                 "footprint", "placement", "reference", "value"} # {}
        \/ k = "graphics" /\ about \cap {"fabrication_note", "keepout",
                 "mask_override", "paste_override", "pofv", "silkscreen"} # {}
        \/ k = "zones" /\ about \cap {"zone", "keepout"} # {}
        \/ k = "vias" /\ "via" \in about
        \/ k = "rules" /\ about \cap {"custom_rule", "impedance", "net_class", "stackup"} # {}}

\* The routing operations an ECO newly declares.  They are bound to the
\* snapshot taken before it, name tracks it has or identities it lacks, and
\* never the same one twice.
RoutingOps(old, new) == {op \in new \ old : op.kind \in {"routing_clear", "routing_add"}}

RoutingBound(old, new, before) ==
    LET ops == RoutingOps(old, new) IN
    /\ \A op \in ops :
          /\ op.p.before = before
          /\ op.kind = "routing_clear" => op.p.uuids \subseteq Uuids(before.kicad_owned.tracks)
          /\ op.kind = "routing_add" => Uuids(op.p.tracks) \cap Identities(before, TRUE) = {}
    /\ \A op, other \in ops : op # other /\ op.kind = other.kind =>
          IF op.kind = "routing_clear" THEN op.p.uuids \cap other.p.uuids = {}
          ELSE Uuids(op.p.tracks) \cap Uuids(other.p.tracks) = {}

\* The board's source-owned state is not the accepted one.
Drifted(lock, before) ==
    LET Owned(s) == [s.source_owned EXCEPT !.fps = CanonicalNets(s.source_owned.fps, lock.design)] IN
    Owned(before) # Owned(lock.snapshot)

PlanBlocked(d, a, lock, before, allow) ==
    LET kinds == {c.kind : c \in ClassifyChanges(lock.design, d)} IN
    \/ Drifted(lock, before)
    \/ /\ before.routed
       /\ \/ "placement" \in kinds /\ "placement" \notin allow
          \/ kinds \cap RoutedBlocked # {} /\ "eco" \notin allow
          \/ lock.augmentation # a /\ "eco" \notin allow

\* The tracks after an ECO: those before it, less the cleared, and the added.
\* An added track may not take an identity of either snapshot.
TracksAsDeclared(ops, before, after) ==
    LET cleared == UNION {op.p.uuids : op \in {o \in ops : o.kind = "routing_clear"}}
        added == UNION {op.p.tracks : op \in {o \in ops : o.kind = "routing_add"}}
        kept == {t \in before.kicad_owned.tracks : t.uuid \notin cleared} IN
    /\ Uuids(added) \cap (Identities(before, TRUE) \cup Identities(after, FALSE)) = {}
    /\ after.kicad_owned.tracks = kept \cup added

\* The after snapshot is the target design, and no KiCad-owned category
\* differs from the before snapshot beyond what the plan authorizes.
Preserved(d, a, lock, before, after) ==
    LET changes == ClassifyChanges(lock.design, d)
        ops == ChangedOps(lock.augmentation, a)
        Symbol(s, c) == {x.symbol : x \in {y \in s.schematic_owned.symbols : y.ref = c.item.ref}} IN
    /\ Parity(after, d, a)
    /\ SchematicParity(after.schematic_owned, d, a, TRUE)
    /\ \A c \in changes : c.kind = "symbol" => Symbol(before, c) # Symbol(after, c)
    /\ TracksAsDeclared(RoutingOps(lock.augmentation, a), before, after)
    /\ \A k \in KicadOwned \ ({"tracks"} \cup Authorized(changes, ops)) :
          before.kicad_owned[k] = after.kicad_owned[k]
=============================================================================
