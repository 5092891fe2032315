----------------------------- MODULE HandoffEco -----------------------------
(***************************************************************************)
(* One board's life under the handoff tool: the initial adoption of a      *)
(* staged board, the author's edits of the source and of its augmentation, *)
(* the designer's edits in KiCad, and the ECOs that advance the comparison *)
(* lock.  Commands are atomic here; PcbWorkflow takes them apart.          *)
(***************************************************************************)
EXTENDS HandoffDesign

CONSTANTS
    Designs,            \* the manifests the author may write, valid or not
    Base, BaseOps,      \* the manifest and the operations first handed off
    Ops,                \* operations the author may add or withdraw
    Library,            \* a footprint's lands, as pairs of a number and a count
    Seeds,              \* outlines the exporter may leave a seed at
    Drawings,           \* the symbols' field texts a staged schematic may have
    Tracks, Copper,     \* tracks and other KiCad-owned items a designer may draw
    Moves, Strays,      \* distances a footprint is dragged, nets a land is put on
    Flags,              \* how the routed state of a snapshot is asked for
    MaxAuthored, MaxDrawn   \* how often the author and the designer edit

\* A manifest's parts and nets have the fields its schema names.
ASSUME EcoAssumption ==
    /\ MaxAuthored \in Nat /\ MaxDrawn \in Nat
    /\ Flags \subseteq {"none", "routed", "unrouted"}
    /\ Base \in Designs
    /\ \A d \in Designs :
          /\ \A c \in d.parts :
                c = [id |-> c.id, ref |-> c.ref, value |-> c.value, symbol |-> c.symbol,
                     fields |-> c.fields, place |-> c.place, pads |-> c.pads, foot |-> c.foot]
          /\ \A n \in d.nets : n = [id |-> n.id, name |-> n.name, ends |-> n.ends]

\* Every name a board may show for a net has one without its sheet path.
ASSUME NameAssumption ==
    /\ Strays \subseteq DOMAIN Bare
    /\ \A d \in Designs :
          /\ \A n \in d.nets : n.name \in DOMAIN Bare
          /\ \A c \in d.parts : \A l \in Library[c.foot] : NcName[<<c.ref, l[1]>>] \in DOMAIN Bare
    /\ \A op \in BaseOps \cup Ops : op.kind = "net_alias" => op.p.source \in DOMAIN Bare

VARIABLES
    source, augmentation,   \* the author's files
    board, sch,             \* the native project
    before,                 \* the snapshot an ECO starts from
    lock,                   \* the accepted handoff
    consent,                \* the flags of the last accepted ECO
    starts,                 \* KiCad-owned states seen while nothing source-owned
                            \* differed from the lock, and the one of the
                            \* snapshot the last ECO started from
    edits                   \* by the author and by the designer

vars == <<source, augmentation, board, sch, before, lock, consent, starts, edits>>

None == [none |-> TRUE]

-----------------------------------------------------------------------------
(* The native project a design calls for.                                  *)

\* A part's footprint: from the library, at the source's place, every land of
\* a number on the pin's net.
Footprint(c, d, a, uuid, Nc(_)) ==
    [uuid |-> uuid, ref |-> c.ref, value |-> c.value, foot |-> c.foot,
     place |-> [at |-> ToKicad(c.place.at, a), rot |-> c.place.rot, side |-> c.place.side],
     lands |-> {[num |-> l[1], k |-> l[2],
                 net |-> IF <<c.id, l[1]>> \in Connected(d)
                         THEN ExpectedName(d, <<c.id, l[1]>>, LAMBDA n : SourceName(n, a))
                         ELSE Nc(<<c.ref, l[1]>>)] : l \in Library[c.foot]}]

Drawn(c, fields) == [ref |-> c.ref, value |-> c.value, foot |-> c.foot,
                     symbol |-> c.symbol, fields |-> fields, pins |-> c.pads]

Wiring(d, a) == {[name |-> SourceName(n, a), ends |-> RefPins(d, n.ends)] : n \in d.nets}

\* The staged seed after augment_staged_board: its drawings moved so that the
\* outline's middle is KiCad's, its footprints replaced.
Middle(points) ==
    LET Mid(s) == ((CHOOSE x \in s : \A y \in s : x <= y) +
                   (CHOOSE x \in s : \A y \in s : x >= y)) \div 2 IN
    <<Mid({p[1] : p \in points}), Mid({p[2] : p \in points})>>

Augmented(seed, d, a) ==
    LET to == (CHOOSE op \in OfKind(a, "coordinate_transform") : TRUE).p.kicad
        at == Middle(seed) IN
    [fps |-> {Footprint(c, d, a, c.id, LAMBDA pin : "") : c \in d.parts},
     outline |-> {<<p[1] + to[1] - at[1], p[2] + to[2] - at[2]>> : p \in seed},
     holes |-> {[ref |-> d.board.holes[i].ref, at |-> ToKicad(d.board.holes[i].at, a),
                 drill |-> d.board.holes[i].drill] : i \in DOMAIN d.board.holes},
     tracks |-> {}, vias |-> {}, zones |-> {}, graphics |-> {}, rules |-> {}]

\* The staged board keeps the exporter's net names, which its schematic has.
StagedNames(s, d, a) ==
    \A f \in s.source_owned.fps, c \in d.parts : f.ref = c.ref =>
        \A l \in f.lands : (IF l.net = "" THEN "" ELSE Bare[l.net]) =
            ExpectedName(d, <<c.id, l.num>>, LAMBDA n : SourceName(n, a))

Lock(d, a, s) == [design |-> d, augmentation |-> a, snapshot |-> s]

Owned(b) == [k \in KicadOwned |-> b[k]]

Init ==
    /\ source = Base /\ augmentation = BaseOps
    /\ board = None /\ sch = None /\ before = None /\ lock = None
    /\ consent = {} /\ starts = {} /\ edits = [author |-> 0, designer |-> 0]

\* stage, then accept: the staged board and schematic are in parity with the
\* manifest, but for declared schematic fields, and become the project.
Adopt(seed, fields) ==
    LET b == Augmented(seed, source, augmentation)
        drawn == [symbols |-> {Drawn(c, fields) : c \in source.parts}, nets |-> Wiring(source, augmentation)]
        s == SnapshotOf(b, drawn, source, FALSE) IN
    /\ lock = None
    /\ ValidDesign(source) /\ ValidAugmentation(augmentation, source)
    /\ Transformed(augmentation) /\ FALSE \in RoutedState(b, "unrouted")
    /\ Extractable(b, source)
    /\ Parity(s, source, augmentation) /\ StagedNames(s, source, augmentation)
    /\ SchematicParity(drawn, source, augmentation, FALSE)
    /\ board' = b /\ sch' = drawn
    /\ lock' = Lock(source, augmentation, s)
    /\ starts' = {Owned(b)}
    /\ UNCHANGED <<source, augmentation, before, consent, edits>>

-----------------------------------------------------------------------------
(* The author's edits.                                                     *)

Author(d, a) ==
    /\ edits.author < MaxAuthored /\ edits' = [edits EXCEPT !.author = @ + 1]
    /\ <<d, a>> # <<source, augmentation>>
    /\ source' = d /\ augmentation' = a
    /\ UNCHANGED <<board, sch, before, lock, consent, starts>>

EditSource(d) == Author(d, augmentation)

Declare(op) ==
    Author(source, IF op \in augmentation THEN augmentation \ {op} ELSE augmentation \cup {op})

\* A routing operation is bound to the before snapshot the author has.
DeclareRouting(id, kind, param) ==
    /\ before # None
    /\ Author(source, {op \in augmentation : op.id # id} \cup
                      {[id |-> id, kind |-> kind, net |-> "", part |-> "", p |-> param]})

DeclareClear(uuids) ==
    DeclareRouting("clear", "routing_clear", [before |-> before, uuids |-> uuids])

DeclareAdd(tracks) ==
    DeclareRouting("add", "routing_add", [before |-> before, tracks |-> tracks])

-----------------------------------------------------------------------------
(* The designer's edits in KiCad.                                          *)

SourceAsAccepted(b) == lock # None /\ ~Drifted(lock, SnapshotOf(b, sch, lock.design, FALSE))

Draw(b, s) ==
    /\ lock # None
    /\ edits.designer < MaxDrawn /\ edits' = [edits EXCEPT !.designer = @ + 1]
    /\ <<b, s>> # <<board, sch>>
    /\ board' = b /\ sch' = s
    /\ starts' = IF SourceAsAccepted(b) THEN starts \cup {Owned(b)} ELSE starts
    /\ UNCHANGED <<source, augmentation, before, lock, consent>>

\* The project is brought to a design: parts keep their identities, copper
\* stays as it is, and KiCad names the unconnected pins.
UpdateFromSource ==
    LET Kept(c) == {f \in board.fps : f.ref = c.ref}
        Uuid(c) == IF Kept(c) = {} THEN c.id ELSE (CHOOSE f \in Kept(c) : TRUE).uuid IN
    /\ ValidDesign(source) /\ Transformed(augmentation)
    /\ Draw([board EXCEPT
               !.fps = {Footprint(c, source, augmentation, Uuid(c), LAMBDA pin : NcName[pin])
                        : c \in source.parts}],
            [symbols |-> {Drawn(c, c.fields) : c \in source.parts},
             nets |-> Wiring(source, augmentation)])

WithFootprint(f, g) == [board EXCEPT !.fps = (@ \ {f}) \cup {g}]

Drag(f, by) ==
    Draw(WithFootprint(f, [f EXCEPT !.place.at = <<@[1] + by, @[2]>>]), sch)

Rewire(f, l, net) ==
    Draw(WithFootprint(f, [f EXCEPT !.lands = (@ \ {l}) \cup {[l EXCEPT !.net = net]}]), sch)

Recreate(f) == Draw(WithFootprint(f, [f EXCEPT !.uuid = "fresh"]), sch)

Toggle(kind, item) ==
    Draw([board EXCEPT ![kind] = IF item \in @ THEN @ \ {item} ELSE @ \cup {item}], sch)

-----------------------------------------------------------------------------
(* The tool's commands.                                                    *)

TakeBefore(d, a, flag) ==
    /\ lock # None
    /\ ValidDesign(d) /\ ValidAugmentation(a, d) /\ Extractable(board, d)
    /\ \E routed \in RoutedState(board, flag) :
          LET s == SnapshotOf(board, sch, d, routed) IN
          Parity(s, d, a) /\ before' = s
    /\ UNCHANGED <<source, augmentation, board, sch, lock, consent, starts, edits>>

AcceptEco(flag) ==
    /\ lock # None /\ before # None
    /\ ValidDesign(source) /\ ValidAugmentation(augmentation, source)
    /\ Extractable(board, source)
    /\ RoutingBound(lock.augmentation, augmentation, before)
    /\ \E routed \in RoutedState(board, flag) :
          LET after == SnapshotOf(board, sch, source, routed) IN
          /\ Preserved(source, augmentation, lock, before, after)
          /\ lock' = Lock(source, augmentation, after)
    /\ \E allow \in SUBSET {"eco", "placement"} :
          /\ ~PlanBlocked(source, augmentation, lock, before, allow)
          /\ consent' = allow
    /\ starts' = {Owned(board), before.kicad_owned}
    /\ UNCHANGED <<source, augmentation, board, sch, before, edits>>

Next ==
    \/ \E seed \in Seeds, fields \in Drawings : Adopt(seed, fields)
    \/ \E d \in Designs : EditSource(d)
    \/ \E op \in Ops : Declare(op)
    \/ \E t \in Tracks : DeclareClear({t.uuid}) \/ DeclareAdd({t})
    \/ UpdateFromSource
    \/ \E f \in IF board = None THEN {} ELSE board.fps :
          \/ \E by \in Moves : Drag(f, by)
          \/ \E l \in f.lands, net \in Strays : Rewire(f, l, net)
          \/ Recreate(f)
    \/ \E t \in Tracks : Toggle("tracks", t)
    \/ \E k \in KicadOwned \ {"tracks"}, item \in Copper : Toggle(k, item)
    \/ \E da \in {<<source, augmentation>>} \cup
                 (IF lock = None THEN {} ELSE {<<lock.design, lock.augmentation>>}),
          flag \in Flags : TakeBefore(da[1], da[2], flag)
    \/ \E flag \in Flags : AcceptEco(flag)

Spec == Init /\ [][Next]_vars

-----------------------------------------------------------------------------
(* Properties.                                                             *)

\* Types: the lock, once there, holds a design that puts no pin on two nets
\* and an augmentation about its nets.
TypeOK ==
    /\ source \in Designs
    /\ edits \in [author : 0 .. MaxAuthored, designer : 0 .. MaxDrawn]
    /\ consent \subseteq {"eco", "placement"}
    /\ (lock = None) = (board = None)
    /\ lock # None =>
          /\ \A n, m \in lock.design.nets : n.ends \cap m.ends # {} => n = m
          /\ {op.net : op \in lock.augmentation} \subseteq Ids(lock.design.nets) \cup {""}

\* A change list replayed on the accepted manifest gives the source.
Items(changes, kind) == {c.item : c \in {x \in changes : x.kind = kind}}

Said(changes, kind, i) == {c.item : c \in {x \in changes : x.kind = kind /\ x.target = i}}

Told(changes, kind, i, was, F(_)) ==
    IF Said(changes, kind, i) = {} THEN was ELSE F(CHOOSE x \in Said(changes, kind, i) : TRUE)

Replay(old, changes) ==
    LET Field(kind, i, was, F(_)) == Told(changes, kind, i, was, F)
        Part(c) == [id |-> c.id, ref |-> Field("reference", c.id, c.ref, LAMBDA x : x.ref),
                    value |-> Field("value", c.id, c.value, LAMBDA x : x.value),
                    symbol |-> Field("symbol", c.id, c.symbol, LAMBDA x : x.symbol),
                    fields |-> Field("fields", c.id, c.fields, LAMBDA x : x.fields),
                    place |-> Field("placement", c.id, c.place, LAMBDA x : x.place),
                    pads |-> Field("pad_set", c.id, c.pads, LAMBDA x : x.pads),
                    foot |-> Field("footprint", c.id, c.foot, LAMBDA x : x.foot)]
        Net(n) == [id |-> n.id, name |-> Field("net_rename", n.id, n.name, LAMBDA x : x.name),
                   ends |-> Field("net_endpoints", n.id, n.ends, LAMBDA x : x.ends)] IN
    <<{Part(c) : c \in old.parts \ Items(changes, "component_remove")} \cup Items(changes, "component_add"),
      {Net(n) : n \in old.nets \ Items(changes, "net_remove")} \cup Items(changes, "net_add")>>

\* The plan a reviewer reads leaves nothing out: replaying its changes on the
\* accepted design yields every part and net of the new one.
ChangesComplete ==
    lock # None /\ ValidDesign(source) =>
        Replay(lock.design, ClassifyChanges(lock.design, source)) = <<source.parts, source.nets>>

\* What is accepted is well-formed, and every change to it will be named.
EcoConsistent == TypeOK /\ ChangesComplete

\* The pins the source leaves unconnected.
Loose(d) == RefPins(d, Pins(d)) \ RefPins(d, Connected(d))

\* The names a design, its aliases and KiCad give nets tell the nets apart:
\* no board name is empty once normalized, no alias gives two nets one name,
\* and KiCad's name for an unconnected pin is neither the name of a net nor
\* that of another such pin.  The tool asks that a name is not empty, and
\* leaves the rest to the author.
NamesApart(d, a) ==
    /\ \A op \in Aliases(a) : op.p.source # ""
    /\ \A net \in DOMAIN Bare \ {""} : NormalizedName(net, a) # ""
    /\ \A n, m \in d.nets : KicadName(n, a) # "" /\ (KicadName(n, a) = KicadName(m, a) => n = m)
    /\ \A p \in Loose(d) : \A n \in d.nets :
          NcName[p] # n.name /\ NormalizedName(NcName[p], a) # KicadName(n, a)
    /\ \A p, q \in Loose(d) : NormalizedName(NcName[p], a) = NormalizedName(NcName[q], a) => p = q

\* So they do for every design and augmentation of the author's.
AllApart ==
    \A d \in Designs : \A a \in SUBSET (BaseOps \cup Ops) :
        ValidDesign(d) /\ ValidAugmentation(a, d) => NamesApart(d, a)

\* Two lands of the board that was accepted are on one net exactly when the
\* design joins their pins, whatever names, aliases and unconnected-pin nets
\* the board uses for it.
Wired(b, d, a, Name(_)) ==
    LET all == UNION {{[pin |-> <<f.ref, l.num>>, land |-> <<f.uuid, l.num, l.k>>, net |-> l.net]
                       : l \in f.lands} : f \in b.fps}
        Joined(x, y) == x.net # "" /\ y.net # "" /\ Name(x.net) = Name(y.net)
        Wanted(x, y) == \E n \in d.nets : {x.pin, y.pin} \subseteq RefPins(d, n.ends) IN
    \A x, y \in all : x.pin # y.pin => (Joined(x, y) <=> Wanted(x, y))

AcceptedIsWired ==
    [][lock' # lock =>
         Wired(board', lock'.design, lock'.augmentation,
               LAMBDA net : NormalizedName(net, lock'.augmentation))]_vars

\* What KiCad owns differs from a board whose source-owned state was the
\* accepted one, or from the snapshot an earlier ECO started from, by no more
\* than the ECO declares: tracks it names, and the categories its operations
\* and changes are about.
KicadOwnedKept ==
    [][lock # None /\ lock' # lock =>
         LET ops == ChangedOps(lock.augmentation, lock'.augmentation)
             after == lock'.snapshot.kicad_owned
             about == {op.kind : op \in ops} IN
         \E s \in starts :
            /\ \A t \in s.tracks \ after.tracks : \E op \in ops \ lock.augmentation :
                  op.kind = "routing_clear" /\ t.uuid \in op.p.uuids
            /\ \A t \in after.tracks \ s.tracks : \E op \in ops \ lock.augmentation :
                  op.kind = "routing_add" /\ t \in op.p.tracks
            /\ s.zones # after.zones => about \cap {"zone", "keepout"} # {}
            /\ s.vias # after.vias => "via" \in about
            /\ s.rules # after.rules =>
                  about \cap {"custom_rule", "impedance", "net_class", "stackup"} # {}
            /\ s.graphics # after.graphics =>
                  \/ lock.design.parts # lock'.design.parts
                  \/ about \cap {"fabrication_note", "keepout", "mask_override", "paste_override",
                                 "pofv", "silkscreen"} # {}]_vars

\* A board that carries copper other than what the ECO itself adds never
\* takes a move or a change of its logic without the flag for it.
RoutedNeedsConsent ==
    [][lock # None /\ lock' # lock =>
         LET added == UNION {op.p.tracks : op \in
                        {o \in lock'.augmentation \ lock.augmentation : o.kind = "routing_add"}}
             old == lock.design  new == lock'.design
             Logic(d) == <<{<<c.id, c.ref, c.symbol, c.pads, c.foot>> : c \in d.parts}, d.nets>>
             Placed(d) == {<<c.id, c.place>> : c \in d.parts} IN
         (lock'.snapshot.kicad_owned.tracks \ added) # {} =>
            /\ Logic(old) # Logic(new) => "eco" \in consent'
            /\ (Ids(old.parts) = Ids(new.parts) /\ Placed(old) # Placed(new)) =>
                  "placement" \in consent']_vars
=============================================================================
