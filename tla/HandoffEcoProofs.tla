--------------------------- MODULE HandoffEcoProofs ---------------------------
(***************************************************************************)
(* Theorems about HandoffEco, for any designs, operations, footprints,     *)
(* boards and drawings, and any number of edits and of ECOs.               *)
(***************************************************************************)
EXTENDS HandoffEco, TLAPS

-----------------------------------------------------------------------------
(* The change list.                                                        *)

\* A list reports these items, and no others, under a kind.
Lists(ch, kind, items) == \A x : x \in Change(kind, items) <=> (x \in ch /\ x.kind = kind)

\* A change says its kind, and which item it is about.
LEMMA OneKind ==
    ASSUME NEW kind, NEW items, NEW x \in Change(kind, items)
    PROVE  x.kind = kind /\ x.target = x.item.id /\ x.item \in items
BY DEF Change

\* What a list says of one item is found under its kind.
LEMMA ListedItems ==
    ASSUME NEW ch, NEW kind, NEW items, Lists(ch, kind, items)
    PROVE  /\ Items(ch, kind) = items
           /\ \A i : Said(ch, kind, i) = {c \in items : c.id = i}
<1>a. ASSUME NEW i \in items
      PROVE  \E x \in ch : x.kind = kind /\ x.target = i.id /\ x.item = i
  <2>1. [kind |-> kind, target |-> i.id, item |-> i] \in Change(kind, items)
    BY DEF Change
  <2> QED
    BY <2>1 DEF Lists
<1>b. ASSUME NEW x \in ch, x.kind = kind
      PROVE  x.item \in items /\ x.target = x.item.id
  BY <1>b, OneKind DEF Lists
<1>2. Items(ch, kind) = items
  BY <1>a, <1>b DEF Items
<1>3. ASSUME NEW i
      PROVE  Said(ch, kind, i) = {c \in items : c.id = i}
  BY <1>a, <1>b DEF Said
<1> QED
  BY <1>2, <1>3

\* Each kind of change lists exactly its items.
LEMMA ChangesListed ==
    ASSUME NEW old, NEW new
    PROVE  LET ch == ClassifyChanges(old, new) IN
           /\ Lists(ch, "component_add", Gained(old.parts, new.parts))
           /\ Lists(ch, "component_remove", Gained(new.parts, old.parts))
           /\ Lists(ch, "reference", Altered(old.parts, new.parts, LAMBDA c : c.ref))
           /\ Lists(ch, "value", Altered(old.parts, new.parts, LAMBDA c : c.value))
           /\ Lists(ch, "symbol", Altered(old.parts, new.parts, LAMBDA c : c.symbol))
           /\ Lists(ch, "fields", Altered(old.parts, new.parts, LAMBDA c : c.fields))
           /\ Lists(ch, "placement", Altered(old.parts, new.parts, LAMBDA c : c.place))
           /\ Lists(ch, "pad_set", Altered(old.parts, new.parts, LAMBDA c : c.pads))
           /\ Lists(ch, "footprint", Altered(old.parts, new.parts, LAMBDA c : c.foot))
           /\ Lists(ch, "net_add", Gained(old.nets, new.nets))
           /\ Lists(ch, "net_remove", Gained(new.nets, old.nets))
           /\ Lists(ch, "net_rename", Altered(old.nets, new.nets, LAMBDA n : n.name))
           /\ Lists(ch, "net_endpoints", Altered(old.nets, new.nets, LAMBDA n : n.ends))
<1>1. Lists(ClassifyChanges(old, new), "component_add",
           Gained(old.parts, new.parts))
  BY OneKind, SMTT(30) DEF Lists, ClassifyChanges
<1>2. Lists(ClassifyChanges(old, new), "component_remove",
           Gained(new.parts, old.parts))
  BY OneKind, SMTT(30) DEF Lists, ClassifyChanges
<1>3. Lists(ClassifyChanges(old, new), "reference",
           Altered(old.parts, new.parts, LAMBDA c : c.ref))
  BY OneKind, SMTT(30) DEF Lists, ClassifyChanges
<1>4. Lists(ClassifyChanges(old, new), "value",
           Altered(old.parts, new.parts, LAMBDA c : c.value))
  BY OneKind, SMTT(30) DEF Lists, ClassifyChanges
<1>5. Lists(ClassifyChanges(old, new), "symbol",
           Altered(old.parts, new.parts, LAMBDA c : c.symbol))
  BY OneKind, SMTT(30) DEF Lists, ClassifyChanges
<1>6. Lists(ClassifyChanges(old, new), "fields",
           Altered(old.parts, new.parts, LAMBDA c : c.fields))
  BY OneKind, SMTT(30) DEF Lists, ClassifyChanges
<1>7. Lists(ClassifyChanges(old, new), "placement",
           Altered(old.parts, new.parts, LAMBDA c : c.place))
  BY OneKind, SMTT(30) DEF Lists, ClassifyChanges
<1>8. Lists(ClassifyChanges(old, new), "pad_set",
           Altered(old.parts, new.parts, LAMBDA c : c.pads))
  BY OneKind, SMTT(30) DEF Lists, ClassifyChanges
<1>9. Lists(ClassifyChanges(old, new), "footprint",
           Altered(old.parts, new.parts, LAMBDA c : c.foot))
  BY OneKind, SMTT(30) DEF Lists, ClassifyChanges
<1>10. Lists(ClassifyChanges(old, new), "net_add",
           Gained(old.nets, new.nets))
  BY OneKind, SMTT(30) DEF Lists, ClassifyChanges
<1>11. Lists(ClassifyChanges(old, new), "net_remove",
           Gained(new.nets, old.nets))
  BY OneKind, SMTT(30) DEF Lists, ClassifyChanges
<1>12. Lists(ClassifyChanges(old, new), "net_rename",
           Altered(old.nets, new.nets, LAMBDA n : n.name))
  BY OneKind, SMTT(30) DEF Lists, ClassifyChanges
<1>13. Lists(ClassifyChanges(old, new), "net_endpoints",
           Altered(old.nets, new.nets, LAMBDA n : n.ends))
  BY OneKind, SMTT(30) DEF Lists, ClassifyChanges
<1> QED
  BY <1>1, <1>2, <1>3, <1>4, <1>5, <1>6, <1>7, <1>8, <1>9, <1>10, <1>11, <1>12, <1>13

\* An item of both designs is told the value the new one gives each field.
LEMMA PartTold ==
    ASSUME NEW old, NEW new, NEW c \in old.parts, NEW e \in new.parts, c.id = e.id,
           Unique(old.parts, LAMBDA x : x.id), Unique(new.parts, LAMBDA x : x.id)
    PROVE  LET ch == ClassifyChanges(old, new) IN
           /\ Told(ch, "reference", c.id, c.ref, LAMBDA x : x.ref) = e.ref
           /\ Told(ch, "value", c.id, c.value, LAMBDA x : x.value) = e.value
           /\ Told(ch, "symbol", c.id, c.symbol, LAMBDA x : x.symbol) = e.symbol
           /\ Told(ch, "fields", c.id, c.fields, LAMBDA x : x.fields) = e.fields
           /\ Told(ch, "placement", c.id, c.place, LAMBDA x : x.place) = e.place
           /\ Told(ch, "pad_set", c.id, c.pads, LAMBDA x : x.pads) = e.pads
           /\ Told(ch, "footprint", c.id, c.foot, LAMBDA x : x.foot) = e.foot
<1> DEFINE ch == ClassifyChanges(old, new)
<1>a. ById(old.parts, c.id) = c /\ c.id \in Ids(old.parts)
  BY DEF ById, Ids, Unique
<1>b. \A x \in new.parts : x.id = c.id <=> x = e
  BY DEF Unique
<1>1. Told(ch, "reference", c.id, c.ref, LAMBDA x : x.ref) = e.ref
  <2> DEFINE items == Altered(old.parts, new.parts, LAMBDA x : x.ref)
  <2>0. Lists(ch, "reference", items)
    BY ChangesListed
  <2>1. Said(ch, "reference", c.id) = {x \in items : x.id = c.id}
    <3> HIDE DEF ch, items
    <3> QED
      BY <2>0, ListedItems
  <2>2. Said(ch, "reference", c.id) = IF c.ref # e.ref THEN {e} ELSE {}
    BY <2>1, <1>a, <1>b DEF Altered
  <2> HIDE DEF ch
  <2> QED
    BY <2>2 DEF Told
<1>2. Told(ch, "value", c.id, c.value, LAMBDA x : x.value) = e.value
  <2> DEFINE items == Altered(old.parts, new.parts, LAMBDA x : x.value)
  <2>0. Lists(ch, "value", items)
    BY ChangesListed
  <2>1. Said(ch, "value", c.id) = {x \in items : x.id = c.id}
    <3> HIDE DEF ch, items
    <3> QED
      BY <2>0, ListedItems
  <2>2. Said(ch, "value", c.id) = IF c.value # e.value THEN {e} ELSE {}
    BY <2>1, <1>a, <1>b DEF Altered
  <2> HIDE DEF ch
  <2> QED
    BY <2>2 DEF Told
<1>3. Told(ch, "symbol", c.id, c.symbol, LAMBDA x : x.symbol) = e.symbol
  <2> DEFINE items == Altered(old.parts, new.parts, LAMBDA x : x.symbol)
  <2>0. Lists(ch, "symbol", items)
    BY ChangesListed
  <2>1. Said(ch, "symbol", c.id) = {x \in items : x.id = c.id}
    <3> HIDE DEF ch, items
    <3> QED
      BY <2>0, ListedItems
  <2>2. Said(ch, "symbol", c.id) = IF c.symbol # e.symbol THEN {e} ELSE {}
    BY <2>1, <1>a, <1>b DEF Altered
  <2> HIDE DEF ch
  <2> QED
    BY <2>2 DEF Told
<1>4. Told(ch, "fields", c.id, c.fields, LAMBDA x : x.fields) = e.fields
  <2> DEFINE items == Altered(old.parts, new.parts, LAMBDA x : x.fields)
  <2>0. Lists(ch, "fields", items)
    BY ChangesListed
  <2>1. Said(ch, "fields", c.id) = {x \in items : x.id = c.id}
    <3> HIDE DEF ch, items
    <3> QED
      BY <2>0, ListedItems
  <2>2. Said(ch, "fields", c.id) = IF c.fields # e.fields THEN {e} ELSE {}
    BY <2>1, <1>a, <1>b DEF Altered
  <2> HIDE DEF ch
  <2> QED
    BY <2>2 DEF Told
<1>5. Told(ch, "placement", c.id, c.place, LAMBDA x : x.place) = e.place
  <2> DEFINE items == Altered(old.parts, new.parts, LAMBDA x : x.place)
  <2>0. Lists(ch, "placement", items)
    BY ChangesListed
  <2>1. Said(ch, "placement", c.id) = {x \in items : x.id = c.id}
    <3> HIDE DEF ch, items
    <3> QED
      BY <2>0, ListedItems
  <2>2. Said(ch, "placement", c.id) = IF c.place # e.place THEN {e} ELSE {}
    BY <2>1, <1>a, <1>b DEF Altered
  <2> HIDE DEF ch
  <2> QED
    BY <2>2 DEF Told
<1>6. Told(ch, "pad_set", c.id, c.pads, LAMBDA x : x.pads) = e.pads
  <2> DEFINE items == Altered(old.parts, new.parts, LAMBDA x : x.pads)
  <2>0. Lists(ch, "pad_set", items)
    BY ChangesListed
  <2>1. Said(ch, "pad_set", c.id) = {x \in items : x.id = c.id}
    <3> HIDE DEF ch, items
    <3> QED
      BY <2>0, ListedItems
  <2>2. Said(ch, "pad_set", c.id) = IF c.pads # e.pads THEN {e} ELSE {}
    BY <2>1, <1>a, <1>b DEF Altered
  <2> HIDE DEF ch
  <2> QED
    BY <2>2 DEF Told
<1>7. Told(ch, "footprint", c.id, c.foot, LAMBDA x : x.foot) = e.foot
  <2> DEFINE items == Altered(old.parts, new.parts, LAMBDA x : x.foot)
  <2>0. Lists(ch, "footprint", items)
    BY ChangesListed
  <2>1. Said(ch, "footprint", c.id) = {x \in items : x.id = c.id}
    <3> HIDE DEF ch, items
    <3> QED
      BY <2>0, ListedItems
  <2>2. Said(ch, "footprint", c.id) = IF c.foot # e.foot THEN {e} ELSE {}
    BY <2>1, <1>a, <1>b DEF Altered
  <2> HIDE DEF ch
  <2> QED
    BY <2>2 DEF Told
<1> QED
  BY <1>1, <1>2, <1>3, <1>4, <1>5, <1>6, <1>7

\* An item of both designs is told the value the new one gives each field.
LEMMA NetTold ==
    ASSUME NEW old, NEW new, NEW c \in old.nets, NEW e \in new.nets, c.id = e.id,
           Unique(old.nets, LAMBDA x : x.id), Unique(new.nets, LAMBDA x : x.id)
    PROVE  LET ch == ClassifyChanges(old, new) IN
           /\ Told(ch, "net_rename", c.id, c.name, LAMBDA x : x.name) = e.name
           /\ Told(ch, "net_endpoints", c.id, c.ends, LAMBDA x : x.ends) = e.ends
<1> DEFINE ch == ClassifyChanges(old, new)
<1>a. ById(old.nets, c.id) = c /\ c.id \in Ids(old.nets)
  BY DEF ById, Ids, Unique
<1>b. \A x \in new.nets : x.id = c.id <=> x = e
  BY DEF Unique
<1>1. Told(ch, "net_rename", c.id, c.name, LAMBDA x : x.name) = e.name
  <2> DEFINE items == Altered(old.nets, new.nets, LAMBDA x : x.name)
  <2>0. Lists(ch, "net_rename", items)
    BY ChangesListed
  <2>1. Said(ch, "net_rename", c.id) = {x \in items : x.id = c.id}
    <3> HIDE DEF ch, items
    <3> QED
      BY <2>0, ListedItems
  <2>2. Said(ch, "net_rename", c.id) = IF c.name # e.name THEN {e} ELSE {}
    BY <2>1, <1>a, <1>b DEF Altered
  <2> HIDE DEF ch
  <2> QED
    BY <2>2 DEF Told
<1>2. Told(ch, "net_endpoints", c.id, c.ends, LAMBDA x : x.ends) = e.ends
  <2> DEFINE items == Altered(old.nets, new.nets, LAMBDA x : x.ends)
  <2>0. Lists(ch, "net_endpoints", items)
    BY ChangesListed
  <2>1. Said(ch, "net_endpoints", c.id) = {x \in items : x.id = c.id}
    <3> HIDE DEF ch, items
    <3> QED
      BY <2>0, ListedItems
  <2>2. Said(ch, "net_endpoints", c.id) = IF c.ends # e.ends THEN {e} ELSE {}
    BY <2>1, <1>a, <1>b DEF Altered
  <2> HIDE DEF ch
  <2> QED
    BY <2>2 DEF Told
<1> QED
  BY <1>1, <1>2

\* Replayed on a valid design, the changes to another one yield its parts and
\* its nets.
LEMMA ReplayYieldsNew ==
    ASSUME NEW old \in Designs, NEW new \in Designs, ValidDesign(old), ValidDesign(new)
    PROVE  Replay(old, ClassifyChanges(old, new)) = <<new.parts, new.nets>>
<1> DEFINE ch == ClassifyChanges(old, new)
           Part(c) == [id |-> c.id, ref |-> Told(ch, "reference", c.id, c.ref, LAMBDA x : x.ref),
                       value |-> Told(ch, "value", c.id, c.value, LAMBDA x : x.value),
                       symbol |-> Told(ch, "symbol", c.id, c.symbol, LAMBDA x : x.symbol),
                       fields |-> Told(ch, "fields", c.id, c.fields, LAMBDA x : x.fields),
                       place |-> Told(ch, "placement", c.id, c.place, LAMBDA x : x.place),
                       pads |-> Told(ch, "pad_set", c.id, c.pads, LAMBDA x : x.pads),
                       foot |-> Told(ch, "footprint", c.id, c.foot, LAMBDA x : x.foot)]
           Net(n) == [id |-> n.id, name |-> Told(ch, "net_rename", n.id, n.name, LAMBDA x : x.name),
                      ends |-> Told(ch, "net_endpoints", n.id, n.ends, LAMBDA x : x.ends)]
<1>u. /\ Unique(old.parts, LAMBDA x : x.id) /\ Unique(new.parts, LAMBDA x : x.id)
      /\ Unique(old.nets, LAMBDA x : x.id) /\ Unique(new.nets, LAMBDA x : x.id)
  BY DEF ValidDesign
<1>1. ASSUME NEW c \in old.parts, NEW e \in new.parts, c.id = e.id
      PROVE  Part(c) = e
  <2>1. e = [id |-> e.id, ref |-> e.ref, value |-> e.value, symbol |-> e.symbol,
             fields |-> e.fields, place |-> e.place, pads |-> e.pads, foot |-> e.foot]
    BY EcoAssumption DEF EcoAssumption
  <2>2. /\ Told(ch, "reference", c.id, c.ref, LAMBDA x : x.ref) = e.ref
        /\ Told(ch, "value", c.id, c.value, LAMBDA x : x.value) = e.value
        /\ Told(ch, "symbol", c.id, c.symbol, LAMBDA x : x.symbol) = e.symbol
        /\ Told(ch, "fields", c.id, c.fields, LAMBDA x : x.fields) = e.fields
        /\ Told(ch, "placement", c.id, c.place, LAMBDA x : x.place) = e.place
        /\ Told(ch, "pad_set", c.id, c.pads, LAMBDA x : x.pads) = e.pads
        /\ Told(ch, "footprint", c.id, c.foot, LAMBDA x : x.foot) = e.foot
    BY <1>1, <1>u, PartTold
  <2> QED
    BY <1>1, <2>1, <2>2
<1>2. ASSUME NEW n \in old.nets, NEW e \in new.nets, n.id = e.id
      PROVE  Net(n) = e
  <2>1. e = [id |-> e.id, name |-> e.name, ends |-> e.ends]
    BY EcoAssumption DEF EcoAssumption
  <2>2. /\ Told(ch, "net_rename", n.id, n.name, LAMBDA x : x.name) = e.name
        /\ Told(ch, "net_endpoints", n.id, n.ends, LAMBDA x : x.ends) = e.ends
    BY <1>2, <1>u, NetTold
  <2> QED
    BY <1>2, <2>1, <2>2
<1>3. /\ Items(ch, "component_add") = Gained(old.parts, new.parts)
      /\ Items(ch, "component_remove") = Gained(new.parts, old.parts)
      /\ Items(ch, "net_add") = Gained(old.nets, new.nets)
      /\ Items(ch, "net_remove") = Gained(new.nets, old.nets)
  <2>1. /\ Lists(ch, "component_add", Gained(old.parts, new.parts))
        /\ Lists(ch, "component_remove", Gained(new.parts, old.parts))
        /\ Lists(ch, "net_add", Gained(old.nets, new.nets))
        /\ Lists(ch, "net_remove", Gained(new.nets, old.nets))
    BY ChangesListed
  <2> HIDE DEF ch
  <2> QED
    BY <2>1, ListedItems
<1> DEFINE parts == {Part(c) : c \in old.parts \ Items(ch, "component_remove")} \cup Items(ch, "component_add")
           nets == {Net(n) : n \in old.nets \ Items(ch, "net_remove")} \cup Items(ch, "net_add")
<1>4. Replay(old, ch) = <<parts, nets>>
  BY DEF Replay
<1> HIDE DEF ch, Part, Net
<1>5. parts = new.parts
  BY <1>1, <1>3 DEF Gained, Ids
<1>6. nets = new.nets
  BY <1>2, <1>3 DEF Gained, Ids
<1> HIDE DEF parts, nets
<1> QED
  BY <1>4, <1>5, <1>6 DEF ch

-----------------------------------------------------------------------------
(* What the project, the lock and the snapshots are made of.               *)

\* A pad of a footprint, on a net that a board may name or on none.
IsLand(l) ==
    /\ l = [num |-> l.num, k |-> l.k, net |-> l.net]
    /\ l.net \in DOMAIN Bare \cup {""}

\* A footprint, with its lands.
IsFootprint(f) ==
    /\ f = [uuid |-> f.uuid, ref |-> f.ref, value |-> f.value, foot |-> f.foot,
            place |-> f.place, lands |-> f.lands]
    /\ \A l \in f.lands : IsLand(l)

\* A board: its footprints and what KiCad owns of it.
IsBoard(b) ==
    /\ b = [fps |-> b.fps, outline |-> b.outline, holes |-> b.holes, tracks |-> b.tracks,
            vias |-> b.vias, zones |-> b.zones, graphics |-> b.graphics, rules |-> b.rules]
    /\ \A f \in b.fps : IsFootprint(f)

\* A design, and an augmentation whose aliases the author could have written.
IsSource(d, a) == d \in Designs /\ Aliases(a) \subseteq BaseOps \cup Ops

\* A lock records a valid design whose snapshot was in parity with it.
IsAccepted(l) ==
    /\ IsSource(l.design, l.augmentation)
    /\ ValidDesign(l.design) /\ ValidAugmentation(l.augmentation, l.design)
    /\ Parity(l.snapshot, l.design, l.augmentation)

\* A snapshot was taken of some board.
IsTaken(s) ==
    \E b, drawn, d, routed : IsBoard(b) /\ d \in Designs /\ s = SnapshotOf(b, drawn, d, routed)
                             /\ (b.tracks # {} => routed = TRUE)

\* The inductive invariant: the source is one the author could have written,
\* the lock an accepted handoff, and both snapshots were taken of boards.
Made ==
    /\ IsSource(source, augmentation)
    /\ board = None => lock = None /\ before = None
    /\ board # None => IsBoard(board) /\ lock # None
    /\ lock # None => IsAccepted(lock) /\ IsTaken(lock.snapshot)
    /\ before # None => IsTaken(before)

\* The steps, by what they write.
Adopts == \E seed \in Seeds, fields \in Drawings : Adopt(seed, fields)

\* The author writes a source.
Authors == \E d, a : Author(d, a) /\ IsSource(d, a)

\* KiCad saves a board and a schematic.
Draws == \E b, s : Draw(b, s) /\ IsBoard(b)

\* A snapshot is taken, for the source or for the accepted design.
Takes ==
    \E d, a : \E flag \in Flags : /\ TakeBefore(d, a, flag)
                                  /\ \/ <<d, a>> = <<source, augmentation>>
                                     \/ lock # None /\ <<d, a>> = <<lock.design, lock.augmentation>>

\* accept-eco is run.
Accepts == \E flag \in Flags : AcceptEco(flag)

\* The names a board gives its nets have one without their sheet path.
LEMMA Names ==
    ASSUME NEW d, NEW a, IsSource(d, a), NEW n \in d.nets
    PROVE  SourceName(n, a) \in DOMAIN Bare
<1>1. n.name \in DOMAIN Bare
  BY NameAssumption DEF NameAssumption, IsSource
<1>2. ASSUME \E op \in Aliases(a) : op.net = n.id
      PROVE  (CHOOSE op \in Aliases(a) : op.net = n.id).p.source \in DOMAIN Bare
  <2>1. PICK op \in Aliases(a) : op = CHOOSE o \in Aliases(a) : o.net = n.id
    BY <1>2
  <2>2. op \in BaseOps \cup Ops /\ op.kind = "net_alias"
    BY <2>1 DEF IsSource, Aliases, OfKind
  <2> QED
    BY <2>1, <2>2, NameAssumption DEF NameAssumption
<1> QED
  BY <1>1, <1>2 DEF SourceName

\* The footprint a design calls for is one, whichever of the two names its
\* unconnected pins have.
LEMMA FootprintMade ==
    ASSUME NEW d, NEW a, IsSource(d, a), NEW c \in d.parts, NEW uuid
    PROVE  /\ IsFootprint(Footprint(c, d, a, uuid, LAMBDA pin : ""))
           /\ IsFootprint(Footprint(c, d, a, uuid, LAMBDA pin : NcName[pin]))
<1>1. ASSUME NEW l \in Library[c.foot], <<c.id, l[1]>> \in Connected(d)
      PROVE  ExpectedName(d, <<c.id, l[1]>>, LAMBDA n : SourceName(n, a)) \in DOMAIN Bare
  <2>1. PICK n \in d.nets : n = CHOOSE m \in d.nets : <<c.id, l[1]>> \in m.ends
    BY <1>1 DEF Connected
  <2> QED
    BY <1>1, <2>1, Names DEF ExpectedName
<1>2. ASSUME NEW l \in Library[c.foot]
      PROVE  NcName[<<c.ref, l[1]>>] \in DOMAIN Bare
  BY NameAssumption DEF NameAssumption, IsSource
<1>3. IsFootprint(Footprint(c, d, a, uuid, LAMBDA pin : ""))
  <2> DEFINE f == Footprint(c, d, a, uuid, LAMBDA pin : "")
  <2>1. f = [uuid |-> f.uuid, ref |-> f.ref, value |-> f.value, foot |-> f.foot,
             place |-> f.place, lands |-> f.lands]
    BY DEF Footprint
  <2>2. ASSUME NEW l \in f.lands
        PROVE  l = [num |-> l.num, k |-> l.k, net |-> l.net] /\ l.net \in DOMAIN Bare \cup {""}
    <3>1. PICK k \in Library[c.foot] :
             l = [num |-> k[1], k |-> k[2],
                  net |-> IF <<c.id, k[1]>> \in Connected(d)
                          THEN ExpectedName(d, <<c.id, k[1]>>, LAMBDA n : SourceName(n, a))
                          ELSE ""]
      BY DEF Footprint
    <3> QED
      BY <3>1, <1>1, <1>2
  <2>3. IsFootprint(f)
    <3> HIDE DEF f
    <3> QED
      BY <2>1, <2>2 DEF IsFootprint, IsLand
  <2> QED
    BY <2>3
<1>4. IsFootprint(Footprint(c, d, a, uuid, LAMBDA pin : NcName[pin]))
  <2> DEFINE f == Footprint(c, d, a, uuid, LAMBDA pin : NcName[pin])
  <2>1. f = [uuid |-> f.uuid, ref |-> f.ref, value |-> f.value, foot |-> f.foot,
             place |-> f.place, lands |-> f.lands]
    BY DEF Footprint
  <2>2. ASSUME NEW l \in f.lands
        PROVE  l = [num |-> l.num, k |-> l.k, net |-> l.net] /\ l.net \in DOMAIN Bare \cup {""}
    <3>1. PICK k \in Library[c.foot] :
             l = [num |-> k[1], k |-> k[2],
                  net |-> IF <<c.id, k[1]>> \in Connected(d)
                          THEN ExpectedName(d, <<c.id, k[1]>>, LAMBDA n : SourceName(n, a))
                          ELSE NcName[<<c.ref, k[1]>>]]
      BY DEF Footprint
    <3> QED
      BY <3>1, <1>1, <1>2
  <2>3. IsFootprint(f)
    <3> HIDE DEF f
    <3> QED
      BY <2>1, <2>2 DEF IsFootprint, IsLand
  <2> QED
    BY <2>3
<1> QED
  BY <1>3, <1>4

\* A lock is not the absence of one, nor is a board.
LEMMA Present ==
    /\ \A d, a, s : Lock(d, a, s) # None
    /\ \A b : IsBoard(b) => b # None
    /\ \A s : IsTaken(s) => s # None
<1>1. DOMAIN None = {"none"}
  BY DEF None
<1>2. ASSUME NEW d, NEW a, NEW s PROVE Lock(d, a, s) # None
  <2>1. "design" \in DOMAIN Lock(d, a, s)
    BY DEF Lock
  <2> QED
    BY <1>1, <2>1
<1>3. ASSUME NEW b, IsBoard(b) PROVE b # None
  <2>1. "fps" \in DOMAIN b
    BY <1>3 DEF IsBoard
  <2> QED
    BY <1>1, <2>1
<1>4. ASSUME NEW s, IsTaken(s) PROVE s # None
  <2>1. "routed" \in DOMAIN s
    BY <1>4 DEF IsTaken, SnapshotOf
  <2> QED
    BY <1>1, <2>1
<1> QED
  BY <1>2, <1>3, <1>4

\* A footprint with one field replaced is one, and so is a board.
LEMMA Replaced ==
    ASSUME NEW f, IsFootprint(f), NEW w
    PROVE  /\ IsFootprint([f EXCEPT !.uuid = w])
           /\ IsFootprint([f EXCEPT !.place = w])
           /\ (\A l \in w : IsLand(l)) => IsFootprint([f EXCEPT !.lands = w])
<1>0. f = [uuid |-> f.uuid, ref |-> f.ref, value |-> f.value, foot |-> f.foot,
           place |-> f.place, lands |-> f.lands]
  BY DEF IsFootprint
<1>1. [f EXCEPT !.uuid = w] = [uuid |-> w, ref |-> f.ref, value |-> f.value, foot |-> f.foot,
                               place |-> f.place, lands |-> f.lands]
  BY <1>0
<1>2. [f EXCEPT !.place = w] = [uuid |-> f.uuid, ref |-> f.ref, value |-> f.value,
                                foot |-> f.foot, place |-> w, lands |-> f.lands]
  BY <1>0
<1>3. [f EXCEPT !.lands = w] = [uuid |-> f.uuid, ref |-> f.ref, value |-> f.value,
                                foot |-> f.foot, place |-> f.place, lands |-> w]
  BY <1>0
<1> QED
  BY <1>1, <1>2, <1>3 DEF IsFootprint

\* A board with what KiCad owns of it, or its footprints, replaced is one.
LEMMA BoardReplaced ==
    ASSUME NEW b, IsBoard(b), NEW w
    PROVE  /\ \A k \in KicadOwned : IsBoard([b EXCEPT ![k] = w])
           /\ (\A f \in w : IsFootprint(f)) => IsBoard([b EXCEPT !.fps = w])
<1>0. /\ b = [fps |-> b.fps, outline |-> b.outline, holes |-> b.holes, tracks |-> b.tracks,
              vias |-> b.vias, zones |-> b.zones, graphics |-> b.graphics, rules |-> b.rules]
      /\ \A f \in b.fps : IsFootprint(f)
  BY DEF IsBoard
<1>1. [b EXCEPT !.fps = w] =
        [fps |-> w, outline |-> b.outline, holes |-> b.holes, tracks |-> b.tracks,
         vias |-> b.vias, zones |-> b.zones, graphics |-> b.graphics, rules |-> b.rules]
  BY <1>0
<1>2. [b EXCEPT !.tracks = w] =
        [fps |-> b.fps, outline |-> b.outline, holes |-> b.holes, tracks |-> w,
         vias |-> b.vias, zones |-> b.zones, graphics |-> b.graphics, rules |-> b.rules]
  BY <1>0
<1>3. [b EXCEPT !.vias = w] =
        [fps |-> b.fps, outline |-> b.outline, holes |-> b.holes, tracks |-> b.tracks,
         vias |-> w, zones |-> b.zones, graphics |-> b.graphics, rules |-> b.rules]
  BY <1>0
<1>4. [b EXCEPT !.zones = w] =
        [fps |-> b.fps, outline |-> b.outline, holes |-> b.holes, tracks |-> b.tracks,
         vias |-> b.vias, zones |-> w, graphics |-> b.graphics, rules |-> b.rules]
  BY <1>0
<1>5. [b EXCEPT !.graphics = w] =
        [fps |-> b.fps, outline |-> b.outline, holes |-> b.holes, tracks |-> b.tracks,
         vias |-> b.vias, zones |-> b.zones, graphics |-> w, rules |-> b.rules]
  BY <1>0
<1>6. [b EXCEPT !.rules = w] =
        [fps |-> b.fps, outline |-> b.outline, holes |-> b.holes, tracks |-> b.tracks,
         vias |-> b.vias, zones |-> b.zones, graphics |-> b.graphics, rules |-> w]
  BY <1>0
<1>7. \A f \in b.fps : IsFootprint(f)
  BY <1>0
<1>a. IsBoard([b EXCEPT !.tracks = w])
  BY <1>2, <1>7 DEF IsBoard
<1>b. IsBoard([b EXCEPT !.vias = w])
  BY <1>3, <1>7 DEF IsBoard
<1>c. IsBoard([b EXCEPT !.zones = w])
  BY <1>4, <1>7 DEF IsBoard
<1>d. IsBoard([b EXCEPT !.graphics = w])
  BY <1>5, <1>7 DEF IsBoard
<1>e. IsBoard([b EXCEPT !.rules = w])
  BY <1>6, <1>7 DEF IsBoard
<1>f. (\A f \in w : IsFootprint(f)) => IsBoard([b EXCEPT !.fps = w])
  BY <1>1 DEF IsBoard
<1> QED
  BY <1>a, <1>b, <1>c, <1>d, <1>e, <1>f DEF KicadOwned

\* Every edit in KiCad leaves a board.
LEMMA EditsDraw ==
    ASSUME Made, lock # None
    PROVE  /\ UpdateFromSource => Draws
           /\ \A f \in board.fps :
                 /\ \A by : Drag(f, by) => Draws
                 /\ \A l \in f.lands : \A net \in DOMAIN Bare : Rewire(f, l, net) => Draws
                 /\ Recreate(f) => Draws
           /\ \A k \in KicadOwned : \A item : Toggle(k, item) => Draws
<1>0. IsBoard(board) /\ IsSource(source, augmentation)
  BY DEF Made
<1>1. ASSUME UpdateFromSource
      PROVE  Draws
  <2> DEFINE Kept(c) == {f \in board.fps : f.ref = c.ref}
             Uuid(c) == IF Kept(c) = {} THEN c.id ELSE (CHOOSE f \in Kept(c) : TRUE).uuid
             fps == {Footprint(c, source, augmentation, Uuid(c), LAMBDA pin : NcName[pin])
                        : c \in source.parts}
             b == [board EXCEPT !.fps = fps]
             s == [symbols |-> {Drawn(c, c.fields) : c \in source.parts},
                   nets |-> Wiring(source, augmentation)]
  <2>1. \A f \in fps : IsFootprint(f)
    <3>1. ASSUME NEW c \in source.parts, NEW uuid
          PROVE  IsFootprint(Footprint(c, source, augmentation, uuid, LAMBDA pin : NcName[pin]))
      BY <1>0, FootprintMade
    <3> HIDE DEF Uuid
    <3> QED
      BY <3>1
  <2>2. Draw(b, s)
    BY <1>1 DEF UpdateFromSource
  <2> HIDE DEF fps
  <2>3. IsBoard(b)
    BY <1>0, <2>1, BoardReplaced
  <2> QED
    BY <2>2, <2>3 DEF Draws
<1>2. ASSUME NEW f \in board.fps, NEW g, IsFootprint(g)
      PROVE  IsBoard(WithFootprint(f, g))
  <2>1. \A x \in (board.fps \ {f}) \cup {g} : IsFootprint(x)
    BY <1>0, <1>2 DEF IsBoard
  <2> QED
    BY <2>1, <1>0, BoardReplaced DEF WithFootprint
<1>3. ASSUME NEW f \in board.fps
      PROVE  /\ \A by : Drag(f, by) => Draws
             /\ \A l \in f.lands : \A net \in DOMAIN Bare : Rewire(f, l, net) => Draws
             /\ Recreate(f) => Draws
  <2>0. IsFootprint(f)
    BY <1>0 DEF IsBoard
  <2>1. ASSUME NEW by, Drag(f, by)
        PROVE  Draws
    <3>1. IsFootprint([f EXCEPT !.place.at = <<@[1] + by, @[2]>>])
      BY <2>0, Replaced
    <3> QED
      BY <2>1, <3>1, <1>2 DEF Drag, Draws
  <2>2. ASSUME NEW l \in f.lands, NEW net \in DOMAIN Bare, Rewire(f, l, net)
        PROVE  Draws
    <3>1. IsLand([l EXCEPT !.net = net])
      <4>1. l = [num |-> l.num, k |-> l.k, net |-> l.net]
        BY <2>0 DEF IsFootprint, IsLand
      <4>2. [l EXCEPT !.net = net] = [num |-> l.num, k |-> l.k, net |-> net]
        BY <4>1
      <4> QED
        BY <4>2 DEF IsLand
    <3>2. \A x \in (f.lands \ {l}) \cup {[l EXCEPT !.net = net]} : IsLand(x)
      BY <2>0, <3>1 DEF IsFootprint
    <3>3. IsFootprint([f EXCEPT !.lands = (@ \ {l}) \cup {[l EXCEPT !.net = net]}])
      BY <2>0, <3>2, Replaced
    <3> QED
      BY <2>2, <3>3, <1>2 DEF Rewire, Draws
  <2>3. ASSUME Recreate(f)
        PROVE  Draws
    <3>1. IsFootprint([f EXCEPT !.uuid = "fresh"])
      BY <2>0, Replaced
    <3> QED
      BY <2>3, <3>1, <1>2 DEF Recreate, Draws
  <2> QED
    BY <2>1, <2>2, <2>3
<1>4. ASSUME NEW k \in KicadOwned, NEW item, Toggle(k, item)
      PROVE  Draws
  <2>1. IsBoard([board EXCEPT ![k] = IF item \in @ THEN @ \ {item} ELSE @ \cup {item}])
    BY <1>0, BoardReplaced
  <2> QED
    BY <1>4, <2>1 DEF Toggle, Draws
<1> QED
  BY <1>1, <1>3, <1>4

\* Every step is of one of these sorts.
LEMMA Actions ==
    ASSUME Made, Next
    PROVE  Adopts \/ Authors \/ Draws \/ Takes \/ Accepts
<1>0. IsSource(source, augmentation)
  BY DEF Made
<1>d. ASSUME NEW b, NEW s, Draw(b, s)
      PROVE  lock # None
  BY <1>d DEF Draw
<1>1. CASE \E seed \in Seeds, fields \in Drawings : Adopt(seed, fields)
  BY <1>1 DEF Adopts
<1>2. CASE \E d \in Designs : EditSource(d)
  BY <1>0, <1>2 DEF EditSource, Authors, IsSource
<1>3. CASE \E op \in Ops : Declare(op)
  <2>1. PICK op \in Ops : Declare(op)
    BY <1>3
  <2>2. IsSource(source, IF op \in augmentation THEN augmentation \ {op} ELSE augmentation \cup {op})
    BY <1>0 DEF IsSource, Aliases, OfKind
  <2> QED
    BY <2>1, <2>2 DEF Declare, Authors
<1>4. CASE \E t \in Tracks : DeclareClear({t.uuid}) \/ DeclareAdd({t})
  <2>1. ASSUME NEW id, NEW kind \in {"routing_clear", "routing_add"}, NEW param,
               DeclareRouting(id, kind, param)
        PROVE  Authors
    <3>1. IsSource(source, {op \in augmentation : op.id # id} \cup
                      {[id |-> id, kind |-> kind, net |-> "", part |-> "", p |-> param]})
      <4>1. "routing_clear" # "net_alias" /\ "routing_add" # "net_alias"
        OBVIOUS
      <4>2. kind # "net_alias"
        BY <4>1
      <4>3. ASSUME NEW op \in Aliases({o \in augmentation : o.id # id} \cup
                      {[id |-> id, kind |-> kind, net |-> "", part |-> "", p |-> param]})
            PROVE  op \in Aliases(augmentation)
        <5>1. [id |-> id, kind |-> kind, net |-> "", part |-> "", p |-> param].kind # "net_alias"
          BY <4>2
        <5> QED
          BY <5>1 DEF Aliases, OfKind
      <4> QED
        BY <4>3, <1>0 DEF IsSource
    <3> QED
      BY <2>1, <3>1 DEF DeclareRouting, Authors
  <2> QED
    BY <1>4, <2>1 DEF DeclareClear, DeclareAdd
<1>5. CASE UpdateFromSource
  BY <1>5, <1>d, EditsDraw DEF UpdateFromSource
<1>6. CASE \E f \in IF board = None THEN {} ELSE board.fps :
              \/ \E by \in Moves : Drag(f, by)
              \/ \E l \in f.lands, net \in Strays : Rewire(f, l, net)
              \/ Recreate(f)
  <2>1. PICK f \in board.fps : \/ \E by \in Moves : Drag(f, by)
                               \/ \E l \in f.lands, net \in Strays : Rewire(f, l, net)
                               \/ Recreate(f)
    BY <1>6
  <2>2. lock # None
    BY <2>1, <1>d DEF Drag, Rewire, Recreate
  <2> QED
    BY <2>1, <2>2, EditsDraw, NameAssumption DEF NameAssumption
<1>7. CASE \/ \E t \in Tracks : Toggle("tracks", t)
           \/ \E k \in KicadOwned \ {"tracks"}, item \in Copper : Toggle(k, item)
  <2>1. PICK k \in KicadOwned : \E item : Toggle(k, item)
    BY <1>7 DEF KicadOwned
  <2>2. lock # None
    BY <2>1, <1>d DEF Toggle
  <2> QED
    BY <2>1, <2>2, EditsDraw
<1>8. CASE \E da \in {<<source, augmentation>>} \cup
                 (IF lock = None THEN {} ELSE {<<lock.design, lock.augmentation>>}),
              flag \in Flags : TakeBefore(da[1], da[2], flag)
  <2>1. PICK da \in {<<source, augmentation>>} \cup
                 (IF lock = None THEN {} ELSE {<<lock.design, lock.augmentation>>}),
              flag \in Flags : TakeBefore(da[1], da[2], flag)
    BY <1>8
  <2>2. CASE da = <<source, augmentation>>
    <3>1. da[1] = source /\ da[2] = augmentation
      BY <2>2
    <3> QED
      BY <2>1, <3>1 DEF Takes
  <2>3. CASE lock # None /\ da = <<lock.design, lock.augmentation>>
    <3>1. da[1] = lock.design /\ da[2] = lock.augmentation
      BY <2>3
    <3> QED
      BY <2>1, <2>3, <3>1 DEF Takes
  <2> QED
    BY <2>1, <2>2, <2>3
<1>9. CASE \E flag \in Flags : AcceptEco(flag)
  BY <1>9 DEF Accepts
<1> QED
  BY <1>1, <1>2, <1>3, <1>4, <1>5, <1>6, <1>7, <1>8, <1>9 DEF Next

\* A snapshot that may be recorded of a board was taken of it.
LEMMA RoutedIsTrue ==
    ASSUME NEW b, NEW flag \in Flags, NEW routed \in RoutedState(b, flag)
    PROVE  b.tracks # {} => routed = TRUE
BY EcoAssumption DEF EcoAssumption, RoutedState

\* The augmented seed is a board without tracks.
LEMMA AugmentedMade ==
    ASSUME NEW seed, IsSource(source, augmentation)
    PROVE  LET b == Augmented(seed, source, augmentation) IN IsBoard(b) /\ b.tracks = {}
<1> DEFINE b == Augmented(seed, source, augmentation)
           fps == {Footprint(c, source, augmentation, c.id, LAMBDA pin : "") : c \in source.parts}
<1>1. ASSUME NEW c \in source.parts
      PROVE  IsFootprint(Footprint(c, source, augmentation, c.id, LAMBDA pin : ""))
  BY FootprintMade
<1>2. \A f \in fps : IsFootprint(f)
  BY <1>1
<1>3. /\ b = [fps |-> b.fps, outline |-> b.outline, holes |-> b.holes, tracks |-> b.tracks,
              vias |-> b.vias, zones |-> b.zones, graphics |-> b.graphics, rules |-> b.rules]
      /\ b.fps = fps /\ b.tracks = {}
  BY DEF Augmented
<1>4. IsBoard(b) /\ b.tracks = {}
  <2> HIDE DEF b, fps
  <2> QED
    BY <1>2, <1>3 DEF IsBoard
<1> QED
  BY <1>4

\* Adoption records the seed board as the accepted handoff.
LEMMA AdoptMade ==
    ASSUME Made, NEW seed, NEW fields, Adopt(seed, fields)
    PROVE  Made' /\ board' # None /\ lock' # None
<1> DEFINE b == Augmented(seed, source, augmentation)
           drawn == [symbols |-> {Drawn(c, fields) : c \in source.parts},
                     nets |-> Wiring(source, augmentation)]
           s == SnapshotOf(b, drawn, source, FALSE)
<1>0. IsSource(source, augmentation)
  BY DEF Made
<1>1. IsBoard(b) /\ b.tracks = {}
  BY <1>0, AugmentedMade
<1>2. /\ ValidDesign(source) /\ ValidAugmentation(augmentation, source)
      /\ Parity(s, source, augmentation)
      /\ board' = b /\ lock' = Lock(source, augmentation, s)
      /\ UNCHANGED <<source, augmentation, before>> /\ lock = None
  BY DEF Adopt
<1>3. IsTaken(s)
  <2> HIDE DEF b, drawn
  <2> QED
    BY <1>0, <1>1 DEF IsTaken, IsSource
<1> HIDE DEF b, drawn, s
<1>4. IsAccepted(lock') /\ lock'.snapshot = s
  BY <1>0, <1>2 DEF IsAccepted, Lock
<1>5. board' # None /\ lock' # None
  BY <1>1, <1>2, Present
<1> QED
  BY <1>0, <1>1, <1>2, <1>3, <1>4, <1>5 DEF Made

\* Taking a snapshot writes the snapshot and no more.
LEMMA TakeMade ==
    ASSUME Made, Takes
    PROVE  Made' /\ before' # None /\ UNCHANGED <<source, augmentation, board, sch, lock, consent, starts, edits>>
<1>1. PICK d, a : \E flag \in Flags :
         /\ TakeBefore(d, a, flag)
         /\ \/ <<d, a>> = <<source, augmentation>>
            \/ lock # None /\ <<d, a>> = <<lock.design, lock.augmentation>>
  BY DEF Takes
<1>2. PICK flag \in Flags : TakeBefore(d, a, flag)
  BY <1>1
<1>3. d \in Designs
  BY <1>1 DEF Made, IsAccepted, IsSource
<1>4. PICK routed \in RoutedState(board, flag) : before' = SnapshotOf(board, sch, d, routed)
  BY <1>2 DEF TakeBefore
<1>5. IsBoard(board)
  BY <1>2 DEF TakeBefore, Made
<1>6. IsTaken(before')
  BY <1>3, <1>4, <1>5, RoutedIsTrue DEF IsTaken
<1>7. UNCHANGED <<source, augmentation, board, sch, lock, consent, starts, edits>> /\ lock # None
  BY <1>2 DEF TakeBefore
<1> QED
  BY <1>6, <1>7, Present DEF Made

\* What an accepted ECO writes and what it was checked against.
Recorded(flag, routed) ==
    LET after == SnapshotOf(board, sch, source, routed) IN
    /\ lock # None /\ before # None
    /\ ValidDesign(source) /\ ValidAugmentation(augmentation, source)
    /\ Extractable(board, source)
    /\ routed \in RoutedState(board, flag)
    /\ Preserved(source, augmentation, lock, before, after)
    /\ ~PlanBlocked(source, augmentation, lock, before, consent')
    /\ consent' \subseteq {"eco", "placement"}
    /\ lock' = Lock(source, augmentation, after)
    /\ starts' = {Owned(board), before.kicad_owned}
    /\ UNCHANGED <<source, augmentation, board, sch, before, edits>>

\* An ECO that is accepted passed every check of accept_eco.
LEMMA AcceptMade ==
    ASSUME Made, Accepts
    PROVE  Made' /\ lock' # None /\ \E flag \in Flags : \E routed : Recorded(flag, routed)
<1>1. PICK flag \in Flags : AcceptEco(flag)
  BY DEF Accepts
<1>2. PICK routed \in RoutedState(board, flag) :
          LET after == SnapshotOf(board, sch, source, routed) IN
          /\ Preserved(source, augmentation, lock, before, after)
          /\ lock' = Lock(source, augmentation, after)
  BY <1>1 DEF AcceptEco
<1>3. Recorded(flag, routed)
  BY <1>1, <1>2 DEF AcceptEco, Recorded
<1> DEFINE after == SnapshotOf(board, sch, source, routed)
<1>4. IsTaken(after)
  BY <1>2, <1>3, RoutedIsTrue DEF IsTaken, Recorded, Made, IsSource
<1>5. Parity(after, source, augmentation)
  BY <1>2 DEF Preserved
<1>6. lock' = Lock(source, augmentation, after)
  BY <1>2
<1> HIDE DEF after
<1>7. IsAccepted(lock') /\ lock'.snapshot = after
  BY <1>3, <1>5, <1>6 DEF Recorded, Made, IsAccepted, Lock
<1>8. lock' # None
  BY <1>6, Present
<1> QED
  BY <1>3, <1>4, <1>7, <1>8 DEF Recorded, Made

\* The invariant is inductive.
LEMMA MadeKept == ASSUME Made, [Next]_vars PROVE Made'
<1>1. CASE UNCHANGED vars
  BY <1>1 DEF vars, Made
<1>2. CASE Adopts
  BY <1>2, AdoptMade DEF Adopts
<1>3. CASE Authors
  BY <1>3 DEF Authors, Author, Made
<1>4. CASE Draws
  <2>1. PICK b, s : Draw(b, s) /\ IsBoard(b)
    BY <1>4 DEF Draws
  <2> QED
    BY <2>1, Present DEF Draw, Made
<1>5. CASE Takes
  BY <1>5, TakeMade
<1>6. CASE Accepts
  BY <1>6, AcceptMade
<1> QED
  BY <1>1, <1>2, <1>3, <1>4, <1>5, <1>6, Actions

\* It holds before the first handoff.
LEMMA MadeAtInit == Init => Made
BY EcoAssumption, Present DEF EcoAssumption, Init, Made, IsSource, Aliases, OfKind

\* So it holds throughout.
LEMMA AlwaysMade == Spec => []Made
BY MadeAtInit, MadeKept, PTL DEF Spec

-----------------------------------------------------------------------------
(* The lock is well-formed, and every change to it is named.               *)

\* The counters and the consents have their types.
Bounded ==
    /\ edits \in [author : 0 .. MaxAuthored, designer : 0 .. MaxDrawn]
    /\ consent \subseteq {"eco", "placement"}

\* They start with them.
LEMMA BoundedAtInit == Init => Bounded
BY EcoAssumption DEF EcoAssumption, Init, Bounded

\* Every step leaves them with their types.
LEMMA BoundedKept == ASSUME Bounded, Made, [Next]_vars PROVE Bounded'
<1>0. MaxAuthored \in Nat /\ MaxDrawn \in Nat
  BY EcoAssumption DEF EcoAssumption
<1>1. CASE UNCHANGED vars
  BY <1>1 DEF vars, Bounded
<1>2. CASE Adopts
  BY <1>2 DEF Adopts, Adopt, Bounded
<1>3. CASE Authors
  BY <1>0, <1>3 DEF Authors, Author, Bounded
<1>4. CASE Draws
  BY <1>0, <1>4 DEF Draws, Draw, Bounded
<1>5. CASE Takes
  BY <1>5, TakeMade DEF Bounded
<1>6. CASE Accepts
  BY <1>6, AcceptMade DEF Recorded, Bounded
<1> QED
  BY <1>1, <1>2, <1>3, <1>4, <1>5, <1>6, Actions

\* The two together give what the run checks.
LEMMA MadeIsConsistent == ASSUME Made, Bounded PROVE EcoConsistent
<1>1. (lock = None) = (board = None)
  BY DEF Made
<1>2. ASSUME lock # None
      PROVE  /\ \A n, m \in lock.design.nets : n.ends \cap m.ends # {} => n = m
             /\ {op.net : op \in lock.augmentation} \subseteq Ids(lock.design.nets) \cup {""}
  BY <1>2 DEF Made, IsAccepted, ValidDesign, ValidAugmentation
<1>3. TypeOK
  BY <1>1, <1>2 DEF TypeOK, Made, Bounded, IsSource
<1>4. ChangesComplete
  BY ReplayYieldsNew DEF ChangesComplete, Made, IsAccepted, IsSource
<1> QED
  BY <1>3, <1>4 DEF EcoConsistent

\* The accepted design puts no pin on two nets and its augmentation is about
\* its nets; and whatever the author writes next, the change list that
\* classify_changes makes of it, replayed, gives every part and net of it.
THEOREM LockIsSound == Spec => []EcoConsistent
BY MadeAtInit, MadeKept, BoundedAtInit, BoundedKept, MadeIsConsistent, PTL DEF Spec

-----------------------------------------------------------------------------
(* A routed board changes only with consent.                               *)

\* The kinds of change between two designs.
Kinds(old, new) == {c.kind : c \in ClassifyChanges(old, new)}

\* A kind that is not among the changes lists nothing.
LEMMA NothingListed ==
    ASSUME NEW old, NEW new, NEW kind, NEW items, kind \notin Kinds(old, new),
           Lists(ClassifyChanges(old, new), kind, items)
    PROVE  items = {}
<1>1. ASSUME NEW i \in items
      PROVE  FALSE
  <2>1. [kind |-> kind, target |-> i.id, item |-> i] \in Change(kind, items)
    BY DEF Change
  <2>2. [kind |-> kind, target |-> i.id, item |-> i] \in ClassifyChanges(old, new)
    BY <2>1 DEF Lists
  <2> QED
    BY <2>2 DEF Kinds
<1> QED
  BY <1>1

\* An item of two designs that no change of a field is listed for has the
\* same value in both.
LEMMA SameField ==
    ASSUME NEW old, NEW new, ValidDesign(old), ValidDesign(new)
    PROVE  LET P(kind) == kind \notin Kinds(old, new) IN
           /\ \A c \in old.parts, e \in new.parts : c.id = e.id =>
                 /\ P("reference") => c.ref = e.ref
                 /\ P("symbol") => c.symbol = e.symbol
                 /\ P("placement") => c.place = e.place
                 /\ P("pad_set") => c.pads = e.pads
                 /\ P("footprint") => c.foot = e.foot
           /\ \A n \in old.nets, m \in new.nets : n.id = m.id =>
                 /\ P("net_rename") => n.name = m.name
                 /\ P("net_endpoints") => n.ends = m.ends
<1> DEFINE P(kind) == kind \notin Kinds(old, new)
<1>u. /\ Unique(old.parts, LAMBDA x : x.id) /\ Unique(old.nets, LAMBDA x : x.id)
  BY DEF ValidDesign
<1>1. ASSUME NEW c \in old.parts, NEW e \in new.parts, c.id = e.id
      PROVE  /\ P("reference") => c.ref = e.ref
             /\ P("symbol") => c.symbol = e.symbol
             /\ P("placement") => c.place = e.place
             /\ P("pad_set") => c.pads = e.pads
             /\ P("footprint") => c.foot = e.foot
  <2>0. e.id \in Ids(old.parts) /\ ById(old.parts, e.id) = c
    BY <1>1, <1>u DEF Ids, ById, Unique
  <2>1. P("reference") => Altered(old.parts, new.parts, LAMBDA x : x.ref) = {}
    BY ChangesListed, NothingListed
  <2>2. P("symbol") => Altered(old.parts, new.parts, LAMBDA x : x.symbol) = {}
    BY ChangesListed, NothingListed
  <2>3. P("placement") => Altered(old.parts, new.parts, LAMBDA x : x.place) = {}
    BY ChangesListed, NothingListed
  <2>4. P("pad_set") => Altered(old.parts, new.parts, LAMBDA x : x.pads) = {}
    BY ChangesListed, NothingListed
  <2>5. P("footprint") => Altered(old.parts, new.parts, LAMBDA x : x.foot) = {}
    BY ChangesListed, NothingListed
  <2> HIDE DEF P
  <2> QED
    BY <2>0, <2>1, <2>2, <2>3, <2>4, <2>5 DEF Altered
<1>2. ASSUME NEW n \in old.nets, NEW m \in new.nets, n.id = m.id
      PROVE  /\ P("net_rename") => n.name = m.name
             /\ P("net_endpoints") => n.ends = m.ends
  <2>0. m.id \in Ids(old.nets) /\ ById(old.nets, m.id) = n
    BY <1>2, <1>u DEF Ids, ById, Unique
  <2>1. P("net_rename") => Altered(old.nets, new.nets, LAMBDA x : x.name) = {}
    BY ChangesListed, NothingListed
  <2>2. P("net_endpoints") => Altered(old.nets, new.nets, LAMBDA x : x.ends) = {}
    BY ChangesListed, NothingListed
  <2> HIDE DEF P
  <2> QED
    BY <2>0, <2>1, <2>2 DEF Altered
<1> QED
  BY <1>1, <1>2

\* Without a change that a routed board must be asked about, the logic of two
\* designs is the same.
LEMMA SameLogic ==
    ASSUME NEW old \in Designs, NEW new \in Designs, ValidDesign(old), ValidDesign(new),
           Kinds(old, new) \cap RoutedBlocked = {}
    PROVE  LET Logic(d) == <<{<<c.id, c.ref, c.symbol, c.pads, c.foot>> : c \in d.parts}, d.nets>> IN
           Logic(old) = Logic(new)
<1> DEFINE Row(c) == <<c.id, c.ref, c.symbol, c.pads, c.foot>>
<1>0. \A kind \in RoutedBlocked : kind \notin Kinds(old, new)
  OBVIOUS
<1>1. /\ Gained(old.parts, new.parts) = {} /\ Gained(new.parts, old.parts) = {}
      /\ Gained(old.nets, new.nets) = {} /\ Gained(new.nets, old.nets) = {}
  <2>1. /\ "component_add" \notin Kinds(old, new) /\ "component_remove" \notin Kinds(old, new)
        /\ "net_add" \notin Kinds(old, new) /\ "net_remove" \notin Kinds(old, new)
    BY <1>0 DEF RoutedBlocked
  <2> QED
    BY <2>1, ChangesListed, NothingListed
<1>2. ASSUME NEW c \in old.parts, NEW e \in new.parts, c.id = e.id
      PROVE  Row(c) = Row(e)
  <2>1. /\ "reference" \notin Kinds(old, new) /\ "symbol" \notin Kinds(old, new)
        /\ "pad_set" \notin Kinds(old, new) /\ "footprint" \notin Kinds(old, new)
    BY <1>0 DEF RoutedBlocked
  <2> QED
    BY <1>2, <2>1, SameField
<1>3. ASSUME NEW n \in old.nets, NEW m \in new.nets, n.id = m.id
      PROVE  n = m
  <2>1. /\ "net_rename" \notin Kinds(old, new) /\ "net_endpoints" \notin Kinds(old, new)
    BY <1>0 DEF RoutedBlocked
  <2>2. n.name = m.name /\ n.ends = m.ends
    BY <1>3, <2>1, SameField
  <2>3. n = [id |-> n.id, name |-> n.name, ends |-> n.ends] /\ m = [id |-> m.id, name |-> m.name, ends |-> m.ends]
    BY EcoAssumption DEF EcoAssumption
  <2> QED
    BY <1>3, <2>2, <2>3
<1> HIDE DEF Row
<1>4. {Row(c) : c \in old.parts} = {Row(c) : c \in new.parts}
  <2>1. \A c \in old.parts : \E e \in new.parts : c.id = e.id
    BY <1>1 DEF Gained, Ids
  <2>2. \A e \in new.parts : \E c \in old.parts : c.id = e.id
    BY <1>1 DEF Gained, Ids
  <2> QED
    BY <1>2, <2>1, <2>2
<1>5. old.nets = new.nets
  <2>1. \A n \in old.nets : \E m \in new.nets : n.id = m.id
    BY <1>1 DEF Gained, Ids
  <2>2. \A m \in new.nets : \E n \in old.nets : n.id = m.id
    BY <1>1 DEF Gained, Ids
  <2>3. \A n \in old.nets : n \in new.nets
    BY <1>3, <2>1
  <2>4. \A m \in new.nets : m \in old.nets
    BY <1>3, <2>2
  <2> QED
    BY <2>3, <2>4
<1> QED
  BY <1>4, <1>5 DEF Row

\* Nor, when no placement is listed, has a part moved.
LEMMA SamePlaces ==
    ASSUME NEW old, NEW new, ValidDesign(old), ValidDesign(new),
           Ids(old.parts) = Ids(new.parts), "placement" \notin Kinds(old, new)
    PROVE  {<<c.id, c.place>> : c \in old.parts} = {<<c.id, c.place>> : c \in new.parts}
<1> DEFINE Row(c) == <<c.id, c.place>>
<1>1. ASSUME NEW c \in old.parts, NEW e \in new.parts, c.id = e.id
      PROVE  Row(c) = Row(e)
  BY <1>1, SameField
<1> HIDE DEF Row
<1>2. {Row(c) : c \in old.parts} = {Row(c) : c \in new.parts}
  BY <1>1 DEF Ids
<1> QED
  BY <1>2 DEF Row

\* Copper that an ECO did not add was on the board before it, and the board
\* was then recorded as routed.
LEMMA KeptCopper ==
    ASSUME Made, NEW flag, NEW routed, Recorded(flag, routed),
           NEW added, added = UNION {op.p.tracks : op \in
                        {o \in augmentation \ lock.augmentation : o.kind = "routing_add"}},
           (lock'.snapshot.kicad_owned.tracks \ added) # {}
    PROVE  before.routed = TRUE
<1> DEFINE after == SnapshotOf(board, sch, source, routed)
           ops == RoutingOps(lock.augmentation, augmentation)
           cleared == UNION {op.p.uuids : op \in {o \in ops : o.kind = "routing_clear"}}
           new == UNION {op.p.tracks : op \in {o \in ops : o.kind = "routing_add"}}
<1>1. lock'.snapshot = after /\ Preserved(source, augmentation, lock, before, after)
  BY DEF Recorded, Lock
<1>2. TracksAsDeclared(ops, before, after)
  BY <1>1 DEF Preserved
<1>3. new = added
  <2>1. {o \in ops : o.kind = "routing_add"} =
          {o \in augmentation \ lock.augmentation : o.kind = "routing_add"}
    BY DEF RoutingOps
  <2> QED
    BY <2>1
<1>4. before.kicad_owned.tracks # {}
  <2>1. after.kicad_owned.tracks \subseteq before.kicad_owned.tracks \cup new
    BY <1>2 DEF TracksAsDeclared
  <2> HIDE DEF after, new
  <2> QED
    BY <1>1, <1>3, <2>1
<1>5. IsTaken(before)
  BY DEF Made, Recorded
<1> QED
  BY <1>4, <1>5 DEF IsTaken, SnapshotOf, KicadOwned

\* The plan asks about a board recorded as routed.
LEMMA ConsentAsked ==
    ASSUME Made, NEW flag, NEW routed, Recorded(flag, routed), before.routed = TRUE
    PROVE  /\ Kinds(lock.design, source) \cap RoutedBlocked # {} => "eco" \in consent'
           /\ "placement" \in Kinds(lock.design, source) => "placement" \in consent'
BY DEF Recorded, PlanBlocked, Kinds

\* Only an ECO changes an accepted handoff.
LEMMA LockMoves ==
    ASSUME Made, [Next]_vars, lock # None, lock' # lock
    PROVE  Accepts
<1>1. ~UNCHANGED vars
  BY DEF vars
<1>2. ~Adopts
  BY DEF Adopts, Adopt
<1>3. ~Authors
  BY DEF Authors, Author
<1>4. ~Draws
  BY DEF Draws, Draw
<1>5. ~Takes
  BY DEF Takes, TakeBefore
<1> QED
  BY <1>1, <1>2, <1>3, <1>4, <1>5, Actions

\* What RoutedNeedsConsent says of one step.
Consented ==
    lock # None /\ lock' # lock =>
         LET added == UNION {op.p.tracks : op \in
                        {o \in lock'.augmentation \ lock.augmentation : o.kind = "routing_add"}}
             old == lock.design  new == lock'.design
             Logic(d) == <<{<<c.id, c.ref, c.symbol, c.pads, c.foot>> : c \in d.parts}, d.nets>>
             Placed(d) == {<<c.id, c.place>> : c \in d.parts} IN
         (lock'.snapshot.kicad_owned.tracks \ added) # {} =>
            /\ Logic(old) # Logic(new) => "eco" \in consent'
            /\ (Ids(old.parts) = Ids(new.parts) /\ Placed(old) # Placed(new)) =>
                  "placement" \in consent'

\* Every step is as RoutedNeedsConsent says.
LEMMA StepConsented == ASSUME Made, [Next]_vars PROVE Consented
<1> SUFFICES ASSUME lock # None, lock' # lock
             PROVE  Consented
  BY DEF Consented
<1>1. PICK flag \in Flags : \E routed : Recorded(flag, routed)
  BY LockMoves, AcceptMade
<1>2. PICK routed : Recorded(flag, routed)
  BY <1>1
<1>3. /\ lock'.design = source /\ lock'.augmentation = augmentation
      /\ lock.design \in Designs /\ source \in Designs
      /\ ValidDesign(lock.design) /\ ValidDesign(source)
  BY <1>2 DEF Recorded, Lock, Made, IsAccepted, IsSource
<1> DEFINE added == UNION {op.p.tracks : op \in
                        {o \in lock'.augmentation \ lock.augmentation : o.kind = "routing_add"}}
           Logic(d) == <<{<<c.id, c.ref, c.symbol, c.pads, c.foot>> : c \in d.parts}, d.nets>>
           Placed(d) == {<<c.id, c.place>> : c \in d.parts}
<1>4. ASSUME (lock'.snapshot.kicad_owned.tracks \ added) # {}
      PROVE  before.routed = TRUE
  <2>1. added = UNION {op.p.tracks : op \in
                   {o \in augmentation \ lock.augmentation : o.kind = "routing_add"}}
    BY <1>3
  <2> HIDE DEF added
  <2> QED
    BY <1>2, <1>4, <2>1, KeptCopper
<1>5. Logic(lock.design) # Logic(source) => Kinds(lock.design, source) \cap RoutedBlocked # {}
  BY <1>3, SameLogic
<1>6. (Ids(lock.design.parts) = Ids(source.parts) /\ Placed(lock.design) # Placed(source)) =>
         "placement" \in Kinds(lock.design, source)
  BY <1>3, SamePlaces
<1> HIDE DEF added, Logic, Placed
<1>7. (lock'.snapshot.kicad_owned.tracks \ added) # {} =>
         /\ Logic(lock.design) # Logic(source) => "eco" \in consent'
         /\ (Ids(lock.design.parts) = Ids(source.parts) /\ Placed(lock.design) # Placed(source)) =>
               "placement" \in consent'
  BY <1>2, <1>4, <1>5, <1>6, ConsentAsked
<1> QED
  BY <1>3, <1>7 DEF Consented, added, Logic, Placed

\* On a board that carries copper the ECO did not itself add, accept-eco
\* records a change of the logic only when it was given --allow-routed-eco,
\* and a move only when it was given --allow-routed-placement.
THEOREM RoutedBoardsAreAsked == Spec => RoutedNeedsConsent
<1>1. Made /\ [Next]_vars => Consented
  BY StepConsented
<1> QED
  BY <1>1, AlwaysMade, PTL DEF Spec, RoutedNeedsConsent, Consented

-----------------------------------------------------------------------------
(* An accepted board is wired as its design says.                          *)

\* It is the aliases alone that it is about.
LEMMA Apart ==
    ASSUME AllApart, NEW d, NEW a, IsSource(d, a), ValidDesign(d), ValidAugmentation(a, d)
    PROVE  NamesApart(d, a)
<1> DEFINE o == a \cap (BaseOps \cup Ops)
<1>1. Aliases(o) = Aliases(a)
  BY DEF IsSource, Aliases, OfKind
<1>2. ValidAugmentation(o, d)
  BY DEF ValidAugmentation, Unique
<1>3. NamesApart(d, o)
  BY <1>2 DEF AllApart, IsSource
<1> HIDE DEF o
<1>4. \A net : NormalizedName(net, o) = NormalizedName(net, a)
  BY <1>1 DEF NormalizedName
<1>5. \A n : KicadName(n, o) = KicadName(n, a)
  BY <1>1 DEF KicadName
<1> QED
  BY <1>1, <1>3, <1>4, <1>5 DEF NamesApart

\* A part's pin, by reference or by identity.
LEMMA PinOfNet ==
    ASSUME NEW d, ValidDesign(d), NEW c \in d.parts, NEW num, NEW ends \in SUBSET Connected(d)
    PROVE  <<c.ref, num>> \in RefPins(d, ends) <=> <<c.id, num>> \in ends
<1>0. /\ Unique(d.parts, LAMBDA x : x.id) /\ Unique(d.parts, LAMBDA x : x.ref)
      /\ Connected(d) \subseteq Pins(d)
  BY DEF ValidDesign
<1>1. \A x \in d.parts : ById(d.parts, x.id) = x
  BY <1>0 DEF ById, Unique
<1>2. ASSUME <<c.id, num>> \in ends
      PROVE  <<c.ref, num>> \in RefPins(d, ends)
  BY <1>1, <1>2 DEF RefPins
<1>3. ASSUME NEW e \in ends, <<ById(d.parts, e[1]).ref, e[2]>> = <<c.ref, num>>
      PROVE  <<c.id, num>> \in ends
  <2>1. e \in Pins(d)
    BY <1>0
  <2>2. PICK x \in d.parts : e \in {x.id} \X x.pads
    BY <2>1 DEF Pins
  <2>3. e = <<x.id, e[2]>>
    BY <2>2
  <2>4. x.ref = c.ref /\ e[2] = num
    BY <1>1, <1>3, <2>3
  <2>5. x = c
    BY <1>0, <2>4 DEF Unique
  <2> QED
    BY <2>3, <2>4, <2>5
<1> QED
  BY <1>2, <1>3 DEF RefPins

\* A pass over the nets, land by land.
CanonLand(fps, d, f, l) ==
    IF Bookkeeping(fps, d, <<f.ref, l.num>>, l.net) THEN [l EXCEPT !.net = ""] ELSE l

\* And footprint by footprint.
CanonFootprint(fps, d, f) == [f EXCEPT !.lands = {CanonLand(fps, d, f, l) : l \in f.lands}]

\* One pass leaves a land a land, with its number.
LEMMA LandPassed ==
    ASSUME NEW fps, NEW d, NEW f, NEW l, IsLand(l)
    PROVE  IsLand(CanonLand(fps, d, f, l)) /\ CanonLand(fps, d, f, l).num = l.num
<1>0. l = [num |-> l.num, k |-> l.k, net |-> l.net]
  BY DEF IsLand
<1>1. PICK k \in {CanonLand(fps, d, f, l)} : TRUE
  OBVIOUS
<1>2. CASE Bookkeeping(fps, d, <<f.ref, l.num>>, l.net)
  <2>1. k = [num |-> l.num, k |-> l.k, net |-> ""]
    BY <1>0, <1>2 DEF CanonLand
  <2>2. k.num = l.num /\ k.net = "" /\ IsLand(k)
    BY <2>1 DEF IsLand
  <2> QED
    BY <1>1, <1>2, <2>2
<1>3. CASE ~Bookkeeping(fps, d, <<f.ref, l.num>>, l.net)
  BY <1>3 DEF CanonLand
<1> QED
  BY <1>2, <1>3

\* It takes off a land KiCad's name for an unconnected pin, and no other.
LEMMA NetPassed ==
    ASSUME NEW fps, NEW d, NEW f, NEW l, IsLand(l)
    PROVE  /\ Bookkeeping(fps, d, <<f.ref, l.num>>, l.net) => CanonLand(fps, d, f, l).net = ""
           /\ ~Bookkeeping(fps, d, <<f.ref, l.num>>, l.net) => CanonLand(fps, d, f, l).net = l.net
<1>0. l = [num |-> l.num, k |-> l.k, net |-> l.net]
  BY DEF IsLand
<1>1. PICK k \in {CanonLand(fps, d, f, l)} : TRUE
  OBVIOUS
<1>2. CASE Bookkeeping(fps, d, <<f.ref, l.num>>, l.net)
  <2>1. k = [num |-> l.num, k |-> l.k, net |-> ""]
    BY <1>0, <1>2 DEF CanonLand
  <2>2. k.num = l.num /\ k.net = "" /\ IsLand(k)
    BY <2>1 DEF IsLand
  <2> QED
    BY <1>1, <1>2, <2>2
<1>3. CASE ~Bookkeeping(fps, d, <<f.ref, l.num>>, l.net)
  BY <1>3 DEF CanonLand
<1> QED
  BY <1>2, <1>3

\* It changes nothing of a footprint but its lands.
LEMMA FootprintPassed ==
    ASSUME NEW fps, NEW d, NEW f, IsFootprint(f)
    PROVE  LET g == CanonFootprint(fps, d, f) IN
           /\ IsFootprint(g) /\ g.ref = f.ref
           /\ g.lands = {CanonLand(fps, d, f, l) : l \in f.lands}
           /\ \A w : [g EXCEPT !.lands = w] = [f EXCEPT !.lands = w]
<1> DEFINE w == {CanonLand(fps, d, f, l) : l \in f.lands}
<1>0. f = [uuid |-> f.uuid, ref |-> f.ref, value |-> f.value, foot |-> f.foot,
           place |-> f.place, lands |-> f.lands]
  BY DEF IsFootprint
<1>a. \A l \in f.lands : IsLand(l)
  BY DEF IsFootprint
<1>1. \A l \in w : IsLand(l)
  BY <1>a, LandPassed
<1>2. PICK g \in {CanonFootprint(fps, d, f)} : TRUE
  OBVIOUS
<1>3. g = [f EXCEPT !.lands = w]
  BY <1>2 DEF CanonFootprint
<1> HIDE DEF w
<1>4. IsFootprint(g)
  BY <1>1, <1>3, Replaced
<1>5. g.ref = f.ref /\ g.lands = w
  BY <1>0, <1>3
<1>6. ASSUME NEW v
      PROVE  [g EXCEPT !.lands = v] = [f EXCEPT !.lands = v]
  BY <1>0, <1>3
<1> QED
  BY <1>2, <1>4, <1>5, <1>6 DEF w

\* One pass over the footprints keeps each land's net, or takes KiCad's name
\* for an unconnected pin off it.
LEMMA OnePass ==
    ASSUME NEW fps, NEW d, \A f \in fps : IsFootprint(f)
    PROVE  /\ \A f \in CanonicalNets(fps, d) : IsFootprint(f)
           /\ \A f \in fps : \E g \in CanonicalNets(fps, d) :
                 /\ g.ref = f.ref
                 /\ \A l \in f.lands : \E k \in g.lands :
                       /\ k.num = l.num
                       /\ \/ k.net = l.net
                          \/ /\ k.net = "" /\ l.net = NcName[<<f.ref, l.num>>]
                             /\ <<f.ref, l.num>> \in Loose(d)
<1>0. CanonicalNets(fps, d) = {CanonFootprint(fps, d, f) : f \in fps}
  BY DEF CanonicalNets, CanonFootprint, CanonLand
<1>1. \A g \in CanonicalNets(fps, d) : IsFootprint(g)
  BY <1>0, FootprintPassed
<1>2. ASSUME NEW f \in fps, NEW l \in f.lands
      PROVE  \E k \in CanonFootprint(fps, d, f).lands :
                       /\ k.num = l.num
                       /\ \/ k.net = l.net
                          \/ /\ k.net = "" /\ l.net = NcName[<<f.ref, l.num>>]
                             /\ <<f.ref, l.num>> \in Loose(d)
  <2> DEFINE k == CanonLand(fps, d, f, l)
  <2>1. k \in CanonFootprint(fps, d, f).lands
    BY FootprintPassed
  <2>2. /\ k.num = l.num
        /\ Bookkeeping(fps, d, <<f.ref, l.num>>, l.net) => k.net = ""
        /\ ~Bookkeeping(fps, d, <<f.ref, l.num>>, l.net) => k.net = l.net
    <3>1. IsLand(l)
      BY DEF IsFootprint
    <3>2. k.num = l.num
      BY <3>1, LandPassed
    <3>3. Bookkeeping(fps, d, <<f.ref, l.num>>, l.net) => k.net = ""
      BY <3>1, NetPassed
    <3>4. ~Bookkeeping(fps, d, <<f.ref, l.num>>, l.net) => k.net = l.net
      BY <3>1, NetPassed
    <3> QED
      BY <3>2, <3>3, <3>4
  <2>3. Bookkeeping(fps, d, <<f.ref, l.num>>, l.net) =>
           l.net = NcName[<<f.ref, l.num>>] /\ <<f.ref, l.num>> \in Loose(d)
    BY DEF Bookkeeping, Loose
  <2> HIDE DEF k
  <2> QED
    BY <2>1, <2>2, <2>3
<1>3. ASSUME NEW f \in fps
      PROVE  CanonFootprint(fps, d, f) \in CanonicalNets(fps, d) /\ CanonFootprint(fps, d, f).ref = f.ref
  BY <1>0, FootprintPassed
<1> QED
  BY <1>1, <1>2, <1>3

\* The net whose end a pin is.
NetOf(d, e) == CHOOSE n \in d.nets : e \in n.ends

\* On a board whose snapshot is in parity, a land of a connected pin shows
\* its net, and a land of another shows none or KiCad's name for the pin.
LEMMA LandNames ==
    ASSUME NEW b, IsBoard(b), NEW d, NEW a, NEW drawn, NEW routed, ValidDesign(d), NamesApart(d, a),
           Parity(SnapshotOf(b, drawn, d, routed), d, a),
           NEW f \in b.fps, NEW l \in f.lands, NEW c \in d.parts, c.ref = f.ref
    PROVE  IF <<c.id, l.num>> \in Connected(d)
           THEN l.net # "" /\ NormalizedName(l.net, a) = KicadName(NetOf(d, <<c.id, l.num>>), a)
           ELSE l.net = "" \/ (l.net = NcName[<<f.ref, l.num>>] /\ <<f.ref, l.num>> \in Loose(d))
<1> DEFINE pin == <<f.ref, l.num>>
           one == CanonicalNets(b.fps, d)
           two == CanonicalNets(one, d)
<1>0. (\A x \in b.fps : IsFootprint(x)) /\ SnapshotOf(b, drawn, d, routed).source_owned.fps = one
  BY DEF IsBoard, SnapshotOf
<1>1. (\A x \in one : IsFootprint(x)) /\ (\A x \in two : IsFootprint(x))
  BY <1>0, OnePass
<1>2. PICK g \in one : /\ g.ref = f.ref
                       /\ \A x \in f.lands : \E k \in g.lands :
                             /\ k.num = x.num
                             /\ \/ k.net = x.net
                                \/ /\ k.net = "" /\ x.net = NcName[<<f.ref, x.num>>]
                                   /\ <<f.ref, x.num>> \in Loose(d)
  BY <1>0, OnePass
<1>3. PICK h \in two : /\ h.ref = g.ref
                       /\ \A x \in g.lands : \E k \in h.lands :
                             /\ k.num = x.num
                             /\ \/ k.net = x.net
                                \/ /\ k.net = "" /\ x.net = NcName[<<g.ref, x.num>>]
                                   /\ <<g.ref, x.num>> \in Loose(d)
  BY <1>1, OnePass
<1>4. PICK k \in g.lands : /\ k.num = l.num
                           /\ \/ k.net = l.net
                              \/ k.net = "" /\ l.net = NcName[pin] /\ pin \in Loose(d)
  BY <1>2
<1>5. PICK m \in h.lands : /\ m.num = k.num
                           /\ \/ m.net = k.net
                              \/ m.net = "" /\ k.net = NcName[pin] /\ pin \in Loose(d)
  BY <1>2, <1>3, <1>4
<1>6. m.net = l.net \/ (m.net = "" /\ l.net = NcName[pin] /\ pin \in Loose(d))
  BY <1>4, <1>5
<1>7. NormalizedName(m.net, a) = ExpectedName(d, <<c.id, l.num>>, LAMBDA n : KicadName(n, a))
  <2>1. LandsAgree(h, c, d, a)
    BY <1>0, <1>2, <1>3 DEF Parity
  <2> QED
    BY <2>1, <1>4, <1>5 DEF LandsAgree
<1>8. m.net \in DOMAIN Bare \cup {""}
  BY <1>1 DEF IsFootprint, IsLand
<1>9. NormalizedName("", a) = ""
  BY DEF NormalizedName, NamesApart
<1> HIDE DEF pin
<1>10. CASE <<c.id, l.num>> \in Connected(d)
  <2>1. PICK n \in d.nets : n = NetOf(d, <<c.id, l.num>>)
    BY <1>10 DEF NetOf, Connected
  <2>2. NormalizedName(m.net, a) = KicadName(n, a) /\ KicadName(n, a) # ""
    BY <1>7, <1>10, <2>1 DEF ExpectedName, NetOf, NamesApart
  <2>3. m.net # ""
    BY <1>9, <2>2
  <2>4. m.net = l.net
    BY <1>6, <2>3
  <2> QED
    BY <1>10, <2>1, <2>2, <2>3, <2>4
<1>11. CASE <<c.id, l.num>> \notin Connected(d)
  <2>1. NormalizedName(m.net, a) = ""
    BY <1>7, <1>11 DEF ExpectedName
  <2>2. m.net = ""
    BY <1>8, <2>1 DEF NamesApart
  <2> QED
    BY <1>6, <1>11, <2>2 DEF pin
<1> QED
  BY <1>10, <1>11

\* A board is wired as a design says, its names read through the aliases.
WiredAt(b, d, a) == Wired(b, d, a, LAMBDA net : NormalizedName(net, a))

\* Two lands of such a board are on one net exactly when the design joins
\* their pins.
LEMMA WiredAsDesigned ==
    ASSUME NEW b, IsBoard(b), NEW d, NEW a, NEW drawn, NEW routed, ValidDesign(d), NamesApart(d, a),
           Extractable(b, d), Parity(SnapshotOf(b, drawn, d, routed), d, a)
    PROVE  WiredAt(b, d, a)
<1> DEFINE N(net) == NormalizedName(net, a)
           all == UNION {{[pin |-> <<f.ref, l.num>>, land |-> <<f.uuid, l.num, l.k>>, net |-> l.net]
                          : l \in f.lands} : f \in b.fps}
           Joined(x, y) == x.net # "" /\ y.net # "" /\ N(x.net) = N(y.net)
           Wanted(x, y) == \E n \in d.nets : {x.pin, y.pin} \subseteq RefPins(d, n.ends)
<1>1. ASSUME NEW x \in all
      PROVE  \E c \in d.parts : \E num :
                /\ x.pin = <<c.ref, num>>
                /\ IF <<c.id, num>> \in Connected(d)
                   THEN x.net # "" /\ N(x.net) = KicadName(NetOf(d, <<c.id, num>>), a)
                   ELSE x.net = "" \/ (x.net = NcName[x.pin] /\ x.pin \in Loose(d))
  <2>1. PICK f \in b.fps : \E l \in f.lands :
           x = [pin |-> <<f.ref, l.num>>, land |-> <<f.uuid, l.num, l.k>>, net |-> l.net]
    BY <1>1
  <2>2. PICK l \in f.lands :
           x = [pin |-> <<f.ref, l.num>>, land |-> <<f.uuid, l.num, l.k>>, net |-> l.net]
    BY <2>1
  <2>3. PICK c \in d.parts : c.ref = f.ref
    BY DEF Extractable
  <2>4. x.pin = <<c.ref, l.num>> /\ x.pin = <<f.ref, l.num>> /\ x.net = l.net
    BY <2>2, <2>3
  <2>5. IF <<c.id, l.num>> \in Connected(d)
        THEN l.net # "" /\ NormalizedName(l.net, a) = KicadName(NetOf(d, <<c.id, l.num>>), a)
        ELSE l.net = "" \/ (l.net = NcName[<<f.ref, l.num>>] /\ <<f.ref, l.num>> \in Loose(d))
    BY <2>3, LandNames
  <2> HIDE DEF all
  <2> QED
    BY <2>4, <2>5
<1>2. ASSUME NEW c \in d.parts, NEW num, NEW n \in d.nets
      PROVE  /\ <<c.ref, num>> \in RefPins(d, n.ends) <=> <<c.id, num>> \in n.ends
             /\ <<c.id, num>> \in n.ends => <<c.id, num>> \in Connected(d) /\ n = NetOf(d, <<c.id, num>>)
  <2>1. n.ends \in SUBSET Connected(d)
    BY DEF Connected
  <2>2. <<c.ref, num>> \in RefPins(d, n.ends) <=> <<c.id, num>> \in n.ends
    BY <2>1, PinOfNet
  <2>3. ASSUME <<c.id, num>> \in n.ends
        PROVE  n = NetOf(d, <<c.id, num>>)
    BY <2>3 DEF NetOf, ValidDesign
  <2> QED
    BY <2>1, <2>2, <2>3
<1>3. ASSUME NEW e \in Connected(d)
      PROVE  NetOf(d, e) \in d.nets /\ e \in NetOf(d, e).ends
  BY <1>3 DEF Connected, NetOf
<1>4. ASSUME NEW x \in all, NEW y \in all, x.pin # y.pin
      PROVE  Joined(x, y) <=> Wanted(x, y)
  <2>1. PICK c \in d.parts : \E num :
                /\ x.pin = <<c.ref, num>>
                /\ IF <<c.id, num>> \in Connected(d)
                   THEN x.net # "" /\ N(x.net) = KicadName(NetOf(d, <<c.id, num>>), a)
                   ELSE x.net = "" \/ (x.net = NcName[x.pin] /\ x.pin \in Loose(d))
    BY <1>1
  <2>2. PICK i :
                /\ x.pin = <<c.ref, i>>
                /\ IF <<c.id, i>> \in Connected(d)
                   THEN x.net # "" /\ N(x.net) = KicadName(NetOf(d, <<c.id, i>>), a)
                   ELSE x.net = "" \/ (x.net = NcName[x.pin] /\ x.pin \in Loose(d))
    BY <2>1
  <2>3. PICK e \in d.parts : \E num :
                /\ y.pin = <<e.ref, num>>
                /\ IF <<e.id, num>> \in Connected(d)
                   THEN y.net # "" /\ N(y.net) = KicadName(NetOf(d, <<e.id, num>>), a)
                   ELSE y.net = "" \/ (y.net = NcName[y.pin] /\ y.pin \in Loose(d))
    BY <1>1
  <2>4. PICK j :
                /\ y.pin = <<e.ref, j>>
                /\ IF <<e.id, j>> \in Connected(d)
                   THEN y.net # "" /\ N(y.net) = KicadName(NetOf(d, <<e.id, j>>), a)
                   ELSE y.net = "" \/ (y.net = NcName[y.pin] /\ y.pin \in Loose(d))
    BY <2>3
  <2> DEFINE p == <<c.id, i>>
             q == <<e.id, j>>
  <2>5. Wanted(x, y) <=> p \in Connected(d) /\ q \in Connected(d) /\ NetOf(d, p) = NetOf(d, q)
    <3>1. \A n \in d.nets : x.pin \in RefPins(d, n.ends) <=> p \in n.ends
      BY <2>2, <1>2
    <3>2. \A n \in d.nets : y.pin \in RefPins(d, n.ends) <=> q \in n.ends
      BY <2>4, <1>2
    <3>3. /\ \A n \in d.nets : p \in n.ends => p \in Connected(d) /\ n = NetOf(d, p)
          /\ \A n \in d.nets : q \in n.ends => q \in Connected(d) /\ n = NetOf(d, q)
      BY <1>2
    <3> HIDE DEF p, q
    <3> QED
      BY <1>3, <3>1, <3>2, <3>3
  <2>6. Joined(x, y) <=> p \in Connected(d) /\ q \in Connected(d) /\ NetOf(d, p) = NetOf(d, q)
    <3>1. CASE p \in Connected(d) /\ q \in Connected(d)
      <4>1. NetOf(d, p) \in d.nets /\ NetOf(d, q) \in d.nets
        BY <1>3, <3>1
      <4>2. x.net # "" /\ y.net # "" /\ N(x.net) = KicadName(NetOf(d, p), a)
            /\ N(y.net) = KicadName(NetOf(d, q), a)
        BY <2>2, <2>4, <3>1
      <4> HIDE DEF p, q, N
      <4> QED
        BY <3>1, <4>1, <4>2 DEF NamesApart
    <3>2. CASE p \in Connected(d) /\ q \notin Connected(d)
      <4>1. NetOf(d, p) \in d.nets
        BY <1>3, <3>2
      <4>2. /\ N(x.net) = KicadName(NetOf(d, p), a)
            /\ y.net = "" \/ (y.net = NcName[y.pin] /\ y.pin \in Loose(d))
        BY <2>2, <2>4, <3>2
      <4>3. ASSUME y.net = NcName[y.pin], y.pin \in Loose(d)
            PROVE  N(y.net) # KicadName(NetOf(d, p), a)
        BY <4>1, <4>3 DEF NamesApart
      <4> HIDE DEF p, q, N
      <4> QED
        BY <3>2, <4>2, <4>3
    <3>3. CASE p \notin Connected(d) /\ q \in Connected(d)
      <4>1. NetOf(d, q) \in d.nets
        BY <1>3, <3>3
      <4>2. /\ N(y.net) = KicadName(NetOf(d, q), a)
            /\ x.net = "" \/ (x.net = NcName[x.pin] /\ x.pin \in Loose(d))
        BY <2>2, <2>4, <3>3
      <4>3. ASSUME x.net = NcName[x.pin], x.pin \in Loose(d)
            PROVE  N(x.net) # KicadName(NetOf(d, q), a)
        BY <4>1, <4>3 DEF NamesApart
      <4> HIDE DEF p, q, N
      <4> QED
        BY <3>3, <4>2, <4>3
    <3>4. CASE p \notin Connected(d) /\ q \notin Connected(d)
      <4>1. /\ x.net = "" \/ (x.net = NcName[x.pin] /\ x.pin \in Loose(d))
            /\ y.net = "" \/ (y.net = NcName[y.pin] /\ y.pin \in Loose(d))
        BY <2>2, <2>4, <3>4
      <4>2. ASSUME x.net = NcName[x.pin], x.pin \in Loose(d), y.net = NcName[y.pin], y.pin \in Loose(d)
            PROVE  N(x.net) # N(y.net)
        BY <1>4, <4>2 DEF NamesApart
      <4> HIDE DEF p, q, N
      <4> QED
        BY <3>4, <4>1, <4>2
    <3> QED
      BY <3>1, <3>2, <3>3, <3>4
  <2> QED
    BY <2>5, <2>6
<1> QED
  BY <1>4 DEF Wired, WiredAt

\* What AcceptedIsWired says of one step.
AcceptsWired ==
    lock' # lock => Wired(board', lock'.design, lock'.augmentation,
                          LAMBDA net : NormalizedName(net, lock'.augmentation))

\* Every step that writes the lock is as AcceptedIsWired says.
LEMMA StepWired == ASSUME AllApart, Made, [Next]_vars, lock' # lock PROVE AcceptsWired
<1> DEFINE N(net) == NormalizedName(net, augmentation)
<1>0. IsSource(source, augmentation)
  BY DEF Made
<1>1. ASSUME NEW b, IsBoard(b), NEW drawn, NEW routed, NEW s,
             ValidDesign(source), ValidAugmentation(augmentation, source), Extractable(b, source),
             Parity(SnapshotOf(b, drawn, source, routed), source, augmentation),
             board' = b, lock' = Lock(source, augmentation, s)
      PROVE  AcceptsWired
  <2>1. NamesApart(source, augmentation)
    BY <1>0, <1>1, Apart
  <2>2. WiredAt(b, source, augmentation)
    BY <1>1, <2>1, WiredAsDesigned
  <2>3. lock'.design = source /\ lock'.augmentation = augmentation
    BY <1>1 DEF Lock
  <2> QED
    BY <1>1, <2>2, <2>3 DEF AcceptsWired, WiredAt
<1>2. CASE Adopts
  <2>1. PICK seed \in Seeds : \E fields \in Drawings : Adopt(seed, fields)
    BY <1>2 DEF Adopts
  <2>2. PICK fields \in Drawings : Adopt(seed, fields)
    BY <2>1
  <2> DEFINE b == Augmented(seed, source, augmentation)
             drawn == [symbols |-> {Drawn(c, fields) : c \in source.parts},
                       nets |-> Wiring(source, augmentation)]
             s == SnapshotOf(b, drawn, source, FALSE)
  <2>3. /\ ValidDesign(source) /\ ValidAugmentation(augmentation, source)
        /\ Extractable(b, source) /\ Parity(s, source, augmentation)
        /\ board' = b /\ lock' = Lock(source, augmentation, s)
    BY <2>2 DEF Adopt
  <2>4. IsBoard(b)
    BY <1>0, AugmentedMade
  <2> HIDE DEF b, drawn
  <2> QED
    BY <1>1, <2>3, <2>4
<1>3. CASE lock # None
  <2>1. PICK flag \in Flags : \E routed : Recorded(flag, routed)
    BY <1>3, LockMoves, AcceptMade
  <2>2. PICK routed : Recorded(flag, routed)
    BY <2>1
  <2> DEFINE s == SnapshotOf(board, sch, source, routed)
  <2>3. /\ ValidDesign(source) /\ ValidAugmentation(augmentation, source)
        /\ Extractable(board, source) /\ Parity(s, source, augmentation)
        /\ board' = board /\ lock' = Lock(source, augmentation, s)
    BY <2>2 DEF Recorded, Preserved
  <2>4. IsBoard(board)
    BY <1>3 DEF Made
  <2> QED
    BY <1>1, <2>3, <2>4
<1>4. lock # None \/ Adopts
  <2>1. ~UNCHANGED vars
    BY DEF vars
  <2>2. ~Authors
    BY DEF Authors, Author
  <2>3. ~Draws
    BY DEF Draws, Draw
  <2>4. ~Takes
    BY DEF Takes, TakeBefore
  <2>5. Accepts => lock # None
    BY DEF Accepts, AcceptEco
  <2> QED
    BY <2>1, <2>2, <2>3, <2>4, <2>5, Actions
<1> QED
  BY <1>2, <1>3, <1>4

\* Where the author's names tell nets apart, a handoff accepted at the start
\* or by an ECO leaves a board on which two lands are on one net exactly when
\* the design joins their pins, whatever aliases rename them and whatever
\* nets KiCad invents for the pins left unconnected.
THEOREM AcceptedBoardIsWired == ASSUME AllApart PROVE Spec => AcceptedIsWired
<1>1. Made /\ [Next]_vars => AcceptsWired
  BY StepWired DEF AcceptsWired
<1> QED
  BY <1>1, AlwaysMade, PTL DEF Spec, AcceptedIsWired, AcceptsWired

-----------------------------------------------------------------------------
(* What KiCad owns.                                                        *)

\* A land after a pass for one design and a pass for another.
Passed(fps, d, e, f, l) ==
    CanonLand(CanonicalNets(fps, d), e, CanonFootprint(fps, d, f), CanonLand(fps, d, f, l))

\* Two passes, land by land.
LEMMA TwoPasses ==
    ASSUME NEW fps, NEW d, NEW e, \A f \in fps : IsFootprint(f)
    PROVE  CanonicalNets(CanonicalNets(fps, d), e) =
              {[f EXCEPT !.lands = {Passed(fps, d, e, f, l) : l \in f.lands}] : f \in fps}
<1> DEFINE one == CanonicalNets(fps, d)
           two == CanonicalNets(one, e)
           P(f) == [f EXCEPT !.lands = {Passed(fps, d, e, f, l) : l \in f.lands}]
<1>1. one = {CanonFootprint(fps, d, f) : f \in fps}
  BY DEF CanonicalNets, CanonFootprint, CanonLand
<1>2. two = {CanonFootprint(one, e, g) : g \in one}
  BY DEF CanonicalNets, CanonFootprint, CanonLand
<1>3. ASSUME NEW f \in fps
      PROVE  CanonFootprint(one, e, CanonFootprint(fps, d, f)) = P(f)
  <2> DEFINE g == CanonFootprint(fps, d, f)
  <2>1. /\ g.lands = {CanonLand(fps, d, f, l) : l \in f.lands}
        /\ \A w : [g EXCEPT !.lands = w] = [f EXCEPT !.lands = w]
    BY FootprintPassed
  <2>2. {CanonLand(one, e, g, k) : k \in g.lands} = {Passed(fps, d, e, f, l) : l \in f.lands}
    BY <2>1 DEF Passed
  <2>3. CanonFootprint(one, e, g) = [g EXCEPT !.lands = {CanonLand(one, e, g, k) : k \in g.lands}]
    BY DEF CanonFootprint
  <2> HIDE DEF g, one
  <2>4. CanonFootprint(one, e, g) = P(f)
    BY <2>1, <2>2, <2>3
  <2> QED
    BY <2>4 DEF g
<1> HIDE DEF P, one, two
<1>4. ASSUME NEW x \in two PROVE \E f \in fps : x = P(f)
  BY <1>1, <1>2, <1>3
<1>5. ASSUME NEW f \in fps PROVE P(f) \in two
  BY <1>1, <1>2, <1>3
<1>6. two = {P(f) : f \in fps}
  BY <1>4, <1>5
<1> QED
  BY <1>6 DEF P, one, two

\* A land that two passes go over is kept, or loses its net.
LEMMA PassedLand ==
    ASSUME NEW fps, NEW d, NEW e, NEW f, IsFootprint(f), NEW l \in f.lands
    PROVE  LET p == Passed(fps, d, e, f, l) IN IsLand(p) /\ p.num = l.num
<1> DEFINE k == CanonLand(fps, d, f, l)
           g == CanonFootprint(fps, d, f)
           one == CanonicalNets(fps, d)
           p == CanonLand(one, e, g, k)
<1>1. IsLand(l)
  BY DEF IsFootprint
<1>2. IsLand(k) /\ k.num = l.num
  BY <1>1, LandPassed
<1> HIDE DEF k, g, one
<1>8. IsLand(p) /\ p.num = k.num
  BY <1>2, LandPassed
<1> HIDE DEF p
<1>12. p = Passed(fps, d, e, f, l)
  BY DEF p, k, g, one, Passed
<1> QED
  BY <1>2, <1>8, <1>12

\* The land itself is one of two.
LEMMA KeptOrBare ==
    ASSUME NEW fps, NEW d, NEW e, NEW f, IsFootprint(f), NEW l \in f.lands
    PROVE  Passed(fps, d, e, f, l) \in {l, [l EXCEPT !.net = ""]}
<1> DEFINE k == CanonLand(fps, d, f, l)
           g == CanonFootprint(fps, d, f)
           one == CanonicalNets(fps, d)
           p == CanonLand(one, e, g, k)
<1>1. IsLand(l)
  BY DEF IsFootprint
<1>6. k \in {l, [l EXCEPT !.net = ""]} /\ p \in {k, [k EXCEPT !.net = ""]}
  BY DEF CanonLand
<1>7. [[l EXCEPT !.net = ""] EXCEPT !.net = ""] = [l EXCEPT !.net = ""]
  <2>1. l = [num |-> l.num, k |-> l.k, net |-> l.net]
    BY <1>1 DEF IsLand
  <2>2. \A w, v : [[l EXCEPT !.net = w] EXCEPT !.net = v] = [l EXCEPT !.net = v]
    BY <2>1
  <2> QED
    BY <2>2
<1> HIDE DEF k, g, one
<1>11. p \in {l, [l EXCEPT !.net = ""]}
  BY <1>6, <1>7
<1> HIDE DEF p
<1>12. p = Passed(fps, d, e, f, l)
  BY DEF p, k, g, one, Passed
<1> QED
  BY <1>11, <1>12

\* What each pass does to its net.
LEMMA PassedNet ==
    ASSUME NEW fps, NEW d, NEW e, NEW f, IsFootprint(f), NEW l \in f.lands
    PROVE  LET k == CanonLand(fps, d, f, l)
               p == Passed(fps, d, e, f, l)
               pin == <<f.ref, l.num>> IN
           /\ Bookkeeping(fps, d, pin, l.net) => k.net = ""
           /\ ~Bookkeeping(fps, d, pin, l.net) => k.net = l.net
           /\ Bookkeeping(CanonicalNets(fps, d), e, pin, k.net) => p.net = ""
<1> DEFINE k == CanonLand(fps, d, f, l)
           g == CanonFootprint(fps, d, f)
           one == CanonicalNets(fps, d)
           p == CanonLand(one, e, g, k)
           pin == <<f.ref, l.num>>
<1>1. IsLand(l)
  BY DEF IsFootprint
<1>2. IsLand(k) /\ k.num = l.num
  BY <1>1, LandPassed
<1>3. Bookkeeping(fps, d, pin, l.net) => k.net = ""
  BY <1>1, NetPassed
<1>4. ~Bookkeeping(fps, d, pin, l.net) => k.net = l.net
  BY <1>1, NetPassed
<1>5. g.ref = f.ref
  BY FootprintPassed
<1> HIDE DEF k, g, one
<1>9. Bookkeeping(one, e, <<g.ref, k.num>>, k.net) => p.net = ""
  BY <1>2, NetPassed
<1> HIDE DEF p
<1>12. p = Passed(fps, d, e, f, l)
  BY DEF p, k, g, one, Passed
<1> QED
  BY <1>2, <1>3, <1>4, <1>5, <1>9, <1>12 DEF k, one

\* The second pass keeps a net that is not KiCad's own for the pin.
LEMMA SecondKeeps ==
    ASSUME NEW fps, NEW d, NEW e, NEW f, IsFootprint(f), NEW l \in f.lands,
           ~Bookkeeping(CanonicalNets(fps, d), e, <<f.ref, l.num>>, CanonLand(fps, d, f, l).net)
    PROVE  Passed(fps, d, e, f, l).net = CanonLand(fps, d, f, l).net
<1> DEFINE k == CanonLand(fps, d, f, l)
           g == CanonFootprint(fps, d, f)
           one == CanonicalNets(fps, d)
           p == CanonLand(one, e, g, k)
           pin == <<f.ref, l.num>>
<1>1. IsLand(l)
  BY DEF IsFootprint
<1>2. IsLand(k) /\ k.num = l.num
  BY <1>1, LandPassed
<1>5. g.ref = f.ref
  BY FootprintPassed
<1> HIDE DEF k, g, one
<1>10. ~Bookkeeping(one, e, <<g.ref, k.num>>, k.net) => p.net = k.net
  BY <1>2, NetPassed
<1> HIDE DEF p
<1>12. p = Passed(fps, d, e, f, l)
  BY DEF p, k, g, one, Passed
<1> QED
  BY <1>2, <1>5, <1>10, <1>12 DEF k, one

\* A net that a pass leaves on one of its lands, it leaves on all of them.
LEMMA MembersKept ==
    ASSUME NEW fps, NEW d, \A f \in fps : IsFootprint(f), NEW f \in fps, NEW l \in f.lands,
           ~Bookkeeping(fps, d, <<f.ref, l.num>>, l.net)
    PROVE  /\ <<f.ref, l.num>> \in Members(fps, l.net)
           /\ Members(fps, l.net) \subseteq Members(CanonicalNets(fps, d), l.net)
<1> DEFINE pin == <<f.ref, l.num>>
           one == CanonicalNets(fps, d)
<1>1. pin \in Members(fps, l.net)
  BY DEF Members
<1>2. ASSUME NEW x \in fps, NEW k \in x.lands, k.net = l.net
      PROVE  <<x.ref, k.num>> \in Members(one, l.net)
  <2> DEFINE y == CanonFootprint(fps, d, x)
             m == CanonLand(fps, d, x, k)
  <2>1. ~Bookkeeping(fps, d, <<x.ref, k.num>>, k.net)
    BY <1>1, <1>2 DEF Bookkeeping
  <2>2. IsLand(k)
    BY DEF IsFootprint
  <2>3. m.net = k.net
    BY <2>1, <2>2, NetPassed
  <2>4. m.num = k.num
    BY <2>2, LandPassed
  <2>5. y.ref = x.ref /\ m \in y.lands
    BY FootprintPassed
  <2>6. y \in one
    BY DEF CanonicalNets, CanonFootprint, CanonLand
  <2> HIDE DEF y, m, one
  <2> QED
    BY <1>2, <2>3, <2>4, <2>5, <2>6 DEF Members
<1>3. ASSUME NEW q \in Members(fps, l.net)
      PROVE  q \in Members(one, l.net)
  <2>1. PICK x \in fps : q \in {<<x.ref, k.num>> : k \in {m \in x.lands : m.net = l.net}}
    BY <1>3 DEF Members
  <2> HIDE DEF one
  <2> QED
    BY <1>2, <2>1
<1> QED
  BY <1>1, <1>3

\* The name that a land of a pin should show.
Shown(d, pin, a) == ExpectedName(d, pin, LAMBDA n : KicadName(n, a))

\* When two passes, for any design and then for the accepted one, leave on a
\* land what parity with the accepted one asks for, two passes for the
\* accepted one leave the same.
LEMMA LandEndsSame ==
    ASSUME NEW fps, NEW d, NEW e, NEW a, \A f \in fps : IsFootprint(f),
           ValidDesign(e), NamesApart(e, a),
           NEW f \in fps, NEW l \in f.lands, NEW c \in e.parts, c.ref = f.ref,
           l.num \in c.pads,
           NormalizedName(Passed(fps, d, e, f, l).net, a) = Shown(e, <<c.id, l.num>>, a)
    PROVE  Passed(fps, d, e, f, l) = Passed(fps, e, e, f, l)
<1> DEFINE pin == <<f.ref, l.num>>
           p == Passed(fps, d, e, f, l)
           q == Passed(fps, e, e, f, l)
           k == CanonLand(fps, d, f, l)
           m == CanonLand(fps, e, f, l)
           one == CanonicalNets(fps, d)
           other == CanonicalNets(fps, e)
<1>0. IsFootprint(f) /\ IsLand(l)
  BY DEF IsFootprint
<1>a0. p \in {l, [l EXCEPT !.net = ""]}
  BY <1>0, KeptOrBare
<1>a1. IsLand(p)
  BY <1>0, PassedLand
<1>a2. Bookkeeping(fps, d, pin, l.net) => k.net = ""
  BY <1>0, PassedNet
<1>a3. ~Bookkeeping(fps, d, pin, l.net) => k.net = l.net
  BY <1>0, PassedNet
<1>a4. Bookkeeping(one, e, pin, k.net) => p.net = ""
  BY <1>0, PassedNet
<1>a5. ~Bookkeeping(one, e, pin, k.net) => p.net = k.net
  BY <1>0, SecondKeeps
<1>b0. q \in {l, [l EXCEPT !.net = ""]}
  BY <1>0, KeptOrBare
<1>b2. Bookkeeping(fps, e, pin, l.net) => m.net = ""
  BY <1>0, PassedNet
<1>b3. ~Bookkeeping(fps, e, pin, l.net) => m.net = l.net
  BY <1>0, PassedNet
<1>b4. Bookkeeping(other, e, pin, m.net) => q.net = ""
  BY <1>0, PassedNet
<1>b5. ~Bookkeeping(other, e, pin, m.net) => q.net = m.net
  BY <1>0, SecondKeeps
<1>3. NormalizedName("", a) = ""
  BY DEF NormalizedName, NamesApart
<1>4. NormalizedName(p.net, a) = Shown(e, <<c.id, l.num>>, a)
  OBVIOUS
<1>5. p.net \in DOMAIN Bare \cup {""}
  BY <1>a1 DEF IsLand
<1>6. pin \in Loose(e) <=> <<c.id, l.num>> \notin Connected(e)
  <2>1. pin \in RefPins(e, Connected(e)) <=> <<c.id, l.num>> \in Connected(e)
    BY PinOfNet
  <2>2. pin \in RefPins(e, Pins(e))
    <3>1. <<c.id, l.num>> \in Pins(e)
      BY DEF Pins
    <3>2. ById(e.parts, c.id) = c
      BY DEF ValidDesign, Unique, ById
    <3> QED
      BY <3>1, <3>2 DEF RefPins
  <2> QED
    BY <2>1, <2>2 DEF Loose
<1> HIDE DEF p, q, k, m, one, other
<1>7. p.net = q.net
  <2>1. CASE <<c.id, l.num>> \in Connected(e)
    <3>1. Shown(e, <<c.id, l.num>>, a) # ""
      <4>1. PICK n \in e.nets : n = CHOOSE x \in e.nets : <<c.id, l.num>> \in x.ends
        BY <2>1 DEF Connected
      <4> QED
        BY <2>1, <4>1 DEF Shown, ExpectedName, NamesApart
    <3>2. p.net # ""
      BY <1>3, <1>4, <3>1
    <3>3. p.net = l.net
      BY <1>a2, <1>a3, <1>a4, <1>a5, <3>2
    <3>4. \A fs, net : ~Bookkeeping(fs, e, pin, net)
      BY <1>6, <2>1 DEF Bookkeeping, Loose
    <3>5. m.net = l.net
      BY <1>b2, <1>b3, <1>b4, <1>b5, <3>4
    <3>6. q.net = m.net
      BY <1>b2, <1>b3, <1>b4, <1>b5, <3>4
    <3> QED
      BY <3>3, <3>5, <3>6
  <2>2. CASE <<c.id, l.num>> \notin Connected(e)
    <3>1. p.net = ""
      <4>1. NormalizedName(p.net, a) = ""
        BY <1>4, <2>2 DEF Shown, ExpectedName
      <4> QED
        BY <1>5, <4>1 DEF NamesApart
    <3>2. pin \in Loose(e)
      BY <1>6, <2>2
    <3>3. m.net = "" => q.net = ""
      BY <1>b2, <1>b3, <1>b4, <1>b5
    <3>4. CASE l.net = ""
      BY <1>b2, <1>b3, <1>b4, <1>b5, <3>1, <3>3, <3>4
    <3>5. CASE l.net # ""
      <4>1. l.net = NcName[pin] /\ Members(fps, l.net) = {pin}
        <5>1. CASE Bookkeeping(fps, d, pin, l.net)
          BY <5>1 DEF Bookkeeping
        <5>2. CASE ~Bookkeeping(fps, d, pin, l.net)
          <6>1. k.net = l.net
            BY <1>a2, <1>a3, <1>a4, <1>a5, <5>2
          <6>2. Bookkeeping(one, e, pin, l.net)
            BY <1>a2, <1>a3, <1>a4, <1>a5, <3>1, <3>5, <6>1
          <6>3. l.net = NcName[pin] /\ Members(one, l.net) = {pin}
            BY <6>2 DEF Bookkeeping
          <6>4. pin \in Members(fps, l.net) /\ Members(fps, l.net) \subseteq Members(one, l.net)
            BY <5>2, MembersKept DEF one
          <6> QED
            BY <6>3, <6>4
        <5> QED
          BY <5>1, <5>2
      <4>2. l.net \notin {n.name : n \in e.nets}
        BY <3>2, <4>1 DEF NamesApart
      <4>3. Bookkeeping(fps, e, pin, l.net)
        BY <3>2, <4>1, <4>2 DEF Bookkeeping, Loose
      <4> QED
        BY <1>b2, <1>b3, <1>b4, <1>b5, <3>1, <3>3, <4>3
    <3> QED
      BY <3>4, <3>5
  <2> QED
    BY <2>1, <2>2
<1>8. p = q
  <2>1. l = [num |-> l.num, k |-> l.k, net |-> l.net]
    BY <1>0 DEF IsLand
  <2>2. ASSUME NEW w
        PROVE  [l EXCEPT !.net = w].net = w /\ (l.net = w => [l EXCEPT !.net = w] = l)
    BY <2>1
  <2>3. PICK w : w = ""
    OBVIOUS
  <2>4. p \in {l, [l EXCEPT !.net = w]} /\ q \in {l, [l EXCEPT !.net = w]}
    BY <1>a0, <1>b0, <2>3
  <2> QED
    BY <1>7, <2>2, <2>4
<1> QED
  BY <1>8 DEF p, q

\* So a snapshot taken for another design, whose source-owned state is the
\* accepted one, has the state that a snapshot taken for the accepted one has.
LEMMA TakenAlike ==
    ASSUME NEW fps, NEW d, NEW e, NEW a, NEW s, \A f \in fps : IsFootprint(f),
           ValidDesign(e), NamesApart(e, a), Parity(s, e, a),
           CanonicalNets(CanonicalNets(fps, d), e) = CanonicalNets(s.source_owned.fps, e)
    PROVE  CanonicalNets(CanonicalNets(fps, e), e) = CanonicalNets(CanonicalNets(fps, d), e)
<1> DEFINE two == CanonicalNets(CanonicalNets(fps, d), e)
           P(f) == [f EXCEPT !.lands = {Passed(fps, d, e, f, l) : l \in f.lands}]
           Q(f) == [f EXCEPT !.lands = {Passed(fps, e, e, f, l) : l \in f.lands}]
<1>a. two = {P(f) : f \in fps}
  BY TwoPasses
<1>b. CanonicalNets(CanonicalNets(fps, e), e) = {Q(f) : f \in fps}
  BY TwoPasses
<1>1. two = {P(f) : f \in fps} /\ CanonicalNets(CanonicalNets(fps, e), e) = {Q(f) : f \in fps}
  BY <1>a, <1>b
<1>2. ASSUME NEW f \in fps
      PROVE  P(f) = Q(f)
  <2>0. IsFootprint(f)
    OBVIOUS
  <2>1. P(f).ref = f.ref /\ P(f).lands = {Passed(fps, d, e, f, l) : l \in f.lands}
    <3>1. f = [uuid |-> f.uuid, ref |-> f.ref, value |-> f.value, foot |-> f.foot,
               place |-> f.place, lands |-> f.lands]
      BY <2>0 DEF IsFootprint
    <3> QED
      BY <3>1
  <2>2. P(f) \in two
    BY <1>1
  <2> HIDE DEF P
  <2>3. PICK c \in e.parts : c.ref = f.ref
    BY <2>1, <2>2 DEF Parity
  <2>4. LandsAgree(P(f), c, e, a)
    BY <2>1, <2>2, <2>3 DEF Parity
  <2>5. ASSUME NEW l \in f.lands
        PROVE  Passed(fps, d, e, f, l) = Passed(fps, e, e, f, l)
    <3>1. Passed(fps, d, e, f, l) \in P(f).lands
      BY <2>1
    <3>2. Passed(fps, d, e, f, l).num = l.num
      BY <2>0, PassedLand
    <3>3. l.num \in c.pads
      BY <2>4, <3>1, <3>2 DEF LandsAgree, PadSet
    <3>5. NormalizedName(Passed(fps, d, e, f, l).net, a) = Shown(e, <<c.id, l.num>>, a)
      BY <2>4, <3>1, <3>2 DEF LandsAgree, Shown
    <3> QED
      BY <2>3, <3>3, <3>5, LandEndsSame
  <2> QED
    BY <2>5 DEF P
<1> HIDE DEF P, Q, two
<1>3. {P(f) : f \in fps} = {Q(f) : f \in fps}
  BY <1>2
<1> QED
  BY <1>1, <1>3 DEF two

\* A snapshot differs from the lock's in what the source owns exactly when the
\* boards differ after a pass for their own design and one for the lock's.
LEMMA DriftIs ==
    ASSUME NEW l, NEW b, NEW drawn, NEW d, NEW routed, NEW b2, NEW drawn2, NEW d2, NEW routed2,
           l.snapshot = SnapshotOf(b2, drawn2, d2, routed2)
    PROVE  ~Drifted(l, SnapshotOf(b, drawn, d, routed)) <=>
              /\ CanonicalNets(CanonicalNets(b.fps, d), l.design) =
                    CanonicalNets(CanonicalNets(b2.fps, d2), l.design)
              /\ b.outline = b2.outline /\ b.holes = b2.holes
<1> DEFINE Owns(s) == [s.source_owned EXCEPT !.fps = CanonicalNets(s.source_owned.fps, l.design)]
           A == CanonicalNets(CanonicalNets(b.fps, d), l.design)
           B == CanonicalNets(CanonicalNets(b2.fps, d2), l.design)
<1>1. ASSUME NEW c, NEW w, NEW e, NEW r
      PROVE  Owns(SnapshotOf(c, w, e, r)) =
                [fps |-> CanonicalNets(CanonicalNets(c.fps, e), l.design),
                 outline |-> c.outline, holes |-> c.holes]
  <2>1. SnapshotOf(c, w, e, r).source_owned =
          [fps |-> CanonicalNets(c.fps, e), outline |-> c.outline, holes |-> c.holes]
    BY DEF SnapshotOf
  <2>2. PICK x : x = CanonicalNets(c.fps, e)
    OBVIOUS
  <2>3. PICK y : y = CanonicalNets(x, l.design)
    OBVIOUS
  <2>4. [[fps |-> x, outline |-> c.outline, holes |-> c.holes] EXCEPT !.fps = y] =
          [fps |-> y, outline |-> c.outline, holes |-> c.holes]
    OBVIOUS
  <2> QED
    BY <2>1, <2>2, <2>3, <2>4
<1>2. Drifted(l, SnapshotOf(b, drawn, d, routed)) <=>
         Owns(SnapshotOf(b, drawn, d, routed)) # Owns(SnapshotOf(b2, drawn2, d2, routed2))
  BY DEF Drifted
<1> HIDE DEF Owns, A, B
<1>3. /\ Owns(SnapshotOf(b, drawn, d, routed)) = [fps |-> A, outline |-> b.outline, holes |-> b.holes]
      /\ Owns(SnapshotOf(b2, drawn2, d2, routed2)) = [fps |-> B, outline |-> b2.outline, holes |-> b2.holes]
  BY <1>1 DEF A, B
<1>4. [fps |-> A, outline |-> b.outline, holes |-> b.holes] =
         [fps |-> B, outline |-> b2.outline, holes |-> b2.holes] <=>
      A = B /\ b.outline = b2.outline /\ b.holes = b2.holes
  OBVIOUS
<1> QED
  BY <1>2, <1>3, <1>4 DEF A, B

\* Whatever design a snapshot is taken for, when it does not differ from the
\* lock's, neither does the board.
LEMMA TakenAsAccepted ==
    ASSUME AllApart, Made, lock # None, IsBoard(board), NEW d, NEW routed,
           ~Drifted(lock, SnapshotOf(board, sch, d, routed))
    PROVE  SourceAsAccepted(board)
<1>1. IsAccepted(lock) /\ IsTaken(lock.snapshot)
  BY DEF Made
<1>2. PICK b2, drawn2, d2, routed2 : lock.snapshot = SnapshotOf(b2, drawn2, d2, routed2)
  BY <1>1 DEF IsTaken
<1>3. /\ ValidDesign(lock.design) /\ NamesApart(lock.design, lock.augmentation)
      /\ Parity(lock.snapshot, lock.design, lock.augmentation)
  BY <1>1, Apart DEF IsAccepted
<1>4. \A f \in board.fps : IsFootprint(f)
  BY DEF IsBoard
<1>5. lock.snapshot.source_owned.fps = CanonicalNets(b2.fps, d2)
  BY <1>2 DEF SnapshotOf
<1>6. /\ CanonicalNets(CanonicalNets(board.fps, d), lock.design) =
            CanonicalNets(CanonicalNets(b2.fps, d2), lock.design)
      /\ board.outline = b2.outline /\ board.holes = b2.holes
  BY <1>2, DriftIs
<1>7. CanonicalNets(CanonicalNets(board.fps, d), lock.design) =
         CanonicalNets(lock.snapshot.source_owned.fps, lock.design)
  BY <1>5, <1>6
<1>9. CanonicalNets(CanonicalNets(board.fps, lock.design), lock.design) =
         CanonicalNets(CanonicalNets(board.fps, d), lock.design)
  <2> DEFINE fps == board.fps
             e == lock.design
             a == lock.augmentation
             s == lock.snapshot
  <2>1. /\ ValidDesign(e) /\ NamesApart(e, a) /\ Parity(s, e, a)
        /\ \A f \in fps : IsFootprint(f)
        /\ CanonicalNets(CanonicalNets(fps, d), e) = CanonicalNets(s.source_owned.fps, e)
    BY <1>3, <1>4, <1>7
  <2> HIDE DEF fps, e, a, s
  <2>2. CanonicalNets(CanonicalNets(fps, e), e) = CanonicalNets(CanonicalNets(fps, d), e)
    BY <2>1, TakenAlike
  <2> QED
    BY <2>2 DEF fps, e
<1>8. ~Drifted(lock, SnapshotOf(board, sch, lock.design, FALSE))
  <2>1. CanonicalNets(CanonicalNets(board.fps, lock.design), lock.design) =
           CanonicalNets(CanonicalNets(b2.fps, d2), lock.design)
    BY <1>6, <1>9
  <2>2. \A e, r : ~Drifted(lock, SnapshotOf(board, sch, e, r)) <=>
           /\ CanonicalNets(CanonicalNets(board.fps, e), lock.design) =
                 CanonicalNets(CanonicalNets(b2.fps, d2), lock.design)
           /\ board.outline = b2.outline /\ board.holes = b2.holes
    BY <1>2, DriftIs
  <2> QED
    BY <1>6, <2>1, <2>2, Zenon
<1> QED
  BY <1>8 DEF SourceAsAccepted

\* The states that a later ECO may start from are among the ones noted.
Noted ==
    lock # None =>
       /\ SourceAsAccepted(board) => Owned(board) \in starts
       /\ before # None /\ ~Drifted(lock, before) => before.kicad_owned \in starts

\* Every step notes the states it must.
LEMMA NotedKept == ASSUME AllApart, Made, Noted, [Next]_vars PROVE Noted'
<1>1. CASE UNCHANGED vars
  BY <1>1 DEF vars, Noted, SourceAsAccepted
<1>2. CASE Adopts
  <2>1. before = None /\ before' = before /\ starts' = {Owned(board')}
    BY <1>2 DEF Adopts, Adopt, Made
  <2>2. Owned(board)' = Owned(board')
    BY DEF Owned
  <2> QED
    BY <2>1, <2>2 DEF Noted
<1>3. CASE Authors
  BY <1>3 DEF Authors, Author, Noted, SourceAsAccepted
<1>4. CASE Draws
  <2>1. PICK b, s : Draw(b, s)
    BY <1>4 DEF Draws
  <2>2. /\ lock # None /\ board' = b /\ sch' = s
        /\ starts' = (IF SourceAsAccepted(b) THEN starts \cup {Owned(b)} ELSE starts)
        /\ UNCHANGED <<before, lock>>
    BY <2>1 DEF Draw
  <2>3. Drifted(lock, SnapshotOf(b, s, lock.design, FALSE)) <=>
           Drifted(lock, SnapshotOf(b, sch, lock.design, FALSE))
    BY DEF Drifted, SnapshotOf
  <2>4. SourceAsAccepted(board)' => SourceAsAccepted(b)
    BY <2>2, <2>3 DEF SourceAsAccepted
  <2>5. starts \subseteq starts' /\ (SourceAsAccepted(b) => Owned(b) \in starts')
    BY <2>2
  <2>6. Owned(board)' = Owned(b)
    BY <2>2 DEF Owned
  <2> QED
    BY <2>2, <2>4, <2>5, <2>6 DEF Noted
<1>5. CASE Takes
  <2>1. PICK d, a : \E flag \in Flags : TakeBefore(d, a, flag)
    BY <1>5 DEF Takes
  <2>2. PICK flag \in Flags : TakeBefore(d, a, flag)
    BY <2>1
  <2>3. PICK routed \in RoutedState(board, flag) : before' = SnapshotOf(board, sch, d, routed)
    BY <2>2 DEF TakeBefore
  <2>4. lock # None /\ UNCHANGED <<board, sch, lock, starts>>
    BY <2>2 DEF TakeBefore
  <2>5. IsBoard(board)
    BY <2>4 DEF Made
  <2>6. before'.kicad_owned = Owned(board)
    BY <2>3 DEF SnapshotOf, Owned
  <2>7. ~Drifted(lock, before') => SourceAsAccepted(board)
    BY <2>3, <2>4, <2>5, TakenAsAccepted
  <2>8. SourceAsAccepted(board)' = SourceAsAccepted(board) /\ Owned(board)' = Owned(board)
    BY <2>4 DEF SourceAsAccepted, Owned
  <2> QED
    BY <2>4, <2>6, <2>7, <2>8 DEF Noted
<1>6. CASE Accepts
  <2>1. PICK flag \in Flags : \E routed : Recorded(flag, routed)
    BY <1>6, AcceptMade
  <2>2. starts' = {Owned(board), before.kicad_owned} /\ UNCHANGED <<board, before>>
    BY <2>1 DEF Recorded
  <2> QED
    BY <2>2 DEF Noted, Owned
<1> QED
  BY <1>1, <1>2, <1>3, <1>4, <1>5, <1>6, Actions

\* A change of parts is what lets graphics differ.
LEMMA PartsDiffer ==
    ASSUME NEW old, NEW new, ValidDesign(old), ValidDesign(new), old.parts = new.parts,
           NEW kind \in {"component_add", "component_remove", "footprint", "placement",
                         "reference", "value"}
    PROVE  kind \notin Kinds(old, new)
<1> DEFINE ch == ClassifyChanges(old, new)
<1>0. \A x \in new.parts : ById(old.parts, x.id) = x /\ x.id \in Ids(old.parts)
  BY DEF ValidDesign, Unique, ById, Ids
<1>1. /\ Gained(old.parts, new.parts) = {} /\ Gained(new.parts, old.parts) = {}
  BY DEF Gained, Ids
<1>2. /\ Altered(old.parts, new.parts, LAMBDA c : c.foot) = {}
      /\ Altered(old.parts, new.parts, LAMBDA c : c.place) = {}
      /\ Altered(old.parts, new.parts, LAMBDA c : c.ref) = {}
      /\ Altered(old.parts, new.parts, LAMBDA c : c.value) = {}
  BY <1>0 DEF Altered
<1>3. ASSUME NEW k, Lists(ch, k, {})
      PROVE  k \notin Kinds(old, new)
  <2>1. Change(k, {}) = {}
    BY DEF Change
  <2> QED
    BY <1>3, <2>1 DEF Lists, Kinds
<1>4. Lists(ch, "component_add", {}) /\ Lists(ch, "component_remove", {})
  BY <1>1, ChangesListed
<1>5. Lists(ch, "footprint", {})
  BY <1>2, ChangesListed
<1>6. Lists(ch, "placement", {})
  BY <1>2, ChangesListed
<1>7. Lists(ch, "reference", {})
  BY <1>2, ChangesListed
<1>8. Lists(ch, "value", {})
  BY <1>2, ChangesListed
<1> HIDE DEF ch
<1> QED
  BY <1>3, <1>4, <1>5, <1>6, <1>7, <1>8

\* What KicadOwnedKept says of one step.
OwnedAsDeclared ==
    lock # None /\ lock' # lock =>
         LET ops == ChangedOps(lock.augmentation, lock'.augmentation)
             after == lock'.snapshot.kicad_owned
             about == {op.kind : op \in ops} IN
         \E s \in starts :
            /\ \A t \in s.tracks \ after.tracks : \E op \in ops \ lock.augmentation :
                  op.kind = "routing_clear" /\ t.uuid \in op.p.uuids
            /\ \A t \in after.tracks \ s.tracks : \E op \in ops \ lock.augmentation :
                  op.kind = "routing_add" /\ t \in op.p.tracks
            /\ s.zones # after.zones => about \cap {"zone", "keepout"} # {}
            /\ s.vias # after.vias => "via" \in about
            /\ s.rules # after.rules =>
                  about \cap {"custom_rule", "impedance", "net_class", "stackup"} # {}
            /\ s.graphics # after.graphics =>
                  \/ lock.design.parts # lock'.design.parts
                  \/ about \cap {"fabrication_note", "keepout", "mask_override", "paste_override",
                                 "pofv", "silkscreen"} # {}

\* Every step is as KicadOwnedKept says.
LEMMA StepOwned == ASSUME AllApart, Made, Noted, [Next]_vars PROVE OwnedAsDeclared
<1> SUFFICES ASSUME lock # None, lock' # lock
             PROVE  OwnedAsDeclared
  BY DEF OwnedAsDeclared
<1>1. PICK flag \in Flags : \E routed : Recorded(flag, routed)
  BY LockMoves, AcceptMade
<1>2. PICK routed : Recorded(flag, routed)
  BY <1>1
<1> DEFINE new == SnapshotOf(board, sch, source, routed)
           ops == ChangedOps(lock.augmentation, augmentation)
           about == {op.kind : op \in ops}
           s == before.kicad_owned
           after == new.kicad_owned
           routing == RoutingOps(lock.augmentation, augmentation)
<1>3. /\ lock'.design = source /\ lock'.augmentation = augmentation /\ lock'.snapshot = new
      /\ ValidDesign(lock.design) /\ ValidDesign(source)
  BY <1>2 DEF Recorded, Lock, Made, IsAccepted
<1>4. s \in starts
  BY <1>2 DEF Recorded, PlanBlocked, Noted
<1>5. /\ TracksAsDeclared(routing, before, new)
      /\ \A k \in KicadOwned \ ({"tracks"} \cup Authorized(ClassifyChanges(lock.design, source), ops)) :
            s[k] = after[k]
  BY <1>2 DEF Recorded, Preserved
<1>6. \A op \in routing : op \in ops \ lock.augmentation
  BY DEF RoutingOps, ChangedOps
<1>7. ASSUME NEW t \in s.tracks \ after.tracks
      PROVE  \E op \in ops \ lock.augmentation : op.kind = "routing_clear" /\ t.uuid \in op.p.uuids
  <2> HIDE DEF s, after, ops, routing
  <2>1. t.uuid \in UNION {op.p.uuids : op \in {o \in routing : o.kind = "routing_clear"}}
    BY <1>5 DEF TracksAsDeclared, s, after
  <2> QED
    BY <1>6, <2>1
<1>8. ASSUME NEW t \in after.tracks \ s.tracks
      PROVE  \E op \in ops \ lock.augmentation : op.kind = "routing_add" /\ t \in op.p.tracks
  <2> HIDE DEF s, after, ops, routing
  <2>1. t \in UNION {op.p.tracks : op \in {o \in routing : o.kind = "routing_add"}}
    BY <1>5 DEF TracksAsDeclared, s, after
  <2> QED
    BY <1>6, <2>1
<1> HIDE DEF new, ops, s, after, routing
<1>9. ASSUME NEW k \in {"vias", "zones", "graphics", "rules"}, s[k] # after[k]
      PROVE  k \in Authorized(ClassifyChanges(lock.design, source), ops)
  <2>1. k \in KicadOwned /\ k # "tracks"
    BY DEF KicadOwned
  <2> QED
    BY <1>5, <1>9, <2>1
<1>10. s.zones # after.zones => about \cap {"zone", "keepout"} # {}
  BY <1>9 DEF Authorized
<1>11. s.vias # after.vias => "via" \in about
  BY <1>9 DEF Authorized
<1>12. s.rules # after.rules => about \cap {"custom_rule", "impedance", "net_class", "stackup"} # {}
  BY <1>9 DEF Authorized
<1>13. ASSUME s.graphics # after.graphics
       PROVE  \/ lock.design.parts # source.parts
              \/ about \cap {"fabrication_note", "keepout", "mask_override", "paste_override",
                             "pofv", "silkscreen"} # {}
  <2>1. "graphics" \in Authorized(ClassifyChanges(lock.design, source), ops)
    BY <1>9, <1>13
  <2>2. \/ Kinds(lock.design, source) \cap {"component_add", "component_remove",
                 "footprint", "placement", "reference", "value"} # {}
        \/ about \cap {"fabrication_note", "keepout", "mask_override", "paste_override",
                       "pofv", "silkscreen"} # {}
    BY <2>1 DEF Authorized, Kinds
  <2>3. lock.design.parts = source.parts =>
           Kinds(lock.design, source) \cap {"component_add", "component_remove",
                 "footprint", "placement", "reference", "value"} = {}
    BY <1>3, PartsDiffer
  <2> QED
    BY <2>2, <2>3
<1>14. /\ ops = ChangedOps(lock.augmentation, lock'.augmentation)
       /\ after = lock'.snapshot.kicad_owned
  BY <1>3 DEF ops, after, new
<1> QED
  BY <1>3, <1>4, <1>7, <1>8, <1>10, <1>11, <1>12, <1>13, <1>14 DEF OwnedAsDeclared

\* Before the first handoff there is nothing to note.
LEMMA NotedAtInit == Init => Noted
BY DEF Init, Noted

\* Where the author's names tell nets apart, an accepted ECO changes what
\* KiCad owns, from a board whose source-owned state was the accepted one or
\* from the snapshot an earlier ECO started from, by the tracks its routing
\* operations name and in the categories its operations and its changes of
\* parts are about, and no more.
THEOREM NothingElseChanges == ASSUME AllApart PROVE Spec => KicadOwnedKept
<1>1. Made /\ Noted /\ [Next]_vars => Noted'
  BY NotedKept
<1>2. Made /\ Noted /\ [Next]_vars => OwnedAsDeclared
  BY StepOwned
<1> QED
  BY <1>1, <1>2, AlwaysMade, NotedAtInit, PTL DEF Spec, KicadOwnedKept, OwnedAsDeclared

====
