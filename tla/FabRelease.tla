----------------------------- MODULE FabRelease -----------------------------
(***************************************************************************)
(* Runs of the fabrication generator (pcb/tools/jlc_fab.py) over a board   *)
(* whose files the designer saves at any time, between two of its calls of *)
(* kicad-cli too.  A run may fail or be killed at any of its steps; what   *)
(* it wrote before stays, and the file it was writing may be torn.  What   *)
(* is uploaded is what the last runs left in fab/.                         *)
(***************************************************************************)
EXTENDS FabChecks

CONSTANTS
    Layouts, Schematics, ProbeMaps, SourceMaps,   \* what a version of a file says
    Versions,    \* the versions of its files a board may have, "none" for no file
    MaxSaves,    \* how often the designer saves
    MaxRuns,     \* how often the generator is run
    Tearable     \* the files a run may leave torn, one at a time

ASSUME ReleaseAssumption ==
    /\ MaxSaves \in Nat /\ MaxRuns \in Nat
    /\ \A k \in Kinds : \A f \in {"pcb", "sch", "probes", "map", "doc"} : 1 \in DOMAIN Versions[k][f]

VARIABLES
    kind,      \* the board
    disk,      \* the version of each file the designer keeps
    fab,       \* what fab/ holds
    run,       \* the run: its steps left, what it read for later steps
    saves,     \* by the designer
    runs,      \* of the generator
    steady,    \* history: nothing was saved since the run began
    settled    \* history: the manifest was written by such a run

vars == <<kind, disk, fab, run, saves, runs, steady, settled>>

DiskFiles == {"pcb", "sch", "probes", "map", "doc"}

FabFiles == {"notes", "orientation", "preview", "critical", "zip", "stencil",
             "bom", "assembly", "hand", "cpl", "manifest"}

Absent == [none |-> TRUE]
Torn == [torn |-> TRUE]
Made(x) == [of |-> x]

Content(f) ==
    IF f \in FabFiles THEN fab[f]
    ELSE IF disk[f] = "none" THEN Absent ELSE Made(disk[f])

Board == Layouts[disk.pcb]
Schematic == Schematics[disk.sch]

Idle == [left |-> {}, full |-> FALSE, judged |-> "none", bom |-> <<"none", "none">>]

\* The order of the main program.
Place == [Drc |-> 1, Erc |-> 2, Capture |-> 3, Probe |-> 4, Judge |-> 5, Notes |-> 6, Locator |-> 7,
          Orientation |-> 8, Preview |-> 9, Critical |-> 10, Clear |-> 11, Gerbers |-> 12,
          Drill |-> 13, Stack |-> 14, Zip |-> 15, Stencil |-> 16, Bom |-> 17, Assembly |-> 18,
          Hand |-> 19, Coverage |-> 20, Cpl |-> 21, Unbind |-> 22, Bind |-> 23, Done |-> 24]

\* The steps of a run.  Without a full run neither the gate nor the Gerber
\* export takes place.
Steps(k, full) ==
    LET If(c, steps) == IF c THEN steps ELSE {}
        v2 == k = "pcb-01-v2"
        v3 == k = "pcb-03" IN
    If(full /\ v2, {"Drc", "Erc", "Capture", "Probe"}) \cup If(full /\ v3, {"Drc", "Judge"}) \cup
    If(v2, {"Notes", "Locator", "Orientation", "Preview", "Critical"}) \cup
    If(full, {"Clear", "Gerbers", "Drill", "Zip"}) \cup If(full /\ v2, {"Stack"}) \cup
    If(full /\ v3, {"Stencil"}) \cup
    If(BOARDS[k].assembly, {"Bom", "Assembly", "Hand", "Coverage", "Cpl"}) \cup
    If(v2 /\ ~full, {"Unbind"}) \cup If(full /\ (v2 \/ v3), {"Bind"}) \cup {"Done"}

Doing(step) == step \in run.left /\ \A s \in run.left : Place[step] <= Place[s]

Onward(step) == run' = [run EXCEPT !.left = @ \ {step}]

Keep == UNCHANGED <<kind, disk, saves, runs, steady>>

\* A step that only looks.
Look(step) == Doing(step) /\ Keep /\ UNCHANGED <<fab, settled>>

\* A step that writes one file.
Emit(step, file, x) ==
    /\ Doing(step) /\ Onward(step) /\ Keep /\ UNCHANGED settled
    /\ fab' = [fab EXCEPT ![file] = Made(x)]

Init ==
    /\ kind \in Kinds
    /\ disk = [f \in DiskFiles |-> Versions[kind][f][1]]
    /\ fab = [f \in FabFiles \cup {"gerbers"} |-> IF f = "gerbers" THEN {} ELSE Absent]
    /\ run = Idle /\ saves = 0 /\ runs = 0 /\ steady = TRUE /\ settled = TRUE

Save(f, version) ==
    /\ saves < MaxSaves /\ saves' = saves + 1
    /\ version # disk[f]
    /\ disk' = [disk EXCEPT ![f] = version]
    /\ steady' = FALSE
    /\ UNCHANGED <<kind, fab, run, runs, settled>>

Start(full) ==
    /\ run.left = {}
    /\ runs < MaxRuns /\ runs' = runs + 1
    /\ run' = [Idle EXCEPT !.left = Steps(kind, full), !.full = full]
    /\ steady' = TRUE
    /\ UNCHANGED <<kind, disk, fab, saves, settled>>

-----------------------------------------------------------------------------
(* The gate: each check reads the files as they are saved then, and the    *)
(* DRC report is judged at the end.                                        *)

RunDrc ==
    /\ Look("Drc")
    /\ run' = [run EXCEPT !.left = @ \ {"Drc"}, !.judged = disk.pcb]

RunErc == Look("Erc") /\ Schematic.erc = {} /\ Onward("Erc")

CheckCapture == Look("Capture") /\ Captured(Schematic) /\ Onward("Capture")

\* a slip: the unconnected items are not looked at.
CleanOfFindings(findings, loose) == findings = {}

CleanDrc(findings, loose) == findings = {} /\ loose = {}

CheckProbes ==
    /\ Look("Probe") /\ disk.probes # "none" /\ Probed(Board, ProbeMaps[disk.probes])
    /\ CleanDrc(Active(Layouts[run.judged].findings), Layouts[run.judged].loose)
    /\ Onward("Probe")

\* PCB-03 waives nothing.  Its ERC report is read for findings at the top
\* level, where KiCad puts none: they are listed under its sheets.
ErcAtTop(s) == {}

Judge ==
    /\ Look("Judge")
    /\ CleanDrc(Layouts[run.judged].findings, Layouts[run.judged].loose)
    /\ ErcAtTop(Schematic) = {}
    /\ Onward("Judge")

-----------------------------------------------------------------------------
(* The documents of PCB-01 V2, each from the board as it is saved then.    *)

WriteNotes == Filled(Board) /\ Emit("Notes", "notes", disk.pcb)

CheckLocator == Look("Locator") /\ Located(Board) /\ Onward("Locator")

WriteOrientation == Board.bounds = "frozen" /\ Emit("Orientation", "orientation", disk.pcb)

RenderPreview == Emit("Preview", "preview", disk.pcb)

WriteCritical == Oriented(Board) /\ Emit("Critical", "critical", disk.pcb)

-----------------------------------------------------------------------------
(* export_gerbers.                                                         *)

\* a slip: the directory is taken as it is.
KeepOld == Look("Clear") /\ Onward("Clear")

ClearOld ==
    /\ Doing("Clear") /\ Onward("Clear") /\ Keep /\ UNCHANGED settled
    /\ fab' = [fab EXCEPT !.gerbers = {}]

\* Plotting replaces the files whose names it writes.
Plot(step, names) ==
    /\ Doing(step) /\ Onward(step) /\ Keep /\ UNCHANGED settled
    /\ fab' = [fab EXCEPT !.gerbers = {f \in @ : f.name \notin names} \cup
                                      {[name |-> n, of |-> disk.pcb] : n \in names}]

Drills(l) == {"PTH"} \cup (IF l.npth THEN {"NPTH"} ELSE {})

ExportGerbers == Plot("Gerbers", Plots)

ExportDrill == Plot("Drill", Drills(Board))

\* The job file is bound to the live stack, if it has the names it should.
BindStack ==
    /\ Look("Stack") /\ Onward("Stack")
    /\ \A f \in fab.gerbers : f.name = "job" => StackNames \subseteq Layouts[f.of].stack

ZipGerbers == Emit("Zip", "zip", fab.gerbers)

ZipStencil ==
    LET paste == {f \in fab.gerbers : f.name \in {"F.Paste", "Edge.Cuts"}} IN
    Cardinality(paste) = 2 /\ Emit("Stencil", "stencil", paste)

-----------------------------------------------------------------------------
(* export_bom and export_cpl.                                              *)

Map == IF disk.map = "none" THEN <<>> ELSE SourceMaps[disk.map]

Drawn == Schematics[run.bom[1]]
DrawnRows == BomRows(kind, Drawn, IF run.bom[2] = "none" THEN <<>> ELSE SourceMaps[run.bom[2]])

WriteBom ==
    LET rows == BomRows(kind, Schematic, Map) IN
    /\ Doing("Bom") /\ Keep /\ UNCHANGED settled
    /\ SourceMapped(Map)
    /\ AssertRefPartition(rows, Expected(kind, Schematic), AllRefs(Schematic) \ Expected(kind, Schematic))
    /\ fab' = [fab EXCEPT !.bom = Made([i \in DOMAIN rows |->
                  [comment |-> rows[i].comment, refs |-> rows[i].refs,
                   foot |-> rows[i].foot, lcsc |-> rows[i].lcsc]])]
    /\ run' = [run EXCEPT !.left = @ \ {"Bom"}, !.bom = <<disk.sch, disk.map>>]

WriteAssembly == Emit("Assembly", "assembly", DrawnRows)

DrawnHand == HandRows(kind, Drawn, IF run.bom[2] = "none" THEN <<>> ELSE SourceMaps[run.bom[2]])

WriteHand == Emit("Hand", "hand", DrawnHand)

\* The files are there already when they are found to be incomplete.
CheckCoverage ==
    /\ Look("Coverage") /\ Onward("Coverage")
    /\ Listing(DrawnHand) = BOARDS[kind].hand
    /\ BOARDS[kind].priced => Priced(DrawnRows)

WriteCpl ==
    LET expected == Expected(kind, Drawn)
        forbidden == AllRefs(Drawn) \ expected IN
    /\ Classified(kind, Board, expected, forbidden)
    /\ AssertRefPartition(CplRows(kind, Board), expected,
          forbidden \cup {ref \in Placed(Board) : Excluded(kind, ref)})
    /\ Emit("Cpl", "cpl", CplRows(kind, Board))

-----------------------------------------------------------------------------
(* The release manifest.                                                   *)

\* a slip: the documents and the sources are bound, and the upload is not.
ListedSources(k) == {"pcb", "sch", "doc"}

Listed(k) ==
    IF k = "pcb-03" THEN {"pcb", "sch", "zip", "stencil", "doc"}
    ELSE DiskFiles \cup {"zip", "bom", "cpl", "assembly", "hand", "notes", "orientation",
                         "critical", "preview"}

WriteManifest ==
    /\ Doing("Bind") /\ Onward("Bind") /\ Keep
    /\ \A f \in Listed(kind) : Content(f) # Absent
    /\ fab' = [fab EXCEPT !.manifest = Made([f \in Listed(kind) |-> Content(f)])]
    /\ settled' = steady

\* a slip: an assembly-only run leaves the manifest where it is.
LeaveManifest == Look("Unbind") /\ Onward("Unbind")

UnlinkManifest ==
    /\ Doing("Unbind") /\ Onward("Unbind") /\ Keep /\ UNCHANGED settled
    /\ fab' = [fab EXCEPT !.manifest = Absent]

Finish == Look("Done") /\ Onward("Done")

\* A check refuses, a program it calls fails, or it is killed: the run is over.
Written ==
    CASE run.left = {} -> {}
      [] Doing("Notes") -> {"notes"} [] Doing("Orientation") -> {"orientation"}
      [] Doing("Preview") -> {"preview"} [] Doing("Critical") -> {"critical"}
      [] Doing("Zip") -> {"zip"} [] Doing("Stencil") -> {"stencil"}
      [] Doing("Bom") -> {"bom"} [] Doing("Assembly") -> {"assembly"}
      [] Doing("Hand") -> {"hand"} [] Doing("Cpl") -> {"cpl"}
      [] Doing("Bind") -> {"manifest"} [] OTHER -> {}

Fail ==
    /\ run.left # {} /\ run' = Idle /\ Keep /\ UNCHANGED settled
    /\ \E torn \in SUBSET (Written \cap Tearable) :
          /\ torn # {} => \A f \in FabFiles : fab[f] # Torn
          /\ fab' = [f \in DOMAIN fab |-> IF f \in torn THEN Torn ELSE fab[f]]

Gate == RunDrc \/ RunErc \/ CheckCapture \/ CheckProbes \/ Judge

Documents == WriteNotes \/ CheckLocator \/ WriteOrientation \/ RenderPreview \/ WriteCritical

Upload == ClearOld \/ ExportGerbers \/ ExportDrill \/ BindStack \/ ZipGerbers \/ ZipStencil

Assembly == WriteBom \/ WriteAssembly \/ WriteHand \/ CheckCoverage \/ WriteCpl

Next ==
    \/ \E f \in DiskFiles : \E i \in DOMAIN Versions[kind][f] : Save(f, Versions[kind][f][i])
    \/ \E full \in BOOLEAN : Start(full)
    \/ Gate \/ Documents \/ Upload \/ Assembly
    \/ WriteManifest \/ UnlinkManifest \/ Finish \/ Fail

Spec == Init /\ [][Next]_vars

-----------------------------------------------------------------------------
(* Properties.                                                             *)

\* Types: a run has the steps of its board left, and the files are of the
\* versions there are.
TypeOK ==
    /\ kind \in Kinds /\ saves \in 0 .. MaxSaves /\ runs \in 0 .. MaxRuns /\ steady \in BOOLEAN /\ settled \in BOOLEAN
    /\ \A f \in DiskFiles : disk[f] \in ToSet(Versions[kind][f])
    /\ DOMAIN fab = FabFiles \cup {"gerbers"}
    /\ run.left \subseteq Steps(kind, run.full)
    /\ \A s \in Steps(kind, run.full) \ run.left, t \in run.left : Place[s] < Place[t]
    /\ fab.manifest \notin {Absent, Torn} => DOMAIN fab.manifest.of = Listed(kind)

\* What shasum -c says of the manifest, as ORDERING.md has it checked before an
\* upload: every file it lists is what it was.
Verifies ==
    /\ fab.manifest \notin {Absent, Torn}
    /\ \A f \in DOMAIN fab.manifest.of : Content(f) = fab.manifest.of[f]

\* The placement file and the BOM name the same parts, each once and none that
\* is excluded; the parts left over for the bench are the board's.
Agrees ==
    /\ {Absent, Torn} \cap {fab.bom, fab.cpl, fab.assembly, fab.hand} = {}
    /\ Once(fab.bom.of) /\ Once(fab.cpl.of)
    /\ Listing(fab.bom.of) = Listing(fab.cpl.of) /\ Listing(fab.bom.of) = Listing(fab.assembly.of)
    /\ \A ref \in Listing(fab.bom.of) : ~Excluded(kind, ref)
    /\ Listing(fab.hand.of) = BOARDS[kind].hand
    /\ BOARDS[kind].priced => Priced(fab.assembly.of)

\* A run that ends well leaves assembly files that agree, though they come from
\* two files the designer may save in between (export_bom, export_cpl).
AssemblyAgrees == Doing("Done") /\ BOARDS[kind].assembly => Agrees

\* The upload is all the files of one plot of a board and of one drill export,
\* and no file of an earlier one (export_gerbers).
Whole(files) ==
    \E a, b \in {f.of : f \in files} :
       files = {[name |-> n, of |-> a] : n \in Plots} \cup
               {[name |-> n, of |-> b] : n \in Drills(Layouts[b])}

ZipWhole == fab.zip \in {Absent, Torn} \/ Whole(fab.zip.of)

\* The package is of a piece: its archive of one plot, its assembly files of
\* one set of parts, after any run that ended, failed or was killed.
PackageAgrees == TypeOK /\ AssemblyAgrees /\ ZipWhole

\* While the gate's sources are left alone, no upload comes of a board or a
\* schematic it should refuse, a later failure of the run notwithstanding
\* ("Refuse to emit orderable V2 Gerbers from an unrouted or failing board").
\* PCB-03's ERC findings, which its gate does not see, are left out.
Releasable(pcb, sch) ==
    LET l == Layouts[pcb]  s == Schematics[sch] IN
    /\ kind \in {"pcb-01-v2", "pcb-03"} => l.loose = {}
    /\ kind = "pcb-03" => l.findings = {}
    /\ kind = "pcb-01-v2" =>
          /\ \A v \in l.findings : \A item \in v.items :
                item.uuid \in EscapeVias \cup DOMAIN TrackWidths
          /\ s.erc = {} /\ Captured(s)

UploadIsGated ==
    [][fab'.zip \notin {fab.zip, Torn} /\ steady => Releasable(disk.pcb, disk.sch)]_vars

\* A manifest that verifies speaks for a package that is whole, and, unless the
\* designer saved during the run that wrote it, for one that comes from the
\* very sources it lists, which the gate let pass: after any runs that failed,
\* were killed or were assembly-only, and files put back to what they were.
ManifestSpeaksTrue ==
    Verifies =>
       /\ fab.zip \notin {Absent, Torn} /\ Whole(fab.zip.of)
       /\ kind = "pcb-01-v2" => Agrees
       /\ settled =>
             /\ Releasable(disk.pcb, disk.sch)
             /\ \A f \in fab.zip.of : f.of = disk.pcb
             /\ kind = "pcb-01-v2" =>
                   /\ {fab.notes, fab.orientation, fab.critical, fab.preview} = {Made(disk.pcb)}
                   /\ fab.cpl = Made(CplRows(kind, Board))
                   /\ fab.assembly = Made(BomRows(kind, Schematic, Map))
             /\ kind = "pcb-03" => fab.stencil.of \subseteq fab.zip.of

\* A run that ends well leaves no manifest that denies what is there.
NoStaleBinding ==
    Doing("Done") /\ steady /\ (kind = "pcb-01-v2" \/ run.full) => fab.manifest = Absent \/ Verifies
=============================================================================
