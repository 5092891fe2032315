--------------------------- MODULE FabReleaseProofs ---------------------------
(***************************************************************************)
(* Theorems about FabRelease, for any boards, versions of their files and  *)
(* waivers, and any number of saves and of runs.                           *)
(***************************************************************************)
EXTENDS FabRelease, TLAPS

AllFiles == FabFiles \cup {"gerbers"}

\* The step of each operation of a run.
Performs(s) ==
    \/ (s = "Drc" /\ RunDrc) \/ (s = "Erc" /\ RunErc)
    \/ (s = "Capture" /\ CheckCapture) \/ (s = "Probe" /\ CheckProbes)
    \/ (s = "Judge" /\ Judge) \/ (s = "Notes" /\ WriteNotes)
    \/ (s = "Locator" /\ CheckLocator) \/ (s = "Orientation" /\ WriteOrientation)
    \/ (s = "Preview" /\ RenderPreview) \/ (s = "Critical" /\ WriteCritical)
    \/ (s = "Clear" /\ ClearOld) \/ (s = "Gerbers" /\ ExportGerbers)
    \/ (s = "Drill" /\ ExportDrill) \/ (s = "Stack" /\ BindStack)
    \/ (s = "Zip" /\ ZipGerbers) \/ (s = "Stencil" /\ ZipStencil)
    \/ (s = "Bom" /\ WriteBom) \/ (s = "Assembly" /\ WriteAssembly)
    \/ (s = "Hand" /\ WriteHand) \/ (s = "Coverage" /\ CheckCoverage)
    \/ (s = "Cpl" /\ WriteCpl) \/ (s = "Unbind" /\ UnlinkManifest)
    \/ (s = "Bind" /\ WriteManifest) \/ (s = "Done" /\ Finish)

Saves == \E f \in DiskFiles : \E i \in DOMAIN Versions[kind][f] : Save(f, Versions[kind][f][i])

Starts == \E full \in BOOLEAN : Start(full)

StepNames ==
    {"Drc", "Erc", "Capture", "Probe", "Judge", "Notes", "Locator", "Orientation", "Preview",
     "Critical", "Clear", "Gerbers", "Drill", "Stack", "Zip", "Stencil", "Bom", "Assembly", "Hand",
     "Coverage", "Cpl", "Unbind", "Bind", "Done"}

LEMMA Actions == ASSUME Next PROVE Saves \/ Starts \/ Fail \/ \E s \in StepNames : Performs(s)
<1>a. Gate => \E s \in StepNames : Performs(s)
  <2>1. CASE RunDrc
    <3>1. Performs("Drc") /\ "Drc" \in StepNames
      BY <2>1 DEF Performs, StepNames
    <3> QED
      BY <3>1
  <2>2. CASE RunErc
    <3>1. Performs("Erc") /\ "Erc" \in StepNames
      BY <2>2 DEF Performs, StepNames
    <3> QED
      BY <3>1
  <2>3. CASE CheckCapture
    <3>1. Performs("Capture") /\ "Capture" \in StepNames
      BY <2>3 DEF Performs, StepNames
    <3> QED
      BY <3>1
  <2>4. CASE CheckProbes
    <3>1. Performs("Probe") /\ "Probe" \in StepNames
      BY <2>4 DEF Performs, StepNames
    <3> QED
      BY <3>1
  <2>5. CASE Judge
    <3>1. Performs("Judge") /\ "Judge" \in StepNames
      BY <2>5 DEF Performs, StepNames
    <3> QED
      BY <3>1
  <2> QED
    BY <2>1, <2>2, <2>3, <2>4, <2>5 DEF Gate
<1>b. Documents => \E s \in StepNames : Performs(s)
  <2>1. CASE WriteNotes
    <3>1. Performs("Notes") /\ "Notes" \in StepNames
      BY <2>1 DEF Performs, StepNames
    <3> QED
      BY <3>1
  <2>2. CASE CheckLocator
    <3>1. Performs("Locator") /\ "Locator" \in StepNames
      BY <2>2 DEF Performs, StepNames
    <3> QED
      BY <3>1
  <2>3. CASE WriteOrientation
    <3>1. Performs("Orientation") /\ "Orientation" \in StepNames
      BY <2>3 DEF Performs, StepNames
    <3> QED
      BY <3>1
  <2>4. CASE RenderPreview
    <3>1. Performs("Preview") /\ "Preview" \in StepNames
      BY <2>4 DEF Performs, StepNames
    <3> QED
      BY <3>1
  <2>5. CASE WriteCritical
    <3>1. Performs("Critical") /\ "Critical" \in StepNames
      BY <2>5 DEF Performs, StepNames
    <3> QED
      BY <3>1
  <2> QED
    BY <2>1, <2>2, <2>3, <2>4, <2>5 DEF Documents
<1>c. Upload => \E s \in StepNames : Performs(s)
  <2>1. CASE ClearOld
    <3>1. Performs("Clear") /\ "Clear" \in StepNames
      BY <2>1 DEF Performs, StepNames
    <3> QED
      BY <3>1
  <2>2. CASE ExportGerbers
    <3>1. Performs("Gerbers") /\ "Gerbers" \in StepNames
      BY <2>2 DEF Performs, StepNames
    <3> QED
      BY <3>1
  <2>3. CASE ExportDrill
    <3>1. Performs("Drill") /\ "Drill" \in StepNames
      BY <2>3 DEF Performs, StepNames
    <3> QED
      BY <3>1
  <2>4. CASE BindStack
    <3>1. Performs("Stack") /\ "Stack" \in StepNames
      BY <2>4 DEF Performs, StepNames
    <3> QED
      BY <3>1
  <2>5. CASE ZipGerbers
    <3>1. Performs("Zip") /\ "Zip" \in StepNames
      BY <2>5 DEF Performs, StepNames
    <3> QED
      BY <3>1
  <2>6. CASE ZipStencil
    <3>1. Performs("Stencil") /\ "Stencil" \in StepNames
      BY <2>6 DEF Performs, StepNames
    <3> QED
      BY <3>1
  <2> QED
    BY <2>1, <2>2, <2>3, <2>4, <2>5, <2>6 DEF Upload
<1>d. Assembly => \E s \in StepNames : Performs(s)
  <2>1. CASE WriteBom
    <3>1. Performs("Bom") /\ "Bom" \in StepNames
      BY <2>1 DEF Performs, StepNames
    <3> QED
      BY <3>1
  <2>2. CASE WriteAssembly
    <3>1. Performs("Assembly") /\ "Assembly" \in StepNames
      BY <2>2 DEF Performs, StepNames
    <3> QED
      BY <3>1
  <2>3. CASE WriteHand
    <3>1. Performs("Hand") /\ "Hand" \in StepNames
      BY <2>3 DEF Performs, StepNames
    <3> QED
      BY <3>1
  <2>4. CASE CheckCoverage
    <3>1. Performs("Coverage") /\ "Coverage" \in StepNames
      BY <2>4 DEF Performs, StepNames
    <3> QED
      BY <3>1
  <2>5. CASE WriteCpl
    <3>1. Performs("Cpl") /\ "Cpl" \in StepNames
      BY <2>5 DEF Performs, StepNames
    <3> QED
      BY <3>1
  <2> QED
    BY <2>1, <2>2, <2>3, <2>4, <2>5 DEF Assembly
<1>e. WriteManifest \/ UnlinkManifest \/ Finish => \E s \in StepNames : Performs(s)
  <2>1. CASE WriteManifest
    <3>1. Performs("Bind") /\ "Bind" \in StepNames
      BY <2>1 DEF Performs, StepNames
    <3> QED
      BY <3>1
  <2>2. CASE UnlinkManifest
    <3>1. Performs("Unbind") /\ "Unbind" \in StepNames
      BY <2>2 DEF Performs, StepNames
    <3> QED
      BY <3>1
  <2>3. CASE Finish
    <3>1. Performs("Done") /\ "Done" \in StepNames
      BY <2>3 DEF Performs, StepNames
    <3> QED
      BY <3>1
  <2> QED
    BY <2>1, <2>2, <2>3
<1> QED
  BY <1>a, <1>b, <1>c, <1>d, <1>e DEF Next, Saves, Starts

-----------------------------------------------------------------------------
(* The order of a run, and the types.                                      *)

\* A run has the last of its board's steps left.
OrderOK ==
    /\ run = [left |-> run.left, full |-> run.full, judged |-> run.judged, bom |-> run.bom]
    /\ run.full \in BOOLEAN
    /\ run.left \subseteq Steps(kind, run.full)
    /\ \A s \in Steps(kind, run.full) \ run.left, t \in run.left : Place[s] < Place[t]

FilesOK ==
    /\ kind \in Kinds /\ saves \in 0 .. MaxSaves /\ runs \in 0 .. MaxRuns
    /\ steady \in BOOLEAN /\ settled \in BOOLEAN
    /\ DOMAIN disk = DiskFiles
    /\ \A f \in DiskFiles : disk[f] \in ToSet(Versions[kind][f])
    /\ DOMAIN fab = AllFiles

TypeInv == OrderOK /\ FilesOK

\* The steps that write each file.
Writers(f) ==
    CASE f = "notes" -> {"Notes"} [] f = "orientation" -> {"Orientation"}
      [] f = "preview" -> {"Preview"} [] f = "critical" -> {"Critical"}
      [] f = "zip" -> {"Zip"} [] f = "stencil" -> {"Stencil"} [] f = "bom" -> {"Bom"}
      [] f = "assembly" -> {"Assembly"} [] f = "hand" -> {"Hand"} [] f = "cpl" -> {"Cpl"}
      [] f = "manifest" -> {"Unbind", "Bind"} [] f = "gerbers" -> {"Clear", "Gerbers", "Drill"}

\* What a step leaves alone.
Frame(s) ==
    /\ Doing(s) /\ run'.left = run.left \ {s} /\ run'.full = run.full
    /\ run' = [left |-> run'.left, full |-> run'.full, judged |-> run'.judged, bom |-> run'.bom]
    /\ UNCHANGED <<kind, disk, saves, runs, steady>>
    /\ DOMAIN fab' = AllFiles
    /\ \A f \in AllFiles : s \notin Writers(f) => fab'[f] = fab[f]
    /\ s # "Drc" => run'.judged = run.judged
    /\ s # "Bom" => run'.bom = run.bom
    /\ s # "Bind" => settled' = settled

\* Of what a run is, and of what it writes.
LEMMA RunStep ==
  ASSUME OrderOK, NEW s, NEW j, NEW b,
         \/ run' = [run EXCEPT !.left = @ \ {s}] /\ j = run.judged /\ b = run.bom
         \/ run' = [run EXCEPT !.left = @ \ {s}, !.judged = j] /\ b = run.bom
         \/ run' = [run EXCEPT !.left = @ \ {s}, !.bom = b] /\ j = run.judged
  PROVE  /\ run'.left = run.left \ {s} /\ run'.full = run.full /\ run'.judged = j /\ run'.bom = b
         /\ run' = [left |-> run'.left, full |-> run'.full, judged |-> run'.judged, bom |-> run'.bom]
<1> DEFINE l == run.left  m == run.full  k == run.judged  c == run.bom
<1>1. run = [left |-> l, full |-> m, judged |-> k, bom |-> c]
  BY DEF OrderOK
<1> HIDE DEF l, m, k, c
<1>2. run' = [left |-> l \ {s}, full |-> m, judged |-> j, bom |-> b]
  BY <1>1
<1>3. run'.left = l \ {s} /\ run'.full = m /\ run'.judged = j /\ run'.bom = b
  BY <1>2
<1> QED
  BY <1>2, <1>3 DEF l, m

LEMMA WriteStep ==
  ASSUME FilesOK, NEW f \in AllFiles, NEW x, fab' = [fab EXCEPT ![f] = x]
  PROVE  DOMAIN fab' = AllFiles /\ fab'[f] = x /\ \A g \in AllFiles : g # f => fab'[g] = fab[g]
BY DEF FilesOK

LEMMA PerformRun ==
  ASSUME TypeInv, NEW s \in StepNames, Performs(s)
  PROVE  /\ run'.left = run.left \ {s} /\ run'.full = run.full
         /\ run' = [left |-> run'.left, full |-> run'.full, judged |-> run'.judged, bom |-> run'.bom]
         /\ s # "Drc" => run'.judged = run.judged
         /\ s # "Bom" => run'.bom = run.bom
<1>0. OrderOK
  BY DEF TypeInv
<1>1. CASE s \notin {"Drc", "Bom"}
  <2>1. Onward(s)
    BY <1>1 DEF Performs, RunErc, CheckCapture, CheckProbes, Judge, WriteNotes, CheckLocator, WriteOrientation,
       RenderPreview, WriteCritical, ClearOld, ExportGerbers, ExportDrill, BindStack, ZipGerbers, ZipStencil,
       WriteAssembly, WriteHand, CheckCoverage, WriteCpl, UnlinkManifest, WriteManifest, Finish, Emit, Plot
  <2>2. run' = [run EXCEPT !.left = @ \ {s}]
    BY <2>1 DEF Onward
  <2> QED
    BY <1>0, <2>2, RunStep
<1>2. CASE s = "Drc"
  <2>1. run' = [run EXCEPT !.left = @ \ {s}, !.judged = disk.pcb]
    BY <1>2 DEF Performs, RunDrc
  <2> QED
    BY <1>0, <1>2, <2>1, RunStep
<1>3. CASE s = "Bom"
  <2>1. run' = [run EXCEPT !.left = @ \ {s}, !.bom = <<disk.sch, disk.map>>]
    BY <1>3 DEF Performs, WriteBom
  <2> QED
    BY <1>0, <1>3, <2>1, RunStep
<1> QED
  BY <1>1, <1>2, <1>3

LEMMA PerformFab ==
  ASSUME TypeInv, NEW s \in StepNames, Performs(s)
  PROVE  DOMAIN fab' = AllFiles /\ \A f \in AllFiles : s \notin Writers(f) => fab'[f] = fab[f]
<1>0. FilesOK
  BY DEF TypeInv
<1>1. CASE fab' = fab
  BY <1>0, <1>1 DEF FilesOK
<1>2. ASSUME NEW g \in AllFiles, NEW x, fab' = [fab EXCEPT ![g] = x], s \in Writers(g)
      PROVE  DOMAIN fab' = AllFiles /\ \A f \in AllFiles : s \notin Writers(f) => fab'[f] = fab[f]
  <2>1. DOMAIN fab' = AllFiles /\ \A f \in AllFiles : f # g => fab'[f] = fab[f]
    BY <1>0, <1>2, WriteStep
  <2> QED
    BY <1>2, <2>1
<1>3. CASE s \in {"Notes", "Orientation", "Preview", "Critical", "Zip", "Stencil"}
  <2>1. PICK g \in {"notes", "orientation", "preview", "critical", "zip", "stencil"} :
          \E x : fab' = [fab EXCEPT ![g] = Made(x)] /\ s \in Writers(g)
    BY <1>3 DEF Performs, WriteNotes, WriteOrientation, RenderPreview, WriteCritical, ZipGerbers, ZipStencil,
       Emit, Writers
  <2> QED
    BY <1>2, <2>1 DEF AllFiles, FabFiles
<1>4. CASE s \in {"Assembly", "Hand", "Cpl"}
  <2>1. PICK g \in {"assembly", "hand", "cpl"} : \E x : fab' = [fab EXCEPT ![g] = Made(x)] /\ s \in Writers(g)
    BY <1>4 DEF Performs, WriteAssembly, WriteHand, WriteCpl, Emit, Writers
  <2> QED
    BY <1>2, <2>1 DEF AllFiles, FabFiles
<1>5. CASE s \in {"Bom", "Unbind", "Bind"}
  <2>1. PICK g \in {"bom", "manifest"} : \E x : fab' = [fab EXCEPT ![g] = x] /\ s \in Writers(g)
    BY <1>5 DEF Performs, WriteBom, UnlinkManifest, WriteManifest, Writers
  <2> QED
    BY <1>2, <2>1 DEF AllFiles, FabFiles
<1>6. CASE s \in {"Clear", "Gerbers", "Drill"}
  <2>1. PICK x : fab' = [fab EXCEPT !["gerbers"] = x]
    BY <1>6 DEF Performs, ClearOld, ExportGerbers, ExportDrill, Plot
  <2>2. s \in Writers("gerbers")
    BY <1>6 DEF Writers
  <2> QED
    BY <1>2, <2>1, <2>2 DEF AllFiles, FabFiles
<1>7. s \in {"Drc", "Erc", "Capture", "Probe", "Judge", "Locator", "Stack", "Coverage", "Done"} => fab' = fab
  BY DEF Performs, RunDrc, RunErc, CheckCapture, CheckProbes, Judge, CheckLocator, BindStack, CheckCoverage,
     Finish, Look
<1> QED
  BY <1>1, <1>3, <1>4, <1>5, <1>6, <1>7 DEF StepNames

LEMMA PerformFrame ==
  ASSUME TypeInv, NEW s \in StepNames, Performs(s)
  PROVE  Frame(s)
<1>1. Doing(s) /\ Keep
  BY DEF Performs, RunDrc, RunErc, CheckCapture, CheckProbes, Judge, WriteNotes, CheckLocator, WriteOrientation,
     RenderPreview, WriteCritical, ClearOld, ExportGerbers, ExportDrill, BindStack, ZipGerbers, ZipStencil,
     WriteBom, WriteAssembly, WriteHand, CheckCoverage, WriteCpl, UnlinkManifest, WriteManifest, Finish,
     Look, Emit, Plot
<1>2. s # "Bind" => settled' = settled
  BY DEF Performs, RunDrc, RunErc, CheckCapture, CheckProbes, Judge, WriteNotes, CheckLocator, WriteOrientation,
     RenderPreview, WriteCritical, ClearOld, ExportGerbers, ExportDrill, BindStack, ZipGerbers, ZipStencil,
     WriteBom, WriteAssembly, WriteHand, CheckCoverage, WriteCpl, UnlinkManifest, WriteManifest, Finish,
     Look, Emit, Plot
<1> QED
  BY <1>1, <1>2, PerformRun, PerformFab DEF Frame, Keep

-----------------------------------------------------------------------------
(* The inductive invariant.                                                *)

\* The run under way is past step t.
Passed(t) == run.left # {} /\ t \in Steps(kind, run.full) \ run.left

\* The files of a plot of board a, and of a drill export of board b.
Plotted(a) == {[name |-> n, of |-> a] : n \in Plots}
Drilled(b) == {[name |-> n, of |-> b] : n \in Drills(Layouts[b])}

\* What the directory of Gerbers holds at each step of the export, and what
\* the archive was made of.
GerberInv ==
    /\ Passed("Clear") /\ "Gerbers" \in run.left => fab.gerbers = {}
    /\ Passed("Gerbers") /\ "Drill" \in run.left => \E a : fab.gerbers = Plotted(a)
    /\ Passed("Drill") => Whole(fab.gerbers)
    /\ steady /\ Passed("Clear") => \A f \in fab.gerbers : f.of = disk.pcb
    /\ Passed("Zip") => fab.zip = Made(fab.gerbers)
    /\ Passed("Stencil") => \E paste \in SUBSET fab.gerbers : fab.stencil = Made(paste)
    /\ ZipWhole

\* While nothing is saved, what the gate has passed is true of what is there.
GateInv ==
    steady =>
       /\ Passed("Drc") => run.judged = disk.pcb
       /\ Passed("Erc") => Schematic.erc = {}
       /\ Passed("Capture") => Captured(Schematic)
       /\ Passed("Probe") => CleanDrc(Active(Board.findings), Board.loose)
       /\ Passed("Judge") => CleanDrc(Board.findings, Board.loose)

DocsInv ==
    steady =>
       /\ Passed("Notes") => fab.notes = Made(disk.pcb)
       /\ Passed("Orientation") => fab.orientation = Made(disk.pcb)
       /\ Passed("Preview") => fab.preview = Made(disk.pcb)
       /\ Passed("Critical") => fab.critical = Made(disk.pcb)

\* A file of parts: each once, and those the drawing has.
Lists(file) ==
    \E rows : file = Made(rows) /\ Once(rows) /\ Listing(rows) = Expected(kind, Drawn)

\* Every assembly file is of the schematic and the map the BOM was made from.
AssemblyInv ==
    /\ Passed("Bom") => Lists(fab.bom) /\ Listing(DrawnRows) = Expected(kind, Drawn)
    /\ Passed("Assembly") => fab.assembly = Made(DrawnRows)
    /\ Passed("Hand") => fab.hand = Made(DrawnHand)
    /\ Passed("Coverage") => /\ Listing(DrawnHand) = BOARDS[kind].hand
                             /\ BOARDS[kind].priced => Priced(DrawnRows)
    /\ Passed("Cpl") => Lists(fab.cpl)
    /\ steady /\ Passed("Bom") => run.bom = <<disk.sch, disk.map>>
    /\ steady /\ Passed("Cpl") => fab.cpl = Made(CplRows(kind, Board))

\* The assembly files of a package agree (Agrees, of any set of files).
Agreeing(p) ==
    /\ {Absent, Torn} \cap {p["bom"], p["cpl"], p["assembly"], p["hand"]} = {}
    /\ Once(p["bom"].of) /\ Once(p["cpl"].of)
    /\ Listing(p["bom"].of) = Listing(p["cpl"].of) /\ Listing(p["bom"].of) = Listing(p["assembly"].of)
    /\ \A ref \in Listing(p["bom"].of) : ~Excluded(kind, ref)
    /\ Listing(p["hand"].of) = BOARDS[kind].hand
    /\ BOARDS[kind].priced => Priced(p["assembly"].of)

\* A package made from board a, schematic b and source map c, which the gate
\* would let pass.
MadeFrom(p, a, b, c) ==
    /\ p["pcb"] = Made(a) /\ p["sch"] = Made(b)
    /\ Releasable(a, b)
    /\ \A f \in p["zip"].of : f.of = a
    /\ kind = "pcb-01-v2" =>
          /\ p["map"] = Made(c) /\ c # "none"
          /\ {p["notes"], p["orientation"], p["critical"], p["preview"]} = {Made(a)}
          /\ p["cpl"] = Made(CplRows(kind, Layouts[a]))
          /\ p["assembly"] = Made(BomRows(kind, Schematics[b], SourceMaps[c]))
    /\ kind = "pcb-03" => p["stencil"].of \subseteq p["zip"].of

\* What the manifest lists is a package that was whole when it was bound.
Bound(p) ==
    /\ DOMAIN p = Listed(kind)
    /\ p["zip"] \notin {Absent, Torn} /\ Whole(p["zip"].of)
    /\ kind = "pcb-01-v2" => Agreeing(p)
    /\ settled => \E a, b, c : MadeFrom(p, a, b, c)

ManifestInv ==
    /\ kind \notin {"pcb-01-v2", "pcb-03"} => fab.manifest = Absent
    /\ fab.manifest \in {Absent, Torn} \/ \E p : fab.manifest = Made(p) /\ Bound(p)
    /\ Passed("Unbind") => fab.manifest = Absent
    /\ steady /\ Passed("Bind") => Verifies

FabInv == TypeInv /\ GerberInv /\ GateInv /\ DocsInv /\ AssemblyInv /\ ManifestInv

-----------------------------------------------------------------------------
(* The order of a run.                                                     *)

LEMMA Files == ASSUME NEW x PROVE Made(x) \notin {Absent, Torn} /\ Made(x).of = x
<1>1. DOMAIN Made(x) = {"of"} /\ DOMAIN Absent = {"none"} /\ DOMAIN Torn = {"torn"}
  BY DEF Made, Absent, Torn
<1>2. Made(x).of = x
  BY DEF Made
<1>3. "of" \notin DOMAIN Absent /\ "of" \notin DOMAIN Torn /\ "of" \in DOMAIN Made(x)
  BY <1>1
<1> QED
  BY <1>2, <1>3

LEMMA Same == ASSUME NEW x, NEW y, Made(x) = Made(y) PROVE x = y
BY Files

LEMMA Assembled == ASSUME NEW k \in Kinds PROVE BOARDS[k].assembly <=> k \in {"pcb-01", "pcb-01-v2"}
BY DEF BOARDS, Kinds, Bare

LEMMA StepsAre ==
  ASSUME NEW k \in Kinds, NEW full \in BOOLEAN
  PROVE  /\ Steps(k, full) \subseteq StepNames
         /\ \A s \in {"Erc", "Capture", "Probe", "Stack"} : s \in Steps(k, full) <=> full /\ k = "pcb-01-v2"
         /\ \A s \in {"Judge", "Stencil"} : s \in Steps(k, full) <=> full /\ k = "pcb-03"
         /\ \A s \in {"Drc", "Bind"} : s \in Steps(k, full) <=> full /\ k \in {"pcb-01-v2", "pcb-03"}
         /\ \A s \in {"Notes", "Locator", "Orientation", "Preview", "Critical"} :
               s \in Steps(k, full) <=> k = "pcb-01-v2"
         /\ \A s \in {"Clear", "Gerbers", "Drill", "Zip"} : s \in Steps(k, full) <=> full
         /\ \A s \in {"Bom", "Assembly", "Hand", "Coverage", "Cpl"} :
               s \in Steps(k, full) <=> k \in {"pcb-01", "pcb-01-v2"}
         /\ "Unbind" \in Steps(k, full) <=> k = "pcb-01-v2" /\ ~full
         /\ "Done" \in Steps(k, full)
<1>1. BOARDS[k].assembly <=> k \in {"pcb-01", "pcb-01-v2"}
  BY Assembled
<1>2. Steps(k, full) \subseteq StepNames
  BY DEF Steps, StepNames
<1> QED
  BY <1>1, <1>2 DEF Steps

LEMMA PlaceNat == \A s \in StepNames : Place[s] \in Nat
BY DEF StepNames, Place

\* A run that has come to a step is past the earlier ones.
LEMMA Before ==
  ASSUME TypeInv, NEW s, Doing(s), NEW t \in Steps(kind, run.full), Place[t] < Place[s]
  PROVE  Passed(t)
<1>1. s \in run.left /\ s \in StepNames /\ t \in StepNames
  BY StepsAre DEF TypeInv, OrderOK, FilesOK, Doing
<1>2. ASSUME t \in run.left PROVE FALSE
  <2>1. Place[s] <= Place[t] /\ Place[s] \in Nat /\ Place[t] \in Nat
    BY <1>1, <1>2, PlaceNat DEF Doing
  <2> QED
    BY <2>1
<1> QED
  BY <1>1, <1>2 DEF Passed

\* A step is what a run passes by taking it.
LEMMA Passing ==
  ASSUME TypeInv, NEW s, Frame(s)
  PROVE  /\ \A t : Passed(t)' => Passed(t) \/ t = s
         /\ \A t : Passed(t) => t # s
         /\ \A t \in run.left \ {s} : t \in run'.left
         /\ \A t \in run'.left : t \in run.left /\ t # s
         /\ s \in Steps(kind, run.full) /\ s \in StepNames
<1>1. /\ s \in run.left /\ run'.left = run.left \ {s} /\ run'.full = run.full /\ kind' = kind
      /\ run.left \subseteq Steps(kind, run.full)
  BY DEF Frame, Doing, TypeInv, OrderOK
<1>2. s \in StepNames
  BY <1>1, StepsAre DEF TypeInv, OrderOK, FilesOK
<1> QED
  BY <1>1, <1>2 DEF Passed

\* Of the other actions.
LEMMA FailStep ==
  ASSUME TypeInv, Fail
  PROVE  /\ run' = Idle /\ UNCHANGED <<kind, disk, saves, runs, steady, settled>>
         /\ DOMAIN fab' = AllFiles
         /\ \A f \in FabFiles : fab'[f] \in {fab[f], Torn}
         /\ fab'["manifest"] # fab["manifest"] => Doing("Bind")
<1>1. run' = Idle /\ UNCHANGED <<kind, disk, saves, runs, steady, settled>>
  BY DEF Fail, Keep
<1>2. PICK torn \in SUBSET Written : fab' = [f \in DOMAIN fab |-> IF f \in torn THEN Torn ELSE fab[f]]
  BY DEF Fail
<1>3. DOMAIN fab = AllFiles /\ FabFiles \subseteq AllFiles /\ "manifest" \in FabFiles
  BY DEF TypeInv, FilesOK, AllFiles, FabFiles
<1>4. "manifest" \in Written => Doing("Bind")
  BY DEF Written
<1> QED
  BY <1>1, <1>2, <1>3, <1>4

LEMMA TypeInit == ASSUME Init PROVE TypeInv
<1>1. OrderOK
  BY DEF Init, OrderOK, Idle
<1>2. kind \in Kinds /\ saves = 0 /\ runs = 0 /\ steady = TRUE /\ settled = TRUE
  BY DEF Init
<1>3. DOMAIN disk = DiskFiles /\ \A f \in DiskFiles : disk[f] = Versions[kind][f][1]
  BY DEF Init
<1>4. \A f \in DiskFiles : 1 \in DOMAIN Versions[kind][f]
  BY <1>2, ReleaseAssumption DEF DiskFiles
<1>5. \A f \in DiskFiles : disk[f] \in ToSet(Versions[kind][f])
  BY <1>3, <1>4 DEF ToSet
<1>6. DOMAIN fab = AllFiles
  BY DEF Init, AllFiles
<1> QED
  BY <1>1, <1>2, <1>3, <1>5, <1>6, ReleaseAssumption DEF TypeInv, FilesOK

LEMMA TypeStep == ASSUME TypeInv, [Next]_vars PROVE TypeInv'
<1>0. MaxSaves \in Nat /\ MaxRuns \in Nat
  BY ReleaseAssumption
<1>1. CASE UNCHANGED vars
  BY <1>1 DEF vars, TypeInv, OrderOK, FilesOK
<1>2. CASE Saves
  <2>0. PICK f \in DiskFiles : \E i \in DOMAIN Versions[kind][f] : Save(f, Versions[kind][f][i])
    BY <1>2 DEF Saves
  <2>1. PICK i \in DOMAIN Versions[kind][f] : Save(f, Versions[kind][f][i])
    BY <2>0
  <2>2. disk' = [disk EXCEPT ![f] = Versions[kind][f][i]] /\ saves < MaxSaves /\ saves' = saves + 1
        /\ steady' = FALSE /\ UNCHANGED <<kind, fab, run, runs, settled>>
    BY <2>1 DEF Save
  <2>3. DOMAIN disk' = DiskFiles /\ \A g \in DiskFiles : disk'[g] = IF g = f THEN Versions[kind][f][i] ELSE disk[g]
    BY <2>2 DEF TypeInv, FilesOK
  <2>4. Versions[kind][f][i] \in ToSet(Versions[kind][f])
    BY DEF ToSet
  <2>5. \A g \in DiskFiles : disk'[g] \in ToSet(Versions[kind][g])
    BY <2>3, <2>4 DEF TypeInv, FilesOK
  <2>6. OrderOK'
    BY <2>2 DEF TypeInv, OrderOK
  <2>7. saves' \in 0 .. MaxSaves
    BY <1>0, <2>2 DEF TypeInv, FilesOK
  <2> QED
    BY <2>2, <2>3, <2>5, <2>6, <2>7 DEF TypeInv, FilesOK
<1>3. CASE Starts
  <2>1. PICK full \in BOOLEAN : Start(full)
    BY <1>3 DEF Starts
  <2>2. run' = [left |-> Steps(kind, full), full |-> full, judged |-> "none", bom |-> <<"none", "none">>]
    BY <2>1 DEF Start, Idle
  <2>3. run'.left = Steps(kind, full) /\ run'.full = full /\ kind' = kind
        /\ run' = [left |-> run'.left, full |-> run'.full, judged |-> run'.judged, bom |-> run'.bom]
    BY <2>1, <2>2 DEF Start
  <2>4. OrderOK'
    BY <2>3 DEF OrderOK
  <2> QED
    BY <1>0, <2>1, <2>4 DEF TypeInv, FilesOK, Start
<1>4. CASE Fail
  <2>1. OrderOK'
    BY <1>4 DEF Fail, Idle, OrderOK
  <2> QED
    BY <1>4, <2>1, FailStep DEF TypeInv, FilesOK
<1>5. ASSUME NEW s \in StepNames, Performs(s) PROVE TypeInv'
  <2>1. Frame(s)
    BY <1>5, PerformFrame
  <2>2. OrderOK'
    <3>1. ASSUME NEW t \in Steps(kind, run.full) \ run'.left, NEW u \in run'.left PROVE Place[t] < Place[u]
      <4>1. u \in run.left /\ u # s
        BY <2>1, <3>1 DEF Frame
      <4>2. CASE t # s
        BY <2>1, <3>1, <4>1, <4>2 DEF Frame, TypeInv, OrderOK
      <4>3. CASE t = s
        <5>1. Place[s] <= Place[u] /\ u \in StepNames
          BY <2>1, <4>1, StepsAre DEF Frame, Doing, TypeInv, OrderOK, FilesOK
        <5>2. Place[s] # Place[u]
          BY <1>5, <4>1, <5>1 DEF StepNames, Place
        <5>3. Place[s] \in Nat /\ Place[u] \in Nat
          BY <1>5, <5>1, PlaceNat
        <5> QED
          BY <4>3, <5>1, <5>2, <5>3
      <4> QED
        BY <4>2, <4>3
    <3>2. kind' = kind /\ run'.full = run.full /\ run'.left \subseteq run.left
          /\ run' = [left |-> run'.left, full |-> run'.full, judged |-> run'.judged, bom |-> run'.bom]
      BY <2>1 DEF Frame
    <3> QED
      BY <3>1, <3>2 DEF OrderOK, TypeInv
  <2>3. settled' \in BOOLEAN
    <3>1. s = "Bind" => settled' = steady
      BY <1>5 DEF Performs, WriteManifest
    <3> QED
      BY <2>1, <3>1 DEF Frame, TypeInv, FilesOK
  <2> QED
    BY <2>1, <2>2, <2>3 DEF TypeInv, FilesOK, Frame
<1> QED
  BY <1>1, <1>2, <1>3, <1>4, <1>5, Actions

LEMMA SaveStep ==
  ASSUME TypeInv, Saves
  PROVE  /\ UNCHANGED <<kind, fab, run, runs, settled>> /\ steady' = FALSE
         /\ \A t : Passed(t)' <=> Passed(t)
<1>1. UNCHANGED <<kind, fab, run, runs, settled>> /\ steady' = FALSE
  BY DEF Saves, Save
<1> QED
  BY <1>1 DEF Passed

\* A run that begins is past nothing, and one that is over too.
LEMMA StartStep ==
  ASSUME TypeInv, Starts
  PROVE  UNCHANGED <<kind, disk, fab, settled>> /\ run'.left # {} /\ \A t : ~Passed(t)'
<1>1. PICK full \in BOOLEAN : Start(full)
  BY DEF Starts
<1>2. run' = [left |-> Steps(kind, full), full |-> full, judged |-> "none", bom |-> <<"none", "none">>]
  BY <1>1 DEF Start, Idle
<1>3. run'.left = Steps(kind', run'.full) /\ UNCHANGED <<kind, disk, fab, settled>>
  BY <1>1, <1>2 DEF Start
<1>4. "Done" \in Steps(kind, full)
  BY StepsAre DEF TypeInv, FilesOK
<1> QED
  BY <1>2, <1>3, <1>4 DEF Passed

LEMMA FailPasses == ASSUME Fail PROVE \A t : ~Passed(t)'
BY DEF Fail, Idle, Passed

-----------------------------------------------------------------------------
(* The upload.                                                             *)

LEMMA Names == ASSUME NEW l PROVE Plots \cap Drills(l) = {} /\ "PTH" \in Drills(l) /\ "job" \in Plots
BY DEF Plots, Drills

\* A plot in an empty directory, and a drill export after it.
LEMMA PlotAlone ==
  ASSUME TypeInv, Plot("Gerbers", Plots), fab.gerbers = {}
  PROVE  fab'.gerbers = Plotted(disk.pcb)
<1>1. "gerbers" \in DOMAIN fab
  BY DEF TypeInv, FilesOK, AllFiles
<1> QED
  BY <1>1 DEF Plot, Plotted

LEMMA DrillAfter ==
  ASSUME TypeInv, ExportDrill, NEW a, fab.gerbers = Plotted(a)
  PROVE  /\ fab'.gerbers = Plotted(a) \cup Drilled(disk.pcb)
         /\ Whole(fab'.gerbers)
         /\ a = disk.pcb => \A f \in fab'.gerbers : f.of = disk.pcb
<1>0. "gerbers" \in DOMAIN fab
  BY DEF TypeInv, FilesOK, AllFiles
<1>1. \A f \in Plotted(a) : f.name \in Plots /\ f.of = a
  BY DEF Plotted
<1>2. \A f \in Drilled(disk.pcb) : f.of = disk.pcb
  BY DEF Drilled
<1>3. Plots \cap Drills(Board) = {}
  BY Names
<1>4. fab'.gerbers = {f \in fab.gerbers : f.name \notin Drills(Board)} \cup Drilled(disk.pcb)
  BY <1>0 DEF ExportDrill, Plot, Drilled, Board
<1>5. fab'.gerbers = Plotted(a) \cup Drilled(disk.pcb)
  BY <1>1, <1>3, <1>4
<1>6. a \in {f.of : f \in fab'.gerbers} /\ disk.pcb \in {f.of : f \in fab'.gerbers}
  <2>1. [name |-> "job", of |-> a] \in Plotted(a) /\ [name |-> "PTH", of |-> disk.pcb] \in Drilled(disk.pcb)
    BY Names DEF Plotted, Drilled
  <2> QED
    BY <1>1, <1>2, <1>5, <2>1
<1>7. Whole(fab'.gerbers)
  BY <1>5, <1>6 DEF Whole, Plotted, Drilled
<1> QED
  BY <1>1, <1>2, <1>5, <1>7

LEMMA GerberInit == ASSUME Init PROVE GerberInv
<1>1. run.left = {} /\ fab = [f \in AllFiles |-> IF f = "gerbers" THEN {} ELSE Absent]
  BY DEF Init, Idle, AllFiles
<1>2. fab.zip = Absent
  BY <1>1 DEF AllFiles, FabFiles
<1> QED
  BY <1>1, <1>2 DEF GerberInv, Passed, ZipWhole

\* What a step of the run does to the directory and the archive.
LEMMA UploadFiles ==
  ASSUME TypeInv, NEW s \in StepNames, Performs(s)
  PROVE  /\ s \notin {"Clear", "Gerbers", "Drill"} => fab'.gerbers = fab.gerbers
         /\ s # "Zip" => fab'.zip = fab.zip
         /\ s # "Stencil" => fab'.stencil = fab.stencil
<1>1. Frame(s)
  BY PerformFrame
<1>2. {"gerbers", "zip", "stencil"} \subseteq AllFiles
  BY DEF AllFiles, FabFiles
<1>3. Writers("gerbers") = {"Clear", "Gerbers", "Drill"} /\ Writers("zip") = {"Zip"} /\ Writers("stencil") = {"Stencil"}
  BY DEF Writers
<1> QED
  BY <1>1, <1>2, <1>3 DEF Frame

LEMMA GerberPerform ==
  ASSUME TypeInv, GerberInv, NEW s \in StepNames, Performs(s)
  PROVE  GerberInv'
<1>1. Frame(s)
  BY PerformFrame
<1> DEFINE now == Steps(kind, run.full)
<1>2. UNCHANGED <<kind, disk, steady>> /\ run'.full = run.full /\ Doing(s)
  BY <1>1 DEF Frame
<1>3. /\ \A t : Passed(t)' => Passed(t) \/ t = s
      /\ \A t : Passed(t) => t # s
      /\ \A t \in run'.left : t \in run.left /\ t # s
      /\ s \in now
  BY <1>1, Passing
<1>4. {"gerbers", "zip", "stencil"} \subseteq DOMAIN fab
  BY DEF TypeInv, FilesOK, AllFiles, FabFiles
\* a full run has all the steps of the export, in their order
<1>5. ASSUME s \in {"Gerbers", "Drill", "Zip", "Stencil", "Stack"}
      PROVE  /\ Passed("Clear")
             /\ s # "Gerbers" => Passed("Gerbers")
             /\ s \notin {"Gerbers", "Drill"} => Passed("Drill")
             /\ s = "Stencil" => Passed("Zip")
  <2>1. {"Clear", "Gerbers", "Drill", "Zip"} \subseteq now
    BY <1>3, <1>5, StepsAre DEF TypeInv, OrderOK, FilesOK
  <2>2. /\ Place["Clear"] < Place[s]
        /\ s # "Gerbers" => Place["Gerbers"] < Place[s]
        /\ s \notin {"Gerbers", "Drill"} => Place["Drill"] < Place[s]
        /\ s = "Stencil" => Place["Zip"] < Place[s]
    BY <1>5 DEF Place
  <2> QED
    BY <1>2, <2>1, <2>2, Before
<1>6. CASE s \notin {"Clear", "Gerbers", "Drill", "Zip", "Stencil"}
  <2>1. fab'.gerbers = fab.gerbers /\ fab'.zip = fab.zip /\ fab'.stencil = fab.stencil
    BY <1>6, UploadFiles
  <2>2. \A t \in {"Clear", "Gerbers", "Drill", "Zip", "Stencil"} : Passed(t)' => Passed(t)
    BY <1>3, <1>6
  <2> QED
    BY <1>2, <1>3, <2>1, <2>2 DEF GerberInv, ZipWhole
<1>7. CASE s = "Clear"
  <2>1. fab'.gerbers = {}
    BY <1>4, <1>7 DEF Performs, ClearOld
  <2>2. fab'.zip = fab.zip
    BY <1>7, UploadFiles
  <2>3. \A t \in {"Gerbers", "Drill", "Zip", "Stencil"} : ~Passed(t)
    <3>1. "Clear" \in run.left
      BY <1>2, <1>7 DEF Doing
    <3>2. \A t \in {"Gerbers", "Drill", "Zip", "Stencil"} : ~(Place[t] < Place["Clear"])
      BY DEF Place
    <3> QED
      BY <3>1, <3>2 DEF Passed, TypeInv, OrderOK
  <2>4. \A t \in {"Gerbers", "Drill", "Zip", "Stencil"} : ~Passed(t)'
    BY <1>3, <1>7, <2>3
  <2> QED
    BY <2>1, <2>2, <2>4 DEF GerberInv, ZipWhole
<1>8. CASE s = "Gerbers"
  <2>1. fab.gerbers = {}
    BY <1>2, <1>5, <1>8 DEF GerberInv, Doing
  <2>2. fab'.gerbers = Plotted(disk.pcb)
    BY <1>8, <2>1, PlotAlone DEF Performs, ExportGerbers
  <2>3. fab'.zip = fab.zip
    BY <1>8, UploadFiles
  <2>4. \A t \in {"Drill", "Zip", "Stencil"} : ~Passed(t)
    <3>1. "Gerbers" \in run.left
      BY <1>2, <1>8 DEF Doing
    <3>2. \A t \in {"Drill", "Zip", "Stencil"} : ~(Place[t] < Place["Gerbers"])
      BY DEF Place
    <3> QED
      BY <3>1, <3>2 DEF Passed, TypeInv, OrderOK
  <2>5. \A t \in {"Drill", "Zip", "Stencil"} : ~Passed(t)'
    BY <1>3, <1>8, <2>4
  <2>6. "Gerbers" \notin run'.left
    BY <1>3, <1>8
  <2>7. \A f \in fab'.gerbers : f.of = disk.pcb
    BY <2>2 DEF Plotted
  <2> QED
    BY <1>2, <2>2, <2>3, <2>5, <2>6, <2>7 DEF GerberInv, ZipWhole
<1>9. CASE s = "Drill"
  <2>1. PICK a : fab.gerbers = Plotted(a)
    BY <1>2, <1>5, <1>9 DEF GerberInv, Doing
  <2>2. /\ Whole(fab'.gerbers)
        /\ a = disk.pcb => \A f \in fab'.gerbers : f.of = disk.pcb
    BY <1>9, <2>1, DrillAfter DEF Performs
  <2>3. fab'.zip = fab.zip
    BY <1>9, UploadFiles
  <2>4. \A t \in {"Zip", "Stencil"} : ~Passed(t)
    <3>1. "Drill" \in run.left
      BY <1>2, <1>9 DEF Doing
    <3>2. \A t \in {"Zip", "Stencil"} : ~(Place[t] < Place["Drill"])
      BY DEF Place
    <3> QED
      BY <3>1, <3>2 DEF Passed, TypeInv, OrderOK
  <2>5. \A t \in {"Zip", "Stencil"} : ~Passed(t)'
    BY <1>3, <1>9, <2>4
  <2>6. "Gerbers" \notin run'.left /\ "Drill" \notin run'.left
    BY <1>3, <1>5, <1>9 DEF Passed
  <2>7. steady => a = disk.pcb
    <3>1. steady => \A f \in Plotted(a) : f.of = disk.pcb
      BY <1>5, <1>9, <2>1 DEF GerberInv
    <3>2. [name |-> "job", of |-> a] \in Plotted(a)
      BY Names DEF Plotted
    <3> QED
      BY <3>1, <3>2
  <2>8. steady' => \A f \in fab'.gerbers : f.of = disk'.pcb
    BY <1>2, <2>2, <2>7
  <2> QED
    BY <2>2, <2>3, <2>5, <2>6, <2>8 DEF GerberInv, ZipWhole
<1>10. CASE s = "Zip"
  <2>1. fab'.zip = Made(fab.gerbers) /\ fab'.gerbers = fab.gerbers /\ fab'.stencil = fab.stencil
    BY <1>4, <1>10, UploadFiles DEF Performs, ZipGerbers, Emit
  <2>2. Whole(fab.gerbers)
    BY <1>5, <1>10 DEF GerberInv
  <2>3. ZipWhole'
    BY <2>1, <2>2, Files DEF ZipWhole
  <2>4. \A t \in {"Clear", "Gerbers", "Drill", "Stencil"} : Passed(t)' => Passed(t)
    BY <1>3, <1>10
  <2> QED
    BY <1>2, <1>3, <2>1, <2>2, <2>3, <2>4 DEF GerberInv
<1>11. CASE s = "Stencil"
  <2>1. fab'.zip = fab.zip /\ fab'.gerbers = fab.gerbers
    BY <1>11, UploadFiles
  <2>2. \E paste \in SUBSET fab.gerbers : fab'.stencil = Made(paste)
    BY <1>4, <1>11 DEF Performs, ZipStencil, Emit
  <2>3. \A t \in {"Clear", "Gerbers", "Drill", "Zip"} : Passed(t)' => Passed(t)
    BY <1>3, <1>11
  <2> QED
    BY <1>2, <1>3, <2>1, <2>2, <2>3 DEF GerberInv, ZipWhole
<1> QED
  BY <1>6, <1>7, <1>8, <1>9, <1>10, <1>11

LEMMA GerberStep == ASSUME TypeInv, GerberInv, [Next]_vars PROVE GerberInv'
<1>1. CASE UNCHANGED vars
  BY <1>1 DEF vars, GerberInv, Passed, ZipWhole
<1>2. CASE Saves
  <2>1. fab' = fab /\ run' = run /\ steady' = FALSE /\ \A t : Passed(t)' <=> Passed(t)
    BY <1>2, SaveStep
  <2> QED
    BY <2>1 DEF GerberInv, ZipWhole
<1>3. CASE Starts
  <2>1. fab' = fab /\ \A t : ~Passed(t)'
    BY <1>3, StartStep
  <2> QED
    BY <2>1 DEF GerberInv, ZipWhole
<1>4. CASE Fail
  <2>1. fab'["zip"] \in {fab["zip"], Torn} /\ \A t : ~Passed(t)'
    BY <1>4, FailStep, FailPasses DEF FabFiles
  <2> QED
    BY <2>1 DEF GerberInv, ZipWhole
<1>5. ASSUME NEW s \in StepNames, Performs(s) PROVE GerberInv'
  BY <1>5, GerberPerform
<1> QED
  BY <1>1, <1>2, <1>3, <1>4, <1>5, Actions

-----------------------------------------------------------------------------
(* The gate.                                                               *)

LEMMA GateInit == ASSUME Init PROVE GateInv
BY DEF Init, Idle, GateInv, Passed

LEMMA GatePerform ==
  ASSUME TypeInv, GateInv, NEW s \in StepNames, Performs(s)
  PROVE  GateInv'
<1>1. Frame(s)
  BY PerformFrame
<1>2. UNCHANGED <<kind, disk, steady>> /\ Doing(s) /\ (s # "Drc" => run'.judged = run.judged)
  BY <1>1 DEF Frame
<1>3. /\ \A t : Passed(t)' => Passed(t) \/ t = s
      /\ \A t : Passed(t) => t # s
      /\ s \in Steps(kind, run.full)
  BY <1>1, Passing
<1>4. Board' = Board /\ Schematic' = Schematic
  BY <1>2 DEF Board, Schematic
<1> SUFFICES ASSUME steady PROVE GateInv'
  BY <1>2 DEF GateInv
\* the report is judged after it was made
<1>5. s \in {"Probe", "Judge"} => run.judged = disk.pcb
  <2>1. ASSUME s \in {"Probe", "Judge"} PROVE "Drc" \in Steps(kind, run.full) /\ Place["Drc"] < Place[s]
    BY <1>3, <2>1, StepsAre DEF TypeInv, OrderOK, FilesOK, Place
  <2>2. s \in {"Probe", "Judge"} => Passed("Drc")
    BY <1>2, <2>1, Before
  <2> QED
    BY <2>2 DEF GateInv
<1>6. Passed("Drc")' => run'.judged = disk'.pcb
  <2>1. s = "Drc" => run'.judged = disk.pcb
    <3>1. s = "Drc" => run' = [run EXCEPT !.left = @ \ {"Drc"}, !.judged = disk.pcb]
      BY DEF Performs, RunDrc
    <3> QED
      BY <3>1 DEF TypeInv, OrderOK
  <2> QED
    BY <1>2, <1>3, <2>1 DEF GateInv
<1>7. Passed("Erc")' => Schematic.erc = {}
  BY <1>3 DEF GateInv, Performs, RunErc
<1>8. Passed("Capture")' => Captured(Schematic)
  BY <1>3 DEF GateInv, Performs, CheckCapture
<1>9. Passed("Probe")' => CleanDrc(Active(Board.findings), Board.loose)
  BY <1>3, <1>5 DEF GateInv, Performs, CheckProbes, Board
<1>10. Passed("Judge")' => CleanDrc(Board.findings, Board.loose)
  BY <1>3, <1>5 DEF GateInv, Performs, Judge, Board
<1> QED
  BY <1>4, <1>6, <1>7, <1>8, <1>9, <1>10 DEF GateInv

LEMMA GateStep == ASSUME TypeInv, GateInv, [Next]_vars PROVE GateInv'
<1>1. CASE UNCHANGED vars
  BY <1>1 DEF vars, GateInv, Passed, Schematic, Board
<1>2. CASE Saves
  BY <1>2, SaveStep DEF GateInv
<1>3. CASE Starts
  BY <1>3, StartStep DEF GateInv
<1>4. CASE Fail
  BY <1>4, FailPasses DEF GateInv
<1>5. ASSUME NEW s \in StepNames, Performs(s) PROVE GateInv'
  BY <1>5, GatePerform
<1> QED
  BY <1>1, <1>2, <1>3, <1>4, <1>5, Actions

\* A waived finding is of a waived item.
LEMMA Waived ==
  ASSUME NEW findings, Active(findings) = {}, NEW v \in findings, NEW item \in v.items
  PROVE  item.uuid \in EscapeVias \cup DOMAIN TrackWidths
BY DEF Active, ApprovedException

\* What is past the gate may be released, while nothing is saved.
LEMMA Gated ==
  ASSUME TypeInv, GateInv, steady, run.full, NEW s \in {"Zip", "Bind"}, Doing(s)
  PROVE  Releasable(disk.pcb, disk.sch)
<1>1. \A t \in {"Drc", "Erc", "Capture", "Probe", "Judge"} : t \in Steps(kind, run.full) => Passed(t)
  <2>1. \A t \in {"Drc", "Erc", "Capture", "Probe", "Judge"} : Place[t] < Place[s]
    BY DEF Place
  <2> QED
    BY <2>1, Before
<1>2. CASE kind = "pcb-01-v2"
  <2>1. Passed("Erc") /\ Passed("Capture") /\ Passed("Probe")
    BY <1>1, <1>2, StepsAre DEF TypeInv, OrderOK, FilesOK
  <2>2. Schematic.erc = {} /\ Captured(Schematic) /\ Active(Board.findings) = {} /\ Board.loose = {}
    BY <2>1 DEF GateInv, CleanDrc
  <2>3. \A v \in Board.findings : \A item \in v.items : item.uuid \in EscapeVias \cup DOMAIN TrackWidths
    BY <2>2, Waived
  <2> QED
    BY <1>2, <2>2, <2>3 DEF Releasable, Board, Schematic
<1>3. CASE kind = "pcb-03"
  <2>1. Passed("Judge")
    BY <1>1, <1>3, StepsAre DEF TypeInv, OrderOK, FilesOK
  <2> QED
    BY <1>3, <2>1 DEF GateInv, CleanDrc, Releasable, Board
<1> QED
  BY <1>2, <1>3 DEF Releasable

-----------------------------------------------------------------------------
(* The documents.                                                          *)

LEMMA DocsInit == ASSUME Init PROVE DocsInv
BY DEF Init, Idle, DocsInv, Passed

LEMMA DocsPerform ==
  ASSUME TypeInv, DocsInv, NEW s \in StepNames, Performs(s)
  PROVE  DocsInv'
<1>1. Frame(s)
  BY PerformFrame
<1>2. UNCHANGED <<kind, disk, steady>>
  BY <1>1 DEF Frame
<1>3. \A t : Passed(t)' => Passed(t) \/ t = s
  BY <1>1, Passing
<1>4. {"notes", "orientation", "preview", "critical"} \subseteq AllFiles /\ DOMAIN fab = AllFiles
  BY DEF TypeInv, FilesOK, AllFiles, FabFiles
<1>5. /\ s # "Notes" => fab'.notes = fab.notes
      /\ s # "Orientation" => fab'.orientation = fab.orientation
      /\ s # "Preview" => fab'.preview = fab.preview
      /\ s # "Critical" => fab'.critical = fab.critical
  BY <1>1, <1>4 DEF Frame, Writers
<1>6. /\ s = "Notes" => fab'.notes = Made(disk.pcb)
      /\ s = "Orientation" => fab'.orientation = Made(disk.pcb)
      /\ s = "Preview" => fab'.preview = Made(disk.pcb)
      /\ s = "Critical" => fab'.critical = Made(disk.pcb)
  BY <1>4 DEF Performs, WriteNotes, WriteOrientation, RenderPreview, WriteCritical, Emit
<1> QED
  BY <1>2, <1>3, <1>5, <1>6 DEF DocsInv

LEMMA DocsStep == ASSUME TypeInv, DocsInv, [Next]_vars PROVE DocsInv'
<1>1. CASE UNCHANGED vars
  BY <1>1 DEF vars, DocsInv, Passed
<1>2. CASE Saves
  BY <1>2, SaveStep DEF DocsInv
<1>3. CASE Starts
  BY <1>3, StartStep DEF DocsInv
<1>4. CASE Fail
  BY <1>4, FailPasses DEF DocsInv
<1>5. ASSUME NEW s \in StepNames, Performs(s) PROVE DocsInv'
  BY <1>5, DocsPerform
<1> QED
  BY <1>1, <1>2, <1>3, <1>4, <1>5, Actions

-----------------------------------------------------------------------------
(* The assembly files.                                                     *)

\* The BOM leaves columns of its rows out, and no reference.
LEMMA Columns ==
  ASSUME NEW rows, NEW file,
         file = [i \in DOMAIN rows |-> [comment |-> rows[i].comment, refs |-> rows[i].refs,
                                        foot |-> rows[i].foot, lcsc |-> rows[i].lcsc]]
  PROVE  RefsFromRows(file) = RefsFromRows(rows)
<1>1. DOMAIN file = DOMAIN rows
  OBVIOUS
<1>2. \A i \in DOMAIN rows : file[i].refs = rows[i].refs
  OBVIOUS
<1>3. [i \in DOMAIN file |-> file[i].refs] = [i \in DOMAIN rows |-> rows[i].refs]
  BY <1>1, <1>2
<1> QED
  BY <1>3 DEF RefsFromRows

LEMMA AssemblyInit == ASSUME Init PROVE AssemblyInv
BY DEF Init, Idle, AssemblyInv, Passed

LEMMA BomMade ==
  ASSUME TypeInv, WriteBom
  PROVE  /\ run'.bom = <<disk.sch, disk.map>>
         /\ Drawn' = Schematic
         /\ Lists(fab.bom)' /\ (Listing(DrawnRows) = Expected(kind, Drawn))'
<1>1. run' = [run EXCEPT !.left = @ \ {"Bom"}, !.bom = <<disk.sch, disk.map>>]
  BY DEF WriteBom
<1>2. run'.bom = <<disk.sch, disk.map>>
  BY <1>1 DEF TypeInv, OrderOK
<1>3. UNCHANGED <<kind, disk>>
  BY DEF WriteBom, Keep
<1>4. Drawn' = Schematic
  BY <1>2 DEF Drawn, Schematic
<1> DEFINE rows == BomRows(kind, Schematic, Map)
           file == [i \in DOMAIN rows |-> [comment |-> rows[i].comment, refs |-> rows[i].refs,
                                           foot |-> rows[i].foot, lcsc |-> rows[i].lcsc]]
<1>5. DrawnRows' = rows
  BY <1>2, <1>3, <1>4 DEF DrawnRows, Map
<1>6. Once(rows) /\ Listing(rows) = Expected(kind, Schematic)
  BY DEF WriteBom, AssertRefPartition
<1>7. fab'.bom = Made(file)
  BY DEF WriteBom, TypeInv, FilesOK, AllFiles, FabFiles
<1>8. RefsFromRows(file) = RefsFromRows(rows)
  BY Columns
<1>9. Once(file) /\ Listing(file) = Expected(kind, Schematic)
  BY <1>6, <1>8 DEF Once, Listing
<1>10. Lists(fab.bom)'
  BY <1>3, <1>4, <1>7, <1>9 DEF Lists
<1> QED
  BY <1>2, <1>3, <1>4, <1>5, <1>6, <1>10

LEMMA AssemblyPerform ==
  ASSUME TypeInv, AssemblyInv, NEW s \in StepNames, Performs(s)
  PROVE  AssemblyInv'
<1>1. Frame(s)
  BY PerformFrame
<1>2. UNCHANGED <<kind, disk, steady>> /\ Doing(s)
  BY <1>1 DEF Frame
<1>3. /\ \A t : Passed(t)' => Passed(t) \/ t = s
      /\ \A t : Passed(t) => t # s
      /\ s \in Steps(kind, run.full)
  BY <1>1, Passing
<1>4. {"bom", "assembly", "hand", "cpl"} \subseteq AllFiles /\ DOMAIN fab = AllFiles
  BY DEF TypeInv, FilesOK, AllFiles, FabFiles
<1>5. /\ s # "Bom" => fab'.bom = fab.bom
      /\ s # "Assembly" => fab'.assembly = fab.assembly
      /\ s # "Hand" => fab'.hand = fab.hand
      /\ s # "Cpl" => fab'.cpl = fab.cpl
  BY <1>1, <1>4 DEF Frame, Writers
<1>6. CASE s = "Bom"
  <2>1. \A t \in {"Assembly", "Hand", "Coverage", "Cpl"} : ~Passed(t)
    <3>1. "Bom" \in run.left
      BY <1>2, <1>6 DEF Doing
    <3>2. \A t \in {"Assembly", "Hand", "Coverage", "Cpl"} : ~(Place[t] < Place["Bom"])
      BY DEF Place
    <3> QED
      BY <3>1, <3>2 DEF Passed, TypeInv, OrderOK
  <2>2. \A t \in {"Assembly", "Hand", "Coverage", "Cpl"} : ~Passed(t)'
    BY <1>3, <1>6, <2>1
  <2>3. /\ run'.bom = <<disk.sch, disk.map>>
        /\ Lists(fab.bom)' /\ (Listing(DrawnRows) = Expected(kind, Drawn))'
    BY <1>6, BomMade DEF Performs
  <2> QED
    BY <1>2, <2>2, <2>3 DEF AssemblyInv
<1>7. CASE s # "Bom"
  <2>1. run'.bom = run.bom
    BY <1>1, <1>7 DEF Frame
  <2>2. Drawn' = Drawn /\ DrawnRows' = DrawnRows /\ DrawnHand' = DrawnHand /\ Board' = Board
    BY <1>2, <2>1 DEF Drawn, DrawnRows, DrawnHand, Board
  <2>3. Passed("Bom")' => Passed("Bom")
    BY <1>3, <1>7
  <2>4. Passed("Bom")' => Lists(fab.bom)' /\ (Listing(DrawnRows) = Expected(kind, Drawn))'
    <3>1. Passed("Bom")' => Lists(fab.bom) /\ Listing(DrawnRows) = Expected(kind, Drawn)
      BY <2>3 DEF AssemblyInv
    <3> QED
      BY <1>2, <1>5, <1>7, <2>2, <3>1 DEF Lists
  <2>6. Passed("Assembly")' => fab'.assembly = Made(DrawnRows)
    BY <1>3, <1>4, <1>5 DEF AssemblyInv, Performs, WriteAssembly, Emit
  <2>7. Passed("Hand")' => fab'.hand = Made(DrawnHand)
    BY <1>3, <1>4, <1>5 DEF AssemblyInv, Performs, WriteHand, Emit
  <2>8. Passed("Coverage")' => /\ Listing(DrawnHand) = BOARDS[kind].hand
                               /\ BOARDS[kind].priced => Priced(DrawnRows)
    BY <1>3 DEF AssemblyInv, Performs, CheckCoverage
  <2>9. s = "Cpl" => Lists(fab'.cpl) /\ fab'.cpl = Made(CplRows(kind, Board))
    <3>1. s = "Cpl" => /\ fab'.cpl = Made(CplRows(kind, Board))
                       /\ Once(CplRows(kind, Board)) /\ Listing(CplRows(kind, Board)) = Expected(kind, Drawn)
      BY <1>4 DEF Performs, WriteCpl, Emit, AssertRefPartition
    <3> QED
      BY <3>1 DEF Lists
  <2>10. Passed("Cpl")' => Lists(fab.cpl)'
    <3>1. Passed("Cpl")' => Lists(fab'.cpl)
      BY <1>3, <1>5, <2>9 DEF AssemblyInv
    <3> QED
      BY <1>2, <2>2, <3>1 DEF Lists
  <2>11. steady /\ Passed("Bom")' => run'.bom = <<disk.sch, disk.map>>
    BY <2>1, <2>3 DEF AssemblyInv
  <2>12. steady /\ Passed("Cpl")' => fab'.cpl = Made(CplRows(kind, Board))
    BY <1>3, <1>5, <2>9 DEF AssemblyInv
  <2> QED
    BY <1>2, <2>2, <2>4, <2>6, <2>7, <2>8, <2>10, <2>11, <2>12 DEF AssemblyInv
<1> QED
  BY <1>6, <1>7

LEMMA AssemblyStep == ASSUME TypeInv, AssemblyInv, [Next]_vars PROVE AssemblyInv'
<1>1. CASE UNCHANGED <<kind, fab, run, disk, steady>>
  BY <1>1 DEF AssemblyInv, Passed, Lists, Drawn, DrawnRows, DrawnHand, Board
<1>2. CASE Saves
  <2>1. UNCHANGED <<kind, fab, run>> /\ steady' = FALSE /\ \A t : Passed(t)' <=> Passed(t)
    BY <1>2, SaveStep
  <2>2. Drawn' = Drawn /\ DrawnRows' = DrawnRows /\ DrawnHand' = DrawnHand
    BY <2>1 DEF Drawn, DrawnRows, DrawnHand
  <2>3. \A f \in {"bom", "cpl"} : Lists(fab[f]) => Lists(fab[f])'
    BY <2>1, <2>2 DEF Lists
  <2> QED
    BY <2>1, <2>2, <2>3 DEF AssemblyInv
<1>3. CASE Starts
  BY <1>3, StartStep DEF AssemblyInv
<1>4. CASE Fail
  BY <1>4, FailPasses DEF AssemblyInv
<1>5. ASSUME NEW s \in StepNames, Performs(s) PROVE AssemblyInv'
  BY <1>5, AssemblyPerform
<1> QED
  BY <1>1, <1>2, <1>3, <1>4, <1>5, Actions DEF vars

\* At the end of a run that makes assembly files they agree.
LEMMA Agreed ==
  ASSUME TypeInv, AssemblyInv, kind \in {"pcb-01", "pcb-01-v2"}, NEW s \in {"Bind", "Done"}, Doing(s)
  PROVE  Agrees
<1>1. \A t \in {"Bom", "Assembly", "Hand", "Coverage", "Cpl"} : Passed(t)
  <2>1. \A t \in {"Bom", "Assembly", "Hand", "Coverage", "Cpl"} :
           t \in Steps(kind, run.full) /\ Place[t] < Place[s]
    BY StepsAre DEF Place, TypeInv, OrderOK, FilesOK
  <2> QED
    BY <2>1, Before
<1>2. PICK rows : fab.bom = Made(rows) /\ Once(rows) /\ Listing(rows) = Expected(kind, Drawn)
  BY <1>1 DEF AssemblyInv, Lists
<1>3. PICK places : fab.cpl = Made(places) /\ Once(places) /\ Listing(places) = Expected(kind, Drawn)
  BY <1>1 DEF AssemblyInv, Lists
<1>4. /\ fab.assembly = Made(DrawnRows) /\ Listing(DrawnRows) = Expected(kind, Drawn)
      /\ fab.hand = Made(DrawnHand)
      /\ Listing(DrawnHand) = BOARDS[kind].hand
      /\ BOARDS[kind].priced => Priced(DrawnRows)
  BY <1>1 DEF AssemblyInv
<1>5. /\ fab.bom.of = rows /\ fab.cpl.of = places /\ fab.assembly.of = DrawnRows /\ fab.hand.of = DrawnHand
      /\ {Absent, Torn} \cap {fab.bom, fab.cpl, fab.assembly, fab.hand} = {}
  BY <1>2, <1>3, <1>4, Files
<1>6. \A ref \in Expected(kind, Drawn) : ~Excluded(kind, ref)
  BY DEF Expected
<1> QED
  BY <1>2, <1>3, <1>4, <1>5, <1>6 DEF Agrees

-----------------------------------------------------------------------------
(* The release manifest.                                                   *)

LEMMA ListedFiles ==
  /\ \A k : Listed(k) \subseteq DiskFiles \cup (FabFiles \ {"manifest"})
  /\ \A k : {"pcb", "sch", "zip"} \subseteq Listed(k)
  /\ {"map", "bom", "cpl", "assembly", "hand", "notes", "orientation", "critical", "preview"}
       \subseteq Listed("pcb-01-v2")
  /\ "stencil" \in Listed("pcb-03")
  /\ DiskFiles \cap FabFiles = {}
BY DEF Listed, DiskFiles, FabFiles

LEMMA BoundStays ==
  ASSUME UNCHANGED <<kind, settled>>, NEW p, Bound(p)
  PROVE  Bound(p)'
BY DEF Bound, Agreeing, MadeFrom, Releasable

LEMMA ManifestInit == ASSUME Init PROVE ManifestInv
<1>1. run.left = {} /\ fab = [f \in AllFiles |-> IF f = "gerbers" THEN {} ELSE Absent]
  BY DEF Init, Idle, AllFiles
<1>2. fab.manifest = Absent
  BY <1>1 DEF AllFiles, FabFiles
<1> QED
  BY <1>1, <1>2 DEF ManifestInv, Passed

\* What is bound at the end of a full run.
LEMMA BindStep ==
  ASSUME TypeInv, GerberInv, GateInv, DocsInv, AssemblyInv, WriteManifest
  PROVE  Verifies' /\ \E p : fab'.manifest = Made(p) /\ Bound(p)'
<1>0. PICK p : p = [f \in Listed(kind) |-> Content(f)]
  OBVIOUS
<1>1. Doing("Bind") /\ UNCHANGED <<kind, disk, steady>> /\ settled' = steady
      /\ (\A f \in Listed(kind) : Content(f) # Absent)
      /\ fab' = [fab EXCEPT !["manifest"] = Made(p)]
  BY <1>0 DEF WriteManifest, Keep
<1>2. /\ fab'.manifest = Made(p) /\ \A f \in AllFiles : f # "manifest" => fab'[f] = fab[f]
  BY <1>1 DEF TypeInv, FilesOK, AllFiles, FabFiles
<1>3. run.full /\ kind \in {"pcb-01-v2", "pcb-03"}
  BY <1>1, StepsAre DEF Doing, TypeInv, OrderOK, FilesOK
<1>4. \A t \in Steps(kind, run.full) : Place[t] < Place["Bind"] => Passed(t)
  BY <1>1, Before
<1>5. Passed("Clear") /\ Passed("Drill") /\ Passed("Zip")
  <2>1. "Clear" \in Steps(kind, run.full) /\ "Drill" \in Steps(kind, run.full) /\ "Zip" \in Steps(kind, run.full)
    BY <1>3, StepsAre DEF TypeInv, OrderOK, FilesOK
  <2>2. \A t \in {"Clear", "Drill", "Zip"} : Place[t] < Place["Bind"]
    BY DEF Place
  <2> QED
    BY <1>4, <2>1, <2>2
<1>6. DOMAIN p = Listed(kind) /\ \A f \in Listed(kind) : p[f] = Content(f)
  BY <1>0
<1>7. \A f \in FabFiles : f \in Listed(kind) => p[f] = fab[f]
  BY <1>6 DEF Content
<1>8. \A f \in DiskFiles : f \in Listed(kind) => disk[f] # "none" /\ p[f] = Made(disk[f])
  BY <1>1, <1>6, ListedFiles DEF Content
<1>9. p["zip"] = Made(fab.gerbers) /\ Whole(fab.gerbers)
  BY <1>5, <1>7, ListedFiles DEF GerberInv, FabFiles
<1>10. p["zip"] \notin {Absent, Torn} /\ p["zip"].of = fab.gerbers
  BY <1>9, Files
<1>11. kind = "pcb-01-v2" => Agreeing(p)'
  <2>1. kind = "pcb-01-v2" => Agrees
    BY <1>1, Agreed
  <2>2. kind = "pcb-01-v2" => /\ p["bom"] = fab.bom /\ p["cpl"] = fab.cpl
                              /\ p["assembly"] = fab.assembly /\ p["hand"] = fab.hand
    BY <1>7, ListedFiles DEF FabFiles
  <2> QED
    BY <1>1, <2>1, <2>2 DEF Agrees, Agreeing
<1>12. ASSUME steady PROVE MadeFrom(p, disk.pcb, disk.sch, disk.map)'
  <2>1. Releasable(disk.pcb, disk.sch)'
    BY <1>1, <1>3, <1>12, Gated DEF Releasable
  <2>2. p["pcb"] = Made(disk.pcb) /\ p["sch"] = Made(disk.sch)
    BY <1>8, ListedFiles DEF DiskFiles
  <2>3. \A f \in p["zip"].of : f.of = disk.pcb
    BY <1>5, <1>10, <1>12 DEF GerberInv
  <2>4. CASE kind = "pcb-01-v2"
    <3>1. Passed("Notes") /\ Passed("Orientation") /\ Passed("Preview") /\ Passed("Critical")
          /\ Passed("Bom") /\ Passed("Cpl") /\ Passed("Assembly")
      BY <1>4, <2>4, StepsAre DEF TypeInv, OrderOK, FilesOK, Place
    <3>2. /\ p["notes"] = fab.notes /\ p["orientation"] = fab.orientation /\ p["critical"] = fab.critical
          /\ p["preview"] = fab.preview /\ p["cpl"] = fab.cpl /\ p["assembly"] = fab.assembly
      BY <1>7, <2>4, ListedFiles DEF FabFiles
    <3>3. {p["notes"], p["orientation"], p["critical"], p["preview"]} = {Made(disk.pcb)}
      BY <1>12, <3>1, <3>2 DEF DocsInv
    <3>4. p["map"] = Made(disk.map) /\ disk.map # "none"
      BY <1>8, <2>4, ListedFiles DEF DiskFiles
    <3>5. p["cpl"] = Made(CplRows(kind, Layouts[disk.pcb]))
      BY <1>12, <3>1, <3>2 DEF AssemblyInv, Board
    <3>6. p["assembly"] = Made(BomRows(kind, Schematics[disk.sch], SourceMaps[disk.map]))
      <4>1. fab.assembly = Made(DrawnRows) /\ run.bom = <<disk.sch, disk.map>>
        BY <1>12, <3>1 DEF AssemblyInv
      <4>2. DrawnRows = BomRows(kind, Schematics[disk.sch], SourceMaps[disk.map])
        BY <3>4, <4>1 DEF DrawnRows, Drawn
      <4> QED
        BY <3>2, <4>1, <4>2
    <3> QED
      BY <1>1, <2>1, <2>2, <2>3, <2>4, <3>3, <3>4, <3>5, <3>6 DEF MadeFrom
  <2>5. CASE kind = "pcb-03"
    <3>1. Passed("Stencil")
      <4>1. "Stencil" \in Steps(kind, run.full)
        BY <1>3, <2>5, StepsAre DEF TypeInv, OrderOK, FilesOK
      <4>2. Place["Stencil"] < Place["Bind"]
        BY DEF Place
      <4> QED
        BY <1>4, <4>1, <4>2
    <3>2. PICK paste \in SUBSET fab.gerbers : fab.stencil = Made(paste)
      BY <3>1 DEF GerberInv
    <3>3. p["stencil"] = Made(paste)
      BY <1>7, <2>5, <3>2, ListedFiles DEF FabFiles
    <3>4. p["stencil"].of \subseteq p["zip"].of
      BY <1>10, <3>3, Files
    <3> QED
      BY <1>1, <2>1, <2>2, <2>3, <2>5, <3>4 DEF MadeFrom
  <2> QED
    BY <1>3, <2>4, <2>5
<1>13. Bound(p)'
  BY <1>1, <1>6, <1>9, <1>10, <1>11, <1>12 DEF Bound
<1>14. Verifies'
  <2>1. fab'.manifest \notin {Absent, Torn} /\ fab'.manifest.of = p
    BY <1>2, Files
  <2>2. ASSUME NEW f \in Listed(kind) PROVE Content(f)' = p[f]
    <3>1. CASE f \in FabFiles
      <4>1. f # "manifest" /\ f \in AllFiles
        BY <3>1, ListedFiles DEF AllFiles
      <4>2. fab'[f] = fab[f]
        BY <1>2, <4>1
      <4> QED
        BY <1>7, <3>1, <4>2 DEF Content
    <3>2. CASE f \in DiskFiles
      BY <1>1, <1>6, <3>2, ListedFiles DEF Content
    <3> QED
      BY <3>1, <3>2, ListedFiles
  <2> QED
    BY <1>6, <2>1, <2>2 DEF Verifies
<1> QED
  BY <1>2, <1>13, <1>14

LEMMA ManifestPerform ==
  ASSUME TypeInv, GerberInv, GateInv, DocsInv, AssemblyInv, ManifestInv, NEW s \in StepNames, Performs(s)
  PROVE  ManifestInv'
<1>1. Frame(s)
  BY PerformFrame
<1>2. UNCHANGED <<kind, disk, steady>> /\ Doing(s) /\ s \in run.left /\ (s # "Bind" => settled' = settled)
  BY <1>1 DEF Frame, Doing
<1>3. /\ \A t : Passed(t)' => Passed(t) \/ t = s
      /\ \A t : Passed(t) => t # s
      /\ s \in Steps(kind, run.full)
  BY <1>1, Passing
<1>4. \A t : Passed(t) => Place[t] < Place[s]
  BY <1>2 DEF Passed, TypeInv, OrderOK
<1>5. CASE s \notin {"Unbind", "Bind"}
  <2>1. fab'.manifest = fab.manifest
    BY <1>1, <1>5 DEF Frame, Writers, AllFiles, FabFiles
  <2>2. Passed("Unbind")' => Passed("Unbind")
    BY <1>3, <1>5
  <2>3. Passed("Bind")' => Passed("Bind")
    BY <1>3, <1>5
  <2>4. Passed("Bind") => fab' = fab
    <3>1. Passed("Bind") => s = "Done"
      BY <1>3, <1>4 DEF StepNames, Place
    <3>2. s = "Done" => fab' = fab
      BY DEF Performs, Finish, Look
    <3> QED
      BY <3>1, <3>2
  <2>5. Passed("Bind") /\ Verifies => Verifies'
    BY <1>2, <2>4 DEF Verifies, Content
  <2>6. \A p : Bound(p) => Bound(p)'
    BY <1>2, <1>5, BoundStays
  <2> QED
    BY <1>2, <2>1, <2>2, <2>3, <2>5, <2>6 DEF ManifestInv
<1>6. CASE s = "Unbind"
  <2>1. fab'.manifest = Absent
    BY <1>6 DEF Performs, UnlinkManifest, TypeInv, FilesOK, AllFiles, FabFiles
  <2>2. ~Passed("Bind")'
    BY <1>3, <1>4, <1>6 DEF Place
  <2> QED
    BY <2>1, <2>2 DEF ManifestInv
<1>7. CASE s = "Bind"
  <2>1. Verifies' /\ \E p : fab'.manifest = Made(p) /\ Bound(p)'
    BY <1>7, BindStep DEF Performs
  <2>2. kind \in {"pcb-01-v2", "pcb-03"} /\ run.full
    BY <1>3, <1>7, StepsAre DEF TypeInv, OrderOK, FilesOK
  <2>3. ~Passed("Unbind")
    BY <2>2, StepsAre DEF Passed, TypeInv, OrderOK, FilesOK
  <2>4. ~Passed("Unbind")'
    BY <1>3, <1>7, <2>3
  <2> QED
    BY <1>2, <2>1, <2>2, <2>4 DEF ManifestInv
<1> QED
  BY <1>5, <1>6, <1>7

LEMMA ManifestStep ==
  ASSUME TypeInv, GerberInv, GateInv, DocsInv, AssemblyInv, ManifestInv, [Next]_vars
  PROVE  ManifestInv'
<1>1. CASE UNCHANGED vars
  <2>1. UNCHANGED <<kind, settled, fab, disk, run, steady>>
    BY <1>1 DEF vars
  <2>2. \A p : Bound(p) => Bound(p)'
    BY <2>1, BoundStays
  <2> QED
    BY <2>1, <2>2 DEF ManifestInv, Passed, Verifies, Content
<1>2. CASE Saves
  <2>1. UNCHANGED <<kind, fab, settled>> /\ steady' = FALSE /\ \A t : Passed(t)' <=> Passed(t)
    BY <1>2, SaveStep
  <2>2. \A p : Bound(p) => Bound(p)'
    BY <2>1, BoundStays
  <2> QED
    BY <2>1, <2>2 DEF ManifestInv
<1>3. CASE Starts
  <2>1. UNCHANGED <<kind, fab, settled>> /\ \A t : ~Passed(t)'
    BY <1>3, StartStep
  <2>2. \A p : Bound(p) => Bound(p)'
    BY <2>1, BoundStays
  <2> QED
    BY <2>1, <2>2 DEF ManifestInv
<1>4. CASE Fail
  <2>1. UNCHANGED <<kind, settled>> /\ (\A t : ~Passed(t)') /\ fab'.manifest \in {fab.manifest, Torn}
        /\ (fab'.manifest # fab.manifest => Doing("Bind"))
    BY <1>4, FailStep, FailPasses DEF FabFiles
  <2>2. \A p : Bound(p) => Bound(p)'
    BY <2>1, BoundStays
  <2>3. Doing("Bind") => kind \in {"pcb-01-v2", "pcb-03"}
    BY StepsAre DEF Doing, TypeInv, OrderOK, FilesOK
  <2> QED
    BY <2>1, <2>2, <2>3 DEF ManifestInv
<1>5. ASSUME NEW s \in StepNames, Performs(s) PROVE ManifestInv'
  BY <1>5, ManifestPerform
<1> QED
  BY <1>1, <1>2, <1>3, <1>4, <1>5, Actions

-----------------------------------------------------------------------------
(* The theorems.                                                           *)

LEMMA InvInit == ASSUME Init PROVE FabInv
BY TypeInit, GerberInit, GateInit, DocsInit, AssemblyInit, ManifestInit DEF FabInv

LEMMA InvStep == ASSUME FabInv, [Next]_vars PROVE FabInv'
BY TypeStep, GerberStep, GateStep, DocsStep, AssemblyStep, ManifestStep DEF FabInv

\* What a run has passed is true of what is there, to the end of any number of
\* runs (the main program of jlc_fab.py).
THEOREM RunsKeepOrder == Spec => []FabInv
<1>1. Init => FabInv
  BY InvInit
<1>2. FabInv /\ [Next]_vars => FabInv'
  BY InvStep
<1> QED
  BY <1>1, <1>2, PTL DEF Spec

LEMMA OfAPiece == ASSUME FabInv PROVE PackageAgrees
<1>1. fab.manifest \notin {Absent, Torn} => DOMAIN fab.manifest.of = Listed(kind)
  BY Files DEF FabInv, ManifestInv, Bound
<1>2. TypeOK
  BY <1>1 DEF FabInv, TypeInv, OrderOK, FilesOK, TypeOK, AllFiles
<1>3. ASSUME Doing("Done"), BOARDS[kind].assembly PROVE Agrees
  BY <1>3, Assembled, Agreed DEF FabInv, TypeInv, FilesOK
<1> QED
  BY <1>2, <1>3 DEF PackageAgrees, AssemblyAgrees, FabInv, GerberInv

\* The package is of a piece, after any runs that ended, failed or were killed
\* and whatever was saved meanwhile: a whole archive, and at the end of a run
\* assembly files that name the same parts (export_gerbers, export_bom, export_cpl).
THEOREM PackageIsOfAPiece == Spec => []PackageAgrees
<1>1. FabInv => PackageAgrees
  BY OfAPiece
<1> QED
  BY <1>1, RunsKeepOrder, PTL

LEMMA Speaks == ASSUME FabInv, Verifies PROVE ManifestSpeaksTrue
<1>1. PICK p : fab.manifest = Made(p) /\ Bound(p)
  BY DEF FabInv, ManifestInv, Verifies
<1>2. \A f \in Listed(kind) : Content(f) = p[f]
  BY <1>1, Files DEF Verifies, Bound
<1>3. \A f \in FabFiles : f \in Listed(kind) => fab[f] = p[f]
  BY <1>2 DEF Content
<1>4. \A f \in DiskFiles : \A v : f \in Listed(kind) /\ p[f] = Made(v) => disk[f] = v /\ disk[f] # "none"
  <2>1. SUFFICES ASSUME NEW f \in DiskFiles, NEW v, f \in Listed(kind), p[f] = Made(v)
                 PROVE  disk[f] = v /\ disk[f] # "none"
    OBVIOUS
  <2>2. Content(f) = IF disk[f] = "none" THEN Absent ELSE Made(disk[f])
    BY <2>1, ListedFiles DEF Content
  <2>3. Content(f) = Made(v) /\ Made(v) # Absent
    BY <1>2, <2>1, Files
  <2> QED
    BY <2>2, <2>3, Same
<1>5. fab.zip = p["zip"]
  BY <1>3, ListedFiles DEF FabFiles
<1>6. fab.zip \notin {Absent, Torn} /\ Whole(fab.zip.of)
  BY <1>1, <1>5 DEF Bound
<1>7. kind = "pcb-01-v2" =>
         /\ fab.bom = p["bom"] /\ fab.cpl = p["cpl"] /\ fab.assembly = p["assembly"] /\ fab.hand = p["hand"]
         /\ fab.notes = p["notes"] /\ fab.orientation = p["orientation"]
         /\ fab.critical = p["critical"] /\ fab.preview = p["preview"]
  BY <1>3, ListedFiles DEF FabFiles
<1>8. kind = "pcb-01-v2" => Agrees
  BY <1>1, <1>7 DEF Bound, Agreeing, Agrees
<1>9. ASSUME settled
      PROVE  /\ Releasable(disk.pcb, disk.sch)
             /\ \A f \in fab.zip.of : f.of = disk.pcb
             /\ kind = "pcb-01-v2" =>
                   /\ {fab.notes, fab.orientation, fab.critical, fab.preview} = {Made(disk.pcb)}
                   /\ fab.cpl = Made(CplRows(kind, Board))
                   /\ fab.assembly = Made(BomRows(kind, Schematic, Map))
             /\ kind = "pcb-03" => fab.stencil.of \subseteq fab.zip.of
  <2>1. PICK a, b, c : MadeFrom(p, a, b, c)
    BY <1>1, <1>9 DEF Bound
  <2>2. disk.pcb = a /\ disk.sch = b
    BY <1>4, <2>1, ListedFiles DEF MadeFrom, DiskFiles
  <2>3. Releasable(disk.pcb, disk.sch) /\ \A f \in fab.zip.of : f.of = disk.pcb
    BY <1>5, <2>1, <2>2 DEF MadeFrom
  <2>4. CASE kind = "pcb-01-v2"
    <3>1. disk.map = c /\ disk.map # "none"
      BY <1>4, <2>1, <2>4, ListedFiles DEF MadeFrom, DiskFiles
    <3>2. Map = SourceMaps[c] /\ Schematic = Schematics[b] /\ Board = Layouts[a]
      BY <2>2, <3>1 DEF Map, Schematic, Board
    <3>3. {fab.notes, fab.orientation, fab.critical, fab.preview} = {Made(disk.pcb)}
      BY <1>7, <2>1, <2>2, <2>4 DEF MadeFrom
    <3>4. fab.cpl = Made(CplRows(kind, Board)) /\ fab.assembly = Made(BomRows(kind, Schematic, Map))
      BY <1>7, <2>1, <2>4, <3>2 DEF MadeFrom
    <3> QED
      BY <2>3, <2>4, <3>3, <3>4
  <2>5. CASE kind = "pcb-03"
    <3>1. fab.stencil = p["stencil"]
      BY <1>3, <2>5, ListedFiles DEF FabFiles
    <3>2. fab.stencil.of \subseteq fab.zip.of
      BY <1>5, <2>1, <2>5, <3>1 DEF MadeFrom
    <3> QED
      BY <2>3, <2>5, <3>2
  <2> QED
    BY <2>3, <2>4, <2>5
<1> QED
  BY <1>6, <1>8, <1>9 DEF ManifestSpeaksTrue

\* A manifest that verifies is of a whole package, and, unless its own run was
\* disturbed, of one made from the sources it lists, which the gate let pass.
THEOREM VerifiedIsTrue == Spec => []ManifestSpeaksTrue
<1>1. FabInv => ManifestSpeaksTrue
  BY Speaks DEF ManifestSpeaksTrue
<1> QED
  BY <1>1, RunsKeepOrder, PTL

\* A run that ends well leaves no manifest that denies what is there
\* (write_release_manifest, and unlink in an assembly-only run).
THEOREM BindingIsFresh == Spec => []NoStaleBinding
<1>1. FabInv => NoStaleBinding
  <2>1. SUFFICES ASSUME FabInv, Doing("Done"), steady, kind = "pcb-01-v2" \/ run.full
                 PROVE  fab.manifest = Absent \/ Verifies
    BY DEF NoStaleBinding
  <2>2. ASSUME NEW t \in {"Unbind", "Bind"}, t \in Steps(kind, run.full) PROVE Passed(t)
    BY <2>1, <2>2, Before DEF FabInv, Place
  <2>3. kind = "pcb-01-v2" /\ ~run.full => "Unbind" \in Steps(kind, run.full)
    BY <2>1, StepsAre DEF FabInv, TypeInv, OrderOK, FilesOK
  <2>4. kind \in {"pcb-01-v2", "pcb-03"} /\ run.full => "Bind" \in Steps(kind, run.full)
    BY <2>1, StepsAre DEF FabInv, TypeInv, OrderOK, FilesOK
  <2> QED
    BY <2>1, <2>2, <2>3, <2>4 DEF FabInv, ManifestInv
<1> QED
  BY <1>1, RunsKeepOrder, PTL

LEMMA GatedStep == ASSUME FabInv, [Next]_vars, fab'.zip \notin {fab.zip, Torn}, steady
                   PROVE  Releasable(disk.pcb, disk.sch)
<1>1. ~UNCHANGED vars /\ ~Saves /\ ~Starts
  BY SaveStep, StartStep DEF vars, FabInv
<1>2. ~Fail
  BY FailStep DEF FabInv, FabFiles
<1>3. PICK s \in StepNames : Performs(s)
  BY <1>1, <1>2, Actions
<1>4. s = "Zip" /\ Doing(s)
  BY <1>3, UploadFiles, PerformFrame DEF FabInv, Frame
<1>5. run.full
  BY <1>4, StepsAre DEF FabInv, TypeInv, OrderOK, FilesOK, Doing
<1> QED
  BY <1>4, <1>5, Gated DEF FabInv

\* No archive is written of a board or with a schematic the gate refuses,
\* while nothing is saved (export_gerbers, run_drc, run_erc).
THEOREM NothingUngated == Spec => UploadIsGated
<1>1. FabInv /\ [Next]_vars => [fab'.zip \notin {fab.zip, Torn} /\ steady => Releasable(disk.pcb, disk.sch)]_vars
  BY GatedStep
<1> QED
  BY <1>1, RunsKeepOrder, PTL DEF Spec, UploadIsGated
====
