----------------------------- MODULE PcbWorkflow -----------------------------
(***************************************************************************)
(* The life of a board: the seed that is staged, checked and accepted      *)
(* (pcb/tools/tscircuit_handoff.py stage, accept), and the ECOs that       *)
(* follow, each a run of begin, plan, apply, validate, review and accept   *)
(* (pcb/tools/pcb_workflow.py), with the preparation audit inside them     *)
(* (pcb/tools/pcb_readiness.py).  Nothing locks the files the commands     *)
(* read: the author, the designer and other commands write them at any     *)
(* step.  A file is here the version it holds; what the versions contain   *)
(* is HandoffEco's matter, and a native edit is NativeTransaction's.       *)
(***************************************************************************)
EXTENDS Naturals, FiniteSets

CONSTANTS
    None,
    Procs,          \* the commands that may run at a time
    Runs,           \* evidence directories
    Sources,        \* versions of the authoritative source, tools included
    Natives,        \* versions of the native project
    Exports,        \* the seed a source exports
    Agrees,         \* the source a native project is in parity with
    Faults,         \* what each native project's checks find
    Unsound,        \* sources that fail their own checks
    Guarded,        \* changes of source that need --allow-routed-eco
    Restores,       \* whether an edit may bring back an earlier version
    MaxReviews      \* bound on reviews written

NativeChecks == {"erc", "drc", "preparation"}

ASSUME WorkflowAssumption ==
    /\ Sources \subseteq Nat /\ Natives \subseteq Nat /\ 0 \in Sources
    /\ Exports \in [Sources -> Natives] /\ Agrees \in [Natives -> Sources]
    /\ Faults \in [Natives -> SUBSET NativeChecks]
    /\ Unsound \subseteq Sources /\ Guarded \subseteq Sources \X Sources
    /\ Restores \in BOOLEAN /\ MaxReviews \in Nat

\* What the files and the indexes hold.
OrNone(S) == {None} \cup S
Locks == [manifest : Sources, native : OrNone(Natives)]
Fingerprints == [source : Sources, manifest : Sources, lock : OrNone(Locks)]
Plans == [from : OrNone(Locks), to : Sources, before : OrNone(Natives), allow : BOOLEAN]
Validations == [native : OrNone(Natives), inputs : Fingerprints, manifest : Sources,
                cleanup : Locks, snapshot : OrNone(Natives), renders : OrNone(Natives)]
Reports == [native : OrNone(Natives), inputs : OrNone(Locks \cup Fingerprints),
            manifest : OrNone(Sources), cleanup : OrNone(Locks),
            snapshot : OrNone(Natives), renders : OrNone(Natives)]
Reviews == [validation : Validations, saw : OrNone(Natives)]
Stages == {"new", "begun", "planned", "applying", "applied", "validating", "validated",
           "reviewed", "accepted", "failed"}
Indexes == [stage : Stages, baseline : OrNone(Locks), before : OrNone(Natives),
            snapshot : OrNone(Natives), plan : OrNone(Plans), target : OrNone(Fingerprints),
            validation : OrNone(Validations), review : OrNone(Reviews), accepted : OrNone(Locks)]
Receipts == [manifest : OrNone(Sources), board : OrNone(Natives)]
Boxes == [manifest : OrNone(Sources), board : OrNone(Natives), receipt : OrNone(Receipts)]
Trees == [native : OrNone(Natives)]
Audits == [native : OrNone(Natives), all : Fingerprints]

Commands == {"stage", "begin", "plan", "apply", "validate", "review", "accept"}

ASSUME NoneAssumption ==
    /\ None \notin Commands /\ None \notin Runs
    /\ None \notin Sources /\ None \notin Natives
    /\ None \notin Locks /\ None \notin Plans /\ None \notin Receipts
    /\ None \notin Validations /\ None \notin Reviews

VARIABLES
    source,         \* committed source, contracts, profiles and tools
    manifest,       \* the manifest the source build wrote last
    native,         \* the native project
    lock,           \* handoff.lock.json: an accepted manifest and its snapshot
    box,            \* the staging directory each command made last
    runs,           \* run.json of each run, with the evidence it names
    renders,        \* the native project each run's render files show
    reviews,        \* review files that were written
    tools           \* the commands under way

projectVars == <<source, manifest, native, lock>>
evidenceVars == <<runs, renders, reviews>>
vars == <<projectVars, box, evidenceVars, tools>>

\* Evidence is stored by its digest, so an index is as good as what it names.
NewIndex == [stage |-> "new", baseline |-> None, before |-> None, snapshot |-> None,
             plan |-> None, target |-> None, validation |-> None, review |-> None,
             accepted |-> None]

Report == [native |-> None, inputs |-> None, manifest |-> None, cleanup |-> None,
           snapshot |-> None, renders |-> None]

Steps == {"idle", "export", "check", "before", "begun", "build", "built", "plan", "planned",
          "apply", "applied", "inputs", "source", "cleanup", "parity", "drc", "audit", "audited",
          "render", "conclude", "review", "eco", "recheck", "advance", "accepted"}

\* A command under way: its next step, its run with the index it read, and what
\* it found so far.
Tools == [at : Steps, does : OrNone(Commands), run : OrNone(Runs), data : Indexes,
          held : OrNone(Trees \cup Locks \cup Fingerprints \cup Audits), report : Reports]

Idle == [at |-> "idle", does |-> None, run |-> None, data |-> NewIndex, held |-> None,
         report |-> Report]

\* fingerprints: everything the source roots, the profile and the lock hold.
Fingerprint == [source |-> source, manifest |-> manifest, lock |-> lock]

Moved(p, at) == tools' = [tools EXCEPT ![p].at = at]

Ended(p) == tools' = [tools EXCEPT ![p] = Idle]

Write(r, data) == runs' = [runs EXCEPT ![r] = data]

\* An exception: validate and apply record it in the index, and so does an
\* acceptance whose inputs changed under it.
Failed(p) ==
    LET t == tools[p] IN
    /\ Ended(p)
    /\ IF t.does \in {"validate", "apply"} \/ t.at = "recheck"
         THEN Write(t.run, [t.data EXCEPT !.stage = "failed"])
         ELSE UNCHANGED runs

-----------------------------------------------------------------------------
(* The initial handoff.                                                    *)

NoBox == [manifest |-> None, board |-> None, receipt |-> None]

\* A stage reads the manifest and hashes the protected tree.
Stage(p) ==
    /\ tools[p] = Idle /\ lock = None /\ manifest # None
    /\ tools' = [tools EXCEPT ![p] = [Idle EXCEPT !.at = "export", !.does = "stage",
                                                  !.held = [native |-> native]]]
    /\ box' = [box EXCEPT ![p] = [NoBox EXCEPT !.manifest = manifest]]
    /\ UNCHANGED <<projectVars, evidenceVars>>

\* run_guarded: a command of the stage left the protected tree as it was.
Guard(p) == native = tools[p].held.native

\* The build and export commands write the seed of the source as it now is.
Export(p) ==
    /\ tools[p].at = "export" /\ Guard(p)
    /\ box' = [box EXCEPT ![p].board = Exports[source]]
    /\ Moved(p, "check")
    /\ UNCHANGED <<projectVars, evidenceVars>>

Clean(n, m) == Faults[n] = {} /\ Agrees[n] = m

\* augment-staged, the initial checks, the netlist, the renders and the
\* snapshot, then the receipt with the final bytes.
Check(p) ==
    /\ tools[p].at = "check" /\ Guard(p)
    /\ Clean(box[p].board, box[p].manifest)
    /\ box' = [box EXCEPT ![p].receipt = [manifest |-> box[p].manifest, board |-> box[p].board]]
    /\ Ended(p)
    /\ UNCHANGED <<projectVars, evidenceVars>>

\* The seed is opened, and may be saved, in KiCad once its directory is printed.
Touch(p) ==
    /\ box[p].receipt # None /\ lock = None
    /\ \E n \in Natives : n > box[p].board /\ box' = [box EXCEPT ![p].board = n]
    /\ UNCHANGED <<projectVars, evidenceVars, tools>>

ReceiptSnapshotOnly(b) == b.receipt.manifest = manifest   \* a slip: no hashes of the staged files

\* verify_generated_kicad, verify_receipt_renders and the digests.
ReceiptBinds(b) ==
    /\ b.receipt.manifest = manifest
    /\ b.receipt.board = b.board

\* accept verifies the receipt of the directory it is given and records the
\* first lock.  The seed is then copied into the native project, by hand.
AcceptHandoff(p, b) ==
    /\ tools[p] = Idle /\ lock = None /\ b.receipt # None
    /\ ReceiptBinds(b)
    /\ lock' = [manifest |-> b.receipt.manifest, native |-> b.receipt.board]
    /\ native' = b.board
    /\ UNCHANGED <<source, manifest, box, evidenceVars, tools>>

-----------------------------------------------------------------------------
(* begin and plan.                                                         *)

\* Workflow: every command of a run wants the project's files, the lock too.
Opened == lock # None

Start(p, r, does, at) ==
    /\ tools[p] = Idle /\ Opened
    /\ tools' = [tools EXCEPT ![p] = [Idle EXCEPT !.at = at, !.does = does, !.run = r,
                                                  !.data = runs[r], !.report.native = native,
                                                  !.report.inputs = lock]]

Begin(p, r) ==
    /\ runs[r] = NewIndex
    /\ Start(p, r, "begin", "before")
    /\ UNCHANGED <<projectVars, box, evidenceVars>>

\* The snapshot is refused unless the native project is in parity with the lock.
TakeBefore(p) ==
    /\ tools[p].at = "before"
    /\ Agrees[native] = tools[p].report.inputs.manifest
    /\ tools' = [tools EXCEPT ![p].at = "begun", ![p].data.snapshot = native]
    /\ UNCHANGED <<projectVars, box, evidenceVars>>

BeginEnds(p) ==
    LET t == tools[p] IN
    /\ t.at = "begun" /\ native = t.report.native
    /\ Write(t.run, [t.data EXCEPT !.stage = "begun", !.baseline = lock, !.before = native])
    /\ Ended(p)
    /\ UNCHANGED <<projectVars, box, renders, reviews>>

Blocked(plan) == <<plan.from.manifest, plan.to>> \in Guarded /\ ~plan.allow

Plan(p, r) ==
    /\ runs[r].stage \in {"begun", "planned"}
    /\ runs[r].before = native /\ runs[r].baseline = lock
    /\ Start(p, r, "plan", "build")
    /\ UNCHANGED <<projectVars, box, evidenceVars>>

\* build_source: the build writes the manifest of the source, which may have
\* been edited by the time its inputs are hashed again.
BuildStarts(p) ==
    /\ tools[p].at = "build"
    /\ manifest' = source
    /\ tools' = [tools EXCEPT ![p].at = "built", ![p].held = Fingerprint]
    /\ UNCHANGED <<source, native, lock, box, evidenceVars>>

BuildEnds(p) ==
    /\ tools[p].at = "built"
    /\ tools[p].held.source = source /\ tools[p].held.lock = lock
    /\ Moved(p, IF tools[p].does = "plan" THEN "plan" ELSE "inputs")
    /\ UNCHANGED <<projectVars, box, evidenceVars>>

PlanFor(m, data, allow) ==
    [from |-> lock, to |-> m, before |-> data.snapshot, allow |-> allow]

\* build_plan, with the flag the user gave.  A blocked plan is recorded too.
MakePlan(p) ==
    /\ tools[p].at = "plan"
    /\ \E allow \in BOOLEAN :
         tools' = [tools EXCEPT ![p].at = "planned",
                                ![p].data.plan = PlanFor(manifest, tools[p].data, allow)]
    /\ UNCHANGED <<projectVars, box, evidenceVars>>

PlanEnds(p) ==
    LET t == tools[p] IN
    /\ t.at = "planned"
    /\ Write(t.run, [t.data EXCEPT !.stage = "planned", !.target = Fingerprint,
                                   !.validation = None, !.review = None])
    /\ Ended(p)
    /\ UNCHANGED <<projectVars, box, renders, reviews>>

-----------------------------------------------------------------------------
(* apply.                                                                  *)

\* a slip: only the inputs of the plan are compared.
PlannedInputs(r) ==
    /\ runs[r].stage = "planned" /\ ~Blocked(runs[r].plan)
    /\ runs[r].target = Fingerprint

Planned(r) ==
    /\ runs[r].stage = "planned" /\ ~Blocked(runs[r].plan)
    /\ runs[r].target = Fingerprint /\ runs[r].before = native

Apply(p, r) ==
    /\ Planned(r)
    /\ Start(p, r, "apply", "apply")
    /\ Write(r, [runs[r] EXCEPT !.stage = "applying", !.validation = None, !.review = None])
    /\ UNCHANGED <<projectVars, box, renders, reviews>>

\* kicad_native applies the transaction to the files it was made for, or leaves
\* them alone (NativeTransaction).
ApplyNative(p) ==
    /\ tools[p].at = "apply" /\ native = tools[p].report.native
    /\ \E n \in Natives : n > native /\ native' = n
    /\ Moved(p, "applied")
    /\ UNCHANGED <<source, manifest, lock, box, evidenceVars>>

ApplyEnds(p) ==
    LET t == tools[p] IN
    /\ t.at = "applied" /\ t.data.target = Fingerprint
    /\ Write(t.run, [t.data EXCEPT !.stage = "applied", !.validation = None, !.review = None])
    /\ Ended(p)
    /\ UNCHANGED <<projectVars, box, renders, reviews>>

-----------------------------------------------------------------------------
(* validate.                                                               *)

\* Older success is withdrawn before the checks run.
Invalidated(data) == [data EXCEPT !.validation = None, !.review = None]

Validate(p, r) ==
    /\ Start(p, r, "validate", "build")
    /\ Write(r, [Invalidated(runs[r]) EXCEPT !.stage = "validating"])
    /\ UNCHANGED <<projectVars, box, renders, reviews>>

TakeInputs(p) ==
    /\ tools[p].at = "inputs"
    /\ tools' = [tools EXCEPT ![p].at = "source", ![p].data = Invalidated(@),
                              ![p].report.inputs = Fingerprint]
    /\ UNCHANGED <<projectVars, box, evidenceVars>>

CheckSource(p) ==
    /\ tools[p].at = "source" /\ source \notin Unsound
    /\ Moved(p, "cleanup")
    /\ UNCHANGED <<projectVars, box, evidenceVars>>

\* verify-schematic-cleanup: fields and nets against the manifest, strict ERC.
Cleanup(p) ==
    /\ tools[p].at = "cleanup"
    /\ "erc" \notin Faults[native] /\ Agrees[native] = manifest
    /\ tools' = [tools EXCEPT ![p].at = "parity",
                              ![p].report.cleanup = [manifest |-> manifest, native |-> native]]
    /\ UNCHANGED <<projectVars, box, evidenceVars>>

Parity(p) ==
    /\ tools[p].at = "parity"
    /\ Agrees[native] = manifest
    /\ tools' = [tools EXCEPT ![p].at = "drc", ![p].report.manifest = manifest,
                              ![p].report.snapshot = native]
    /\ UNCHANGED <<projectVars, box, evidenceVars>>

\* a slip: the exit status of kicad-cli, which findings do not change.
DrcExitStatus(p) ==
    /\ tools[p].at = "drc"
    /\ Moved(p, "audit")
    /\ UNCHANGED <<projectVars, box, evidenceVars>>

Drc(p) ==
    /\ tools[p].at = "drc" /\ "drc" \notin Faults[native]
    /\ Moved(p, "audit")
    /\ UNCHANGED <<projectVars, box, evidenceVars>>

\* audit_project loads the board and hashes its inputs, then hashes them again.
AuditStarts(p) ==
    /\ tools[p].at = "audit"
    /\ tools' = [tools EXCEPT ![p].at = "audited", ![p].held = [native |-> native, all |-> Fingerprint]]
    /\ UNCHANGED <<projectVars, box, evidenceVars>>

AuditEnds(p) ==
    /\ tools[p].at = "audited"
    /\ tools[p].held = [native |-> native, all |-> Fingerprint]
    /\ "preparation" \notin Faults[tools[p].held.native]
    /\ Moved(p, "render")
    /\ UNCHANGED <<projectVars, box, evidenceVars>>

Render(p) ==
    /\ tools[p].at = "render"
    /\ renders' = [renders EXCEPT ![tools[p].run] = native]
    /\ tools' = [tools EXCEPT ![p].at = "conclude", ![p].report.renders = native]
    /\ UNCHANGED <<projectVars, box, runs, reviews>>

Unchanged(report) == report.native = native /\ report.inputs = Fingerprint

Conclude(p) ==
    LET t == tools[p] IN
    /\ t.at = "conclude" /\ Unchanged(t.report)
    /\ Write(t.run, [t.data EXCEPT !.stage = "validated", !.validation = t.report])
    /\ Ended(p)
    /\ UNCHANGED <<projectVars, box, renders, reviews>>

-----------------------------------------------------------------------------
(* review and accept.                                                      *)

\* The reviewer, who looks at the renders of a run that shows a validation.
Inspect(r) ==
    /\ runs[r].validation # None /\ renders[r] # None /\ Cardinality(reviews) < MaxReviews
    /\ reviews' = reviews \cup {[validation |-> runs[r].validation, saw |-> renders[r]]}
    /\ UNCHANGED <<projectVars, box, runs, renders, tools>>

\* checked_validation: a validation is as good as its inputs are current.
Checked(r) ==
    LET v == runs[r].validation IN
    /\ runs[r].stage \in {"validated", "reviewed"}
    /\ Unchanged(v)
    /\ v.renders = renders[r]

BindsValidation(review, data) == review.validation = data.validation

Review(p, r) ==
    /\ Checked(r)
    /\ Start(p, r, "review", "review")
    /\ UNCHANGED <<projectVars, box, evidenceVars>>

ReviewEnds(p) ==
    LET t == tools[p] IN
    /\ t.at = "review"
    /\ \E review \in reviews :
         /\ BindsValidation(review, t.data)
         /\ Write(t.run, [t.data EXCEPT !.stage = "reviewed", !.review = review])
    /\ Ended(p)
    /\ UNCHANGED <<projectVars, box, renders, reviews>>

Accept(p, r) ==
    /\ Checked(r)
    /\ runs[r].stage = "reviewed" /\ runs[r].plan # None
    /\ BindsValidation(runs[r].review, runs[r])
    /\ runs[r].baseline = lock
    /\ Start(p, r, "accept", "eco")
    /\ UNCHANGED <<projectVars, box, evidenceVars>>

\* a slip: an unblocked plan is taken as it is, whatever it was made for.
PlanUnblocked(data, m) == ~Blocked(data.plan)

\* accept-eco makes the plan again, for the manifest that was validated.
PlanStands(data, m) ==
    /\ data.plan = PlanFor(m, data, data.plan.allow)
    /\ ~Blocked(data.plan)

\* accept-eco, on a copy of the lock; what it compares of the snapshots is
\* HandoffEco's AcceptEco.
AcceptEco(p) ==
    LET t == tools[p]  v == t.data.validation IN
    /\ t.at = "eco"
    /\ PlanStands(t.data, v.manifest)
    /\ v.cleanup = [manifest |-> v.manifest, native |-> native]
    /\ v.snapshot = native
    /\ tools' = [tools EXCEPT ![p].at = "recheck",
                              ![p].held = [manifest |-> v.manifest, native |-> native]]
    /\ UNCHANGED <<projectVars, box, evidenceVars>>

Recheck(p) ==
    /\ tools[p].at = "recheck" /\ Unchanged(tools[p].data.validation)
    /\ Moved(p, "advance")
    /\ UNCHANGED <<projectVars, box, evidenceVars>>

Advance(p) ==
    /\ tools[p].at = "advance"
    /\ lock' = tools[p].held
    /\ Moved(p, "accepted")
    /\ UNCHANGED <<source, manifest, native, box, evidenceVars>>

AcceptEnds(p) ==
    LET t == tools[p] IN
    /\ t.at = "accepted"
    /\ Write(t.run, [t.data EXCEPT !.stage = "accepted", !.accepted = lock])
    /\ Ended(p)
    /\ UNCHANGED <<projectVars, box, renders, reviews>>

-----------------------------------------------------------------------------
\* A check that fails, or files that changed under a command.
Raise(p) ==
    /\ tools[p] # Idle /\ tools[p].at \notin {"advance", "accepted"}
    /\ Failed(p)
    /\ UNCHANGED <<projectVars, box, renders, reviews>>

\* A command that is killed writes nothing.
Crash(p) ==
    /\ tools[p] # Idle
    /\ Ended(p)
    /\ UNCHANGED <<projectVars, box, evidenceVars>>

May(new, old) == new > old \/ (Restores /\ new < old)

EditSource ==
    /\ \E s \in Sources : May(s, source) /\ source' = s
    /\ UNCHANGED <<manifest, native, lock, box, evidenceVars, tools>>

\* The designer saves in KiCad.
EditNative ==
    /\ native # None
    /\ \E n \in Natives : May(n, native) /\ native' = n
    /\ UNCHANGED <<source, manifest, lock, box, evidenceVars, tools>>

Init ==
    /\ source = 0 /\ manifest \in Sources \cap {0} /\ native = None /\ lock = None /\ box = [p \in Procs |-> NoBox]
    /\ runs = [r \in Runs |-> NewIndex] /\ renders = [r \in Runs |-> None] /\ reviews = {}
    /\ tools = [p \in Procs |-> Idle]

Command(p) ==
    \/ Stage(p) \/ Export(p) \/ Check(p) \/ (\E d \in Procs : AcceptHandoff(p, box[d]))
    \/ TakeBefore(p) \/ BeginEnds(p)
    \/ BuildStarts(p) \/ BuildEnds(p) \/ MakePlan(p) \/ PlanEnds(p)
    \/ ApplyNative(p) \/ ApplyEnds(p)
    \/ TakeInputs(p) \/ CheckSource(p) \/ Cleanup(p) \/ Parity(p) \/ Drc(p)
    \/ AuditStarts(p) \/ AuditEnds(p) \/ Render(p) \/ Conclude(p)
    \/ ReviewEnds(p)
    \/ AcceptEco(p) \/ Recheck(p) \/ Advance(p) \/ AcceptEnds(p)
    \/ Raise(p) \/ Crash(p)
    \/ \E r \in Runs : Begin(p, r) \/ Plan(p, r) \/ Apply(p, r) \/ Validate(p, r)
                         \/ Review(p, r) \/ Accept(p, r)

Next ==
    \/ \E p \in Procs : Command(p) \/ Touch(p)
    \/ \E r \in Runs : Inspect(r)
    \/ EditSource \/ EditNative

Spec == Init /\ [][Next]_vars

-----------------------------------------------------------------------------
(* Properties.                                                             *)

\* Types, and what an index promises at each stage: while checks run there is
\* no success to review, and a review goes with its validation.
TypeOK ==
    /\ source \in Sources /\ manifest \in Sources
    /\ native \in OrNone(Natives) /\ lock \in OrNone(Locks)
    /\ box \in [Procs -> Boxes] /\ tools \in [Procs -> Tools]
    /\ runs \in [Runs -> Indexes] /\ renders \in [Runs -> OrNone(Natives)]
    /\ reviews \subseteq Reviews
    /\ \A r \in Runs :
         /\ runs[r].stage \in {"validating", "applying", "planned"} => runs[r].validation = None
         /\ runs[r].stage \in {"validated", "reviewed", "accepted"} => runs[r].validation # None
         /\ runs[r].review # None => runs[r].review.validation = runs[r].validation

\* Whatever was edited, checked again or killed on the way, the lock describes
\* a native project that passes every check against the manifest it records.
AcceptedIsSound == lock # None => Clean(lock.native, lock.manifest)

\* Indexes hold no success older than their stage, and the lock no unsound board.
WorkflowConsistent == TypeOK /\ AcceptedIsSound

\* Run r's unblocked plan was made against the lock, from a native project that
\* agreed with it, for the manifest that is accepted (plan, command_accept_eco).
PlannedBy(r) ==
    LET plan == runs[r].plan IN
    /\ plan # None /\ ~Blocked(plan)
    /\ plan.from = lock /\ plan.to = lock'.manifest
    /\ plan.before = runs[r].before /\ Agrees[plan.before] = lock.manifest

\* The lock advances only as some run planned, and only to a native project
\* that a reviewer saw in the renders, for the validation they signed (accept,
\* review, checked_validation).
AdvancesAsReviewed ==
    [][lock # None /\ lock' # lock =>
         /\ \E r \in Runs : PlannedBy(r)
         /\ \E review \in reviews :
               review.saw = lock'.native /\ review.validation.manifest = lock'.manifest]_vars

\* The seed that becomes the native project is the one the first lock records.
AdoptedAsStaged == [][lock = None /\ lock' # None => native' = lock'.native]_vars

\* A native edit is made only to the files the run began with, which its plan
\* was reviewed for; a designer's save in between is never edited over (planned,
\* apply, and the before_files of the transaction).
AppliesToBaseline ==
    [][\A p \in Procs :
         tools[p].at = "apply" /\ tools'[p].at = "applied" =>
            /\ native = runs[tools[p].run].before
            /\ runs[tools[p].run].stage = "applying"
            /\ lock = runs[tools[p].run].baseline]_vars
=============================================================================
