-------------------------- MODULE PcbWorkflowProofs --------------------------
(***************************************************************************)
(* Theorems about PcbWorkflow, for any evidence directories, sources and   *)
(* native projects, whatever their checks find and the reviewer signs.     *)
(* That the lock is sound is shown for any number of commands at a time,   *)
(* and that it advances as planned and as reviewed for one: commands that  *)
(* overlap are not kept from replacing each other's lock.                  *)
(***************************************************************************)
EXTENDS PcbWorkflow, TLAPS

USE DEF OrNone

\* The command a step belongs to.
Doing(does, at) ==
    \/ does = None /\ at = "idle"
    \/ does = "stage" /\ at \in {"export", "check"}
    \/ does = "begin" /\ at \in {"before", "begun"}
    \/ does = "plan" /\ at \in {"build", "built", "plan", "planned"}
    \/ does = "apply" /\ at \in {"apply", "applied"}
    \/ /\ does = "validate"
       /\ at \in {"build", "built", "inputs", "source", "cleanup", "parity", "drc", "audit",
                    "audited", "render", "conclude"}
    \/ does = "review" /\ at = "review"
    \/ does = "accept" /\ at \in {"eco", "recheck", "advance", "accepted"}

InParity == {"parity", "drc", "audit", "audited", "render", "conclude"}
InDrc == InParity \ {"parity"}
InChecks == {"source", "cleanup"} \cup InParity

\* Steps of a command that works on a run.
Running(t) == t.does \notin {None, "stage"}

ToolOK(t) ==
    /\ t \in Tools
    /\ Doing(t.does, t.at)
    /\ Running(t) => t.run \in Runs
    /\ t.data.review # None => t.data.review.validation = t.data.validation
    /\ t.does \in {"review", "accept"} => t.data.validation # None
    /\ t.at \in InChecks => /\ t.report.inputs \in Fingerprints
                            /\ t.data.validation = None /\ t.data.review = None
    /\ t.at \in InParity => t.report.cleanup \in Locks
    /\ t.at \in InDrc => t.report.manifest \in Sources
    /\ t.at \in {"recheck", "advance"} => t.held \in Locks

IndexOK(d) ==
    /\ d \in Indexes
    /\ d.stage \in {"validating", "applying", "planned"} => d.validation = None
    /\ d.stage \in {"validated", "reviewed", "accepted"} => d.validation # None
    /\ d.review # None => d.review.validation = d.validation

FilesOK ==
    /\ source \in Sources /\ manifest \in Sources
    /\ native \in OrNone(Natives) /\ lock \in OrNone(Locks)
    /\ box \in [Procs -> Boxes]
    /\ renders \in [Runs -> OrNone(Natives)]
    /\ reviews \subseteq Reviews

\* Types, step by step.
ToolsOK == tools \in [Procs -> Tools] /\ \A p \in Procs : ToolOK(tools[p])

RunsOK == runs \in [Runs -> Indexes] /\ \A r \in Runs : IndexOK(runs[r])

TypeInv == FilesOK /\ ToolsOK /\ RunsOK

\* A command works on a run only after the first lock.
LockHeld == \A p \in Procs : Running(tools[p]) => lock # None

LEMMA IdleOK == ToolOK(Idle) /\ IndexOK(NewIndex)
<1>1. NewIndex \in Indexes
  BY DEF NewIndex, Indexes, Stages
<1>2. IndexOK(NewIndex)
  BY <1>1 DEF NewIndex, IndexOK
<1>3. Report \in Reports
  BY DEF Report, Reports
<1>4. Idle \in Tools
  BY <1>1, <1>3 DEF Idle, Tools, Steps
<1>5. Idle.at = "idle" /\ Idle.does = None /\ Idle.data.review = None
  BY DEF Idle, NewIndex
<1> HIDE DEF Idle
<1>6. ToolOK(Idle)
  BY <1>4, <1>5, NoneAssumption DEF ToolOK, Doing, Running, InParity, InDrc, InChecks, Commands
<1> QED
  BY <1>2, <1>6

LEMMA InitType == Init => TypeInv
<1> SUFFICES ASSUME Init PROVE TypeInv
  OBVIOUS
<1>1. FilesOK
  BY DEF Init, FilesOK, NoBox, Boxes
<1>2. ToolsOK
  BY IdleOK DEF Init, ToolOK, ToolsOK
<1>3. RunsOK
  BY IdleOK DEF Init, IndexOK, RunsOK
<1> QED
  BY <1>1, <1>2, <1>3 DEF TypeInv

\* One command's step keeps the others as they were.
LEMMA ToolsStep ==
  ASSUME ToolsOK, NEW p \in Procs, NEW t, ToolOK(t), tools' = [tools EXCEPT ![p] = t]
  PROVE  ToolsOK'
BY DEF ToolsOK, ToolOK

LEMMA EndedOK == ASSUME ToolsOK, NEW p \in Procs, Ended(p) PROVE ToolsOK'
BY ToolsStep, IdleOK DEF Ended

LEMMA WriteOK == ASSUME RunsOK, NEW r, NEW d, IndexOK(d), Write(r, d) PROVE RunsOK'
BY DEF RunsOK, IndexOK, Write

LEMMA FingerprintType == FilesOK => Fingerprint \in Fingerprints
BY DEF FilesOK, Fingerprint, Fingerprints

\* A command that only moves on keeps what its earlier steps found.
LEMMA MoveOK ==
  ASSUME NEW t, ToolOK(t), NEW a, Doing(t.does, a),
         a \in InChecks => t.at \in InChecks,
         a \in InParity => t.at \in InParity,
         a \in InDrc => t.at \in InDrc,
         a \in {"recheck", "advance"} => t.at \in {"recheck", "advance"}
  PROVE  ToolOK([t EXCEPT !.at = a])
<1> DEFINE u == [t EXCEPT !.at = a]
<1>1. /\ u \in Tools /\ u.at = a /\ u.does = t.does /\ u.run = t.run
      /\ u.data = t.data /\ u.held = t.held /\ u.report = t.report
  BY DEF ToolOK, Tools, Doing, Steps
<1> HIDE DEF u
<1>2. Doing(u.does, u.at)
  BY <1>1 DEF Doing
<1>3. ToolOK(u)
  BY <1>1, <1>2 DEF ToolOK, Running
<1> QED
  BY <1>3 DEF u

LEMMA MovedOK ==
  ASSUME ToolsOK, NEW p \in Procs, NEW a, Moved(p, a),
         Doing(tools[p].does, a),
         a \in InChecks => tools[p].at \in InChecks,
         a \in InParity => tools[p].at \in InParity,
         a \in InDrc => tools[p].at \in InDrc,
         a \in {"recheck", "advance"} => tools[p].at \in {"recheck", "advance"}
  PROVE  ToolsOK'
<1>1. ToolOK([tools[p] EXCEPT !.at = a])
  BY MoveOK DEF ToolsOK
<1>2. tools' = [tools EXCEPT ![p] = [tools[p] EXCEPT !.at = a]]
  BY DEF Moved
<1> QED
  BY <1>1, <1>2, ToolsStep

\* The commands that only move.
LEMMA MoveType ==
  ASSUME ToolsOK, NEW p \in Procs,
         \/ Export(p) \/ BuildEnds(p) \/ ApplyNative(p) \/ CheckSource(p) \/ Drc(p) \/ AuditEnds(p)
         \/ Recheck(p) \/ Advance(p)
  PROVE  ToolsOK'
<1>d. Doing(tools[p].does, tools[p].at) /\ tools[p].does \in OrNone(Commands)
  BY DEF ToolOK, Tools, ToolsOK
<1> USE NoneAssumption
<1>1. CASE Export(p)
  <2>1. /\ Moved(p, "check")
        /\ Doing(tools[p].does, "check")
    BY <1>1, <1>d DEF Export, Doing, Commands
  <2> QED
    BY <1>1, <2>1, MovedOK DEF Export, InChecks, InParity, InDrc
<1>2. CASE ApplyNative(p)
  <2>1. /\ Moved(p, "applied")
        /\ Doing(tools[p].does, "applied")
    BY <1>2, <1>d DEF ApplyNative, Doing, Commands
  <2> QED
    BY <1>2, <2>1, MovedOK DEF ApplyNative, InChecks, InParity, InDrc
<1>3. CASE CheckSource(p)
  <2>1. /\ Moved(p, "cleanup")
        /\ Doing(tools[p].does, "cleanup")
    BY <1>3, <1>d DEF CheckSource, Doing, Commands
  <2> QED
    BY <1>3, <2>1, MovedOK DEF CheckSource, InChecks, InParity, InDrc
<1>4. CASE Drc(p)
  <2>1. /\ Moved(p, "audit")
        /\ Doing(tools[p].does, "audit")
    BY <1>4, <1>d DEF Drc, Doing, Commands
  <2> QED
    BY <1>4, <2>1, MovedOK DEF Drc, InChecks, InParity, InDrc
<1>5. CASE AuditEnds(p)
  <2>1. /\ Moved(p, "render")
        /\ Doing(tools[p].does, "render")
    BY <1>5, <1>d DEF AuditEnds, Doing, Commands
  <2> QED
    BY <1>5, <2>1, MovedOK DEF AuditEnds, InChecks, InParity, InDrc
<1>6. CASE Recheck(p)
  <2>1. /\ Moved(p, "advance")
        /\ Doing(tools[p].does, "advance")
    BY <1>6, <1>d DEF Recheck, Doing, Commands
  <2> QED
    BY <1>6, <2>1, MovedOK DEF Recheck, InChecks, InParity, InDrc
<1>7. CASE Advance(p)
  <2>1. /\ Moved(p, "accepted")
        /\ Doing(tools[p].does, "accepted")
    BY <1>7, <1>d DEF Advance, Doing, Commands
  <2> QED
    BY <1>7, <2>1, MovedOK DEF Advance, InChecks, InParity, InDrc
<1>8. CASE BuildEnds(p)
  <2>1. CASE tools[p].does = "plan"
    <3>1. Moved(p, "plan") /\ Doing(tools[p].does, "plan")
      BY <1>8, <2>1 DEF BuildEnds, Doing
    <3> QED
      BY <3>1, MovedOK DEF InChecks, InParity, InDrc
  <2>2. CASE tools[p].does # "plan"
    <3>1. Moved(p, "inputs") /\ Doing(tools[p].does, "inputs")
      BY <1>8, <2>2, <1>d DEF BuildEnds, Doing, Commands
    <3> QED
      BY <3>1, MovedOK DEF InChecks, InParity, InDrc
  <2> QED
    BY <2>1, <2>2
<1> QED
  BY <1>1, <1>2, <1>3, <1>4, <1>5, <1>6, <1>7, <1>8


LEMMA StartOK ==
  ASSUME TypeInv, NEW p \in Procs, NEW r \in Runs, NEW does \in Commands, NEW at,
         does # "stage", Start(p, r, does, at), Doing(does, at),
         at \notin InChecks \cup {"recheck", "advance"},
         does \in {"review", "accept"} => runs[r].validation # None
  PROVE  ToolsOK'
<1> DEFINE f == [Report EXCEPT !.native = native, !.inputs = lock]
<1> DEFINE t == [Idle EXCEPT !.at = at, !.does = does, !.run = r, !.data = runs[r], !.report = f]
<1>1. runs[r] \in Indexes /\ IndexOK(runs[r]) /\ native \in OrNone(Natives) /\ lock \in OrNone(Locks)
  BY DEF TypeInv, RunsOK, FilesOK
<1>2. at \in Steps
  BY DEF Doing, Steps
<1>3. f \in Reports
  BY <1>1 DEF Report, Reports
<1>6. tools' = [tools EXCEPT ![p] = t]
  BY DEF Start, Idle
<1> HIDE DEF f
<1>5. /\ t \in Tools /\ t.at = at /\ t.does = does /\ t.run = r /\ t.data = runs[r]
      /\ t.report = f
  BY <1>1, <1>2, <1>3, IdleOK DEF ToolOK, Tools
<1> HIDE DEF t
<1>7. ToolOK(t)
  BY <1>1, <1>5, NoneAssumption DEF ToolOK, IndexOK, InChecks, InParity, InDrc
<1> QED
  BY <1>6, <1>7, ToolsStep DEF TypeInv

LEMMA StartType ==
  ASSUME TypeInv, NEW p \in Procs, NEW r \in Runs,
         \/ Begin(p, r) \/ Plan(p, r) \/ Apply(p, r) \/ Validate(p, r) \/ Review(p, r) \/ Accept(p, r)
  PROVE  ToolsOK'
<1>0. IndexOK(runs[r])
  BY DEF TypeInv, RunsOK
<1>1. CASE Begin(p, r)
  <2>1. Start(p, r, "begin", "before")
    BY <1>1 DEF Begin
  <2> QED
    BY <2>1, StartOK DEF Doing, InChecks, InParity, Commands
<1>2. CASE Plan(p, r)
  <2>1. Start(p, r, "plan", "build")
    BY <1>2 DEF Plan
  <2> QED
    BY <2>1, StartOK DEF Doing, InChecks, InParity, Commands
<1>3. CASE Apply(p, r)
  <2>1. Start(p, r, "apply", "apply")
    BY <1>3 DEF Apply
  <2> QED
    BY <2>1, StartOK DEF Doing, InChecks, InParity, Commands
<1>4. CASE Validate(p, r)
  <2>1. Start(p, r, "validate", "build")
    BY <1>4 DEF Validate
  <2> QED
    BY <2>1, StartOK DEF Doing, InChecks, InParity, Commands
<1>5. CASE Review(p, r)
  <2>1. Start(p, r, "review", "review") /\ runs[r].validation # None
    BY <1>0, <1>5 DEF Review, Checked, IndexOK
  <2> QED
    BY <2>1, StartOK DEF Doing, InChecks, InParity, Commands
<1>6. CASE Accept(p, r)
  <2>1. Start(p, r, "accept", "eco") /\ runs[r].validation # None
    BY <1>0, <1>6 DEF Accept, Checked, IndexOK
  <2> QED
    BY <2>1, StartOK DEF Doing, InChecks, InParity, Commands
<1> QED
  BY <1>1, <1>2, <1>3, <1>4, <1>5, <1>6

\* The steps that record what they find.
LEMMA FindType ==
  ASSUME TypeInv, NEW p \in Procs,
         \/ Stage(p) \/ TakeBefore(p) \/ BuildStarts(p) \/ MakePlan(p) \/ TakeInputs(p) \/ Cleanup(p)
         \/ Parity(p) \/ AuditStarts(p) \/ Render(p) \/ AcceptEco(p)
  PROVE  ToolsOK'
<1>0. /\ tools \in [Procs -> Tools] /\ ToolOK(tools[p]) /\ tools[p] \in Tools
      /\ tools[p].data \in Indexes /\ tools[p].report \in Reports
      /\ FilesOK /\ Fingerprint \in Fingerprints
  BY FingerprintType DEF TypeInv, ToolsOK, Tools, ToolOK
<1>t. ASSUME NEW t, ToolOK(t), tools' = [tools EXCEPT ![p] = t]
      PROVE  ToolsOK'
  BY <1>t, ToolsStep DEF TypeInv
<1>1. CASE Stage(p)
  <2> DEFINE t == [Idle EXCEPT !.at = "export", !.does = "stage", !.held = [native |-> native]]
  <2>1. /\ t \in Tools /\ t.at = "export" /\ t.does = "stage" /\ t.data.review = None
    BY <1>0, IdleOK DEF Idle, ToolOK, Tools, Steps, Commands, Trees, FilesOK, NewIndex
  <2>2. tools' = [tools EXCEPT ![p] = t]
    BY <1>1 DEF Stage
  <2> HIDE DEF t
  <2>3. ToolOK(t)
    BY <2>1 DEF ToolOK, Doing, Running, InChecks, InParity, InDrc
  <2> QED
    BY <2>2, <2>3, <1>t
<1>2. CASE TakeBefore(p)
  <2> DEFINE d == [tools[p].data EXCEPT !.snapshot = native]
  <2>a. d \in Indexes /\ d.review = tools[p].data.review /\ d.validation = tools[p].data.validation
    BY <1>0 DEF Indexes, FilesOK
  <2> DEFINE t == [tools[p] EXCEPT !.at = "begun", !.data = d]
  <2>2. tools' = [tools EXCEPT ![p] = t]
    BY <1>0, <1>2 DEF TakeBefore, Tools
  <2> HIDE DEF d
  <2>1. /\ t \in Tools /\ t.at = "begun" /\ t.does = tools[p].does /\ t.run = tools[p].run
        /\ t.data = d /\ t.report = tools[p].report
    BY <1>0, <2>a DEF Tools, Steps
  <2> HIDE DEF t
  <2>3. Doing(t.does, t.at)
    BY <1>0, <1>2, <2>1, NoneAssumption DEF TakeBefore, ToolOK, Doing
  <2>4. ToolOK(t)
    BY <1>0, <2>a, <1>2, <2>1, <2>3 DEF ToolOK, Running, InChecks, InParity, InDrc
  <2> QED
    BY <2>2, <2>4, <1>t
<1>3. CASE BuildStarts(p)
  <2> DEFINE t == [tools[p] EXCEPT !.at = "built", !.held = Fingerprint]
  <2>1. /\ t \in Tools /\ t.at = "built" /\ t.does = tools[p].does /\ t.run = tools[p].run
        /\ t.data = tools[p].data
    BY <1>0 DEF Tools, Steps
  <2>2. tools' = [tools EXCEPT ![p] = t]
    BY <1>3 DEF BuildStarts
  <2> HIDE DEF t
  <2>3. Doing(t.does, t.at)
    BY <1>0, <1>3, <2>1, NoneAssumption DEF BuildStarts, ToolOK, Doing
  <2>4. ToolOK(t)
    BY <1>0, <1>3, <2>1, <2>3 DEF ToolOK, Running, InChecks, InParity, InDrc
  <2> QED
    BY <2>2, <2>4, <1>t
<1>4. CASE MakePlan(p)
  <2>1. PICK allow \in BOOLEAN :
          tools' = [tools EXCEPT ![p].at = "planned",
                                 ![p].data.plan = PlanFor(manifest, tools[p].data, allow)]
    BY <1>4 DEF MakePlan
  <2> DEFINE plan == PlanFor(manifest, tools[p].data, allow)
  <2>2. plan \in Plans
    BY <1>0 DEF PlanFor, Plans, FilesOK, Indexes
  <2> HIDE DEF plan
  <2> DEFINE d == [tools[p].data EXCEPT !.plan = plan]
  <2>a. d \in Indexes /\ d.review = tools[p].data.review /\ d.validation = tools[p].data.validation
    BY <1>0, <2>2 DEF Indexes
  <2> DEFINE t == [tools[p] EXCEPT !.at = "planned", !.data = d]
  <2>4. tools' = [tools EXCEPT ![p] = t]
    BY <1>0, <2>1 DEF Tools, plan
  <2> HIDE DEF d
  <2>3. /\ t \in Tools /\ t.at = "planned" /\ t.does = tools[p].does /\ t.run = tools[p].run
        /\ t.data = d
    BY <1>0, <2>a DEF Tools, Steps
  <2> HIDE DEF t
  <2>5. Doing(t.does, t.at)
    BY <1>0, <1>4, <2>3, NoneAssumption DEF MakePlan, ToolOK, Doing
  <2>6. ToolOK(t)
    BY <1>0, <1>4, <2>a, <2>3, <2>5 DEF ToolOK, Running, InChecks, InParity, InDrc
  <2> QED
    BY <2>4, <2>6, <1>t
<1>5. CASE TakeInputs(p)
  <2> DEFINE d == Invalidated(tools[p].data)
  <2> DEFINE f == [tools[p].report EXCEPT !.inputs = Fingerprint]
  <2>a. d \in Indexes /\ d.review = None /\ d.validation = None
    BY <1>0 DEF Indexes, Invalidated
  <2>b. f \in Reports /\ f.inputs = Fingerprint
    BY <1>0 DEF Reports
  <2> DEFINE t == [tools[p] EXCEPT !.at = "source", !.data = d, !.report = f]
  <2>2. tools' = [tools EXCEPT ![p] = t]
    BY <1>0, <1>5 DEF TakeInputs, Tools
  <2> HIDE DEF d, f
  <2>1. /\ t \in Tools /\ t.at = "source" /\ t.does = tools[p].does /\ t.run = tools[p].run
        /\ t.data = d /\ t.report = f
    BY <1>0, <2>a, <2>b DEF Tools, Steps
  <2> HIDE DEF t
  <2>3. Doing(t.does, t.at)
    BY <1>0, <1>5, <2>1, NoneAssumption DEF TakeInputs, ToolOK, Doing
  <2>4. t.does = "validate"
    BY <2>1, <2>3 DEF Doing
  <2>5. ToolOK(t)
    BY <1>0, <1>5, <2>a, <2>b, <2>1, <2>3, <2>4 DEF ToolOK, Running, InChecks, InParity, InDrc
  <2> QED
    BY <2>2, <2>5, <1>t
<1>6. CASE Cleanup(p)
  <2> DEFINE f == [tools[p].report EXCEPT !.cleanup = [manifest |-> manifest, native |-> native]]
  <2>a. f \in Reports /\ f.inputs = tools[p].report.inputs /\ f.cleanup \in Locks
    BY <1>0 DEF Reports, FilesOK, Locks
  <2> DEFINE t == [tools[p] EXCEPT !.at = "parity", !.report = f]
  <2>2. tools' = [tools EXCEPT ![p] = t]
    BY <1>0, <1>6 DEF Cleanup, Tools
  <2> HIDE DEF f
  <2>1. /\ t \in Tools /\ t.at = "parity" /\ t.does = tools[p].does /\ t.run = tools[p].run
        /\ t.data = tools[p].data /\ t.report = f
    BY <1>0, <2>a DEF Tools, Steps
  <2> HIDE DEF t
  <2>3. Doing(t.does, t.at)
    BY <1>0, <1>6, <2>1, NoneAssumption DEF Cleanup, ToolOK, Doing
  <2>4. ToolOK(t)
    BY <1>0, <2>a, <1>6, <2>1, <2>3 DEF Cleanup, ToolOK, Running, InChecks, InParity, InDrc
  <2> QED
    BY <2>2, <2>4, <1>t
<1>7. CASE Parity(p)
  <2> DEFINE f == [tools[p].report EXCEPT !.manifest = manifest, !.snapshot = native]
  <2>a. f \in Reports
        /\ f.inputs = tools[p].report.inputs /\ f.cleanup = tools[p].report.cleanup
        /\ f.manifest \in Sources
    BY <1>0 DEF Reports, FilesOK
  <2> DEFINE t == [tools[p] EXCEPT !.at = "drc", !.report = f]
  <2>2. tools' = [tools EXCEPT ![p] = t]
    BY <1>0, <1>7 DEF Parity, Tools
  <2> HIDE DEF f
  <2>1. /\ t \in Tools /\ t.at = "drc" /\ t.does = tools[p].does /\ t.run = tools[p].run
        /\ t.data = tools[p].data /\ t.report = f
    BY <1>0, <2>a DEF Tools, Steps
  <2> HIDE DEF t
  <2>3. Doing(t.does, t.at)
    BY <1>0, <1>7, <2>1, NoneAssumption DEF Parity, ToolOK, Doing
  <2>4. ToolOK(t)
    BY <1>0, <2>a, <1>7, <2>1, <2>3 DEF Parity, ToolOK, Running, InChecks, InParity, InDrc
  <2> QED
    BY <2>2, <2>4, <1>t
<1>8. CASE AuditStarts(p)
  <2> DEFINE t == [tools[p] EXCEPT !.at = "audited",
                                   !.held = [native |-> native, all |-> Fingerprint]]
  <2>1. /\ t \in Tools /\ t.at = "audited" /\ t.does = tools[p].does /\ t.run = tools[p].run
        /\ t.data = tools[p].data /\ t.report = tools[p].report
    BY <1>0 DEF Tools, Steps, FilesOK, Audits
  <2>2. tools' = [tools EXCEPT ![p] = t]
    BY <1>8 DEF AuditStarts
  <2> HIDE DEF t
  <2>3. Doing(t.does, t.at)
    BY <1>0, <1>8, <2>1, NoneAssumption DEF AuditStarts, ToolOK, Doing
  <2>4. ToolOK(t)
    BY <1>0, <1>8, <2>1, <2>3 DEF AuditStarts, ToolOK, Running, InChecks, InParity, InDrc
  <2> QED
    BY <2>2, <2>4, <1>t
<1>9. CASE Render(p)
  <2> DEFINE f == [tools[p].report EXCEPT !.renders = native]
  <2>a. f \in Reports
        /\ f.inputs = tools[p].report.inputs /\ f.cleanup = tools[p].report.cleanup
        /\ f.manifest = tools[p].report.manifest
    BY <1>0 DEF Reports, FilesOK
  <2> DEFINE t == [tools[p] EXCEPT !.at = "conclude", !.report = f]
  <2>2. tools' = [tools EXCEPT ![p] = t]
    BY <1>0, <1>9 DEF Render, Tools
  <2> HIDE DEF f
  <2>1. /\ t \in Tools /\ t.at = "conclude" /\ t.does = tools[p].does /\ t.run = tools[p].run
        /\ t.data = tools[p].data /\ t.report = f
    BY <1>0, <2>a DEF Tools, Steps
  <2> HIDE DEF t
  <2>3. Doing(t.does, t.at)
    BY <1>0, <1>9, <2>1, NoneAssumption DEF Render, ToolOK, Doing
  <2>4. ToolOK(t)
    BY <1>0, <2>a, <1>9, <2>1, <2>3 DEF Render, ToolOK, Running, InChecks, InParity, InDrc
  <2> QED
    BY <2>2, <2>4, <1>t
<1>10. CASE AcceptEco(p)
  <2> DEFINE h == [manifest |-> tools[p].data.validation.manifest, native |-> native]
  <2> DEFINE t == [tools[p] EXCEPT !.at = "recheck", !.held = h]
  <2>0. tools[p].does = "accept"
    BY <1>0, <1>10 DEF AcceptEco, ToolOK, Doing
  <2>1. tools[p].data.validation \in Validations
    BY <1>0, <2>0 DEF ToolOK, Indexes
  <2>2. h \in Locks
    BY <1>0, <2>1 DEF Validations, Locks, FilesOK
  <2>3. tools' = [tools EXCEPT ![p] = t]
    BY <1>10 DEF AcceptEco
  <2> HIDE DEF h
  <2>4. /\ t \in Tools /\ t.at = "recheck" /\ t.does = tools[p].does /\ t.run = tools[p].run
        /\ t.data = tools[p].data /\ t.held = h
    BY <1>0, <2>2 DEF Tools, Steps
  <2> HIDE DEF t
  <2>5. Doing(t.does, t.at)
    BY <2>0, <2>4 DEF Doing
  <2>6. ToolOK(t)
    BY <1>0, <2>0, <2>2, <2>4, <2>5 DEF ToolOK, Running, InChecks, InParity, InDrc
  <2> QED
    BY <2>3, <2>6, <1>t
<1> QED
  BY <1>1, <1>2, <1>3, <1>4, <1>5, <1>6, <1>7, <1>8, <1>9, <1>10


\* The steps that change files a command reads.
Quiet == UNCHANGED <<source, manifest, native, lock, box, renders, reviews>>

LEMMA QuietSteps ==
  ASSUME NEW p \in Procs,
         \/ TakeBefore(p) \/ BeginEnds(p) \/ BuildEnds(p) \/ MakePlan(p) \/ PlanEnds(p) \/ ApplyEnds(p)
         \/ TakeInputs(p) \/ CheckSource(p) \/ Cleanup(p) \/ Parity(p) \/ Drc(p)
         \/ AuditStarts(p) \/ AuditEnds(p) \/ Conclude(p) \/ ReviewEnds(p)
         \/ AcceptEco(p) \/ Recheck(p) \/ AcceptEnds(p) \/ Raise(p) \/ Crash(p)
         \/ \E r \in Runs : Begin(p, r) \/ Plan(p, r) \/ Apply(p, r) \/ Validate(p, r)
                              \/ Review(p, r) \/ Accept(p, r)
  PROVE  Quiet
BY DEF Quiet, projectVars, evidenceVars,
       TakeBefore, BeginEnds, BuildEnds, MakePlan, PlanEnds, ApplyEnds, TakeInputs, CheckSource,
       Cleanup, Parity, Drc, AuditStarts, AuditEnds, Conclude, ReviewEnds, AcceptEco, Recheck,
       AcceptEnds, Raise, Crash, Begin, Plan, Apply, Validate, Review, Accept

LEMMA FilesStep == TypeInv /\ Next => FilesOK'
<1> SUFFICES ASSUME TypeInv, Next PROVE FilesOK'
  OBVIOUS
<1> USE DEF TypeInv
<1>0. FilesOK /\ ToolsOK /\ RunsOK
  OBVIOUS
<1>q. ASSUME Quiet PROVE FilesOK'
  BY <1>0, <1>q DEF Quiet, FilesOK
<1>1. ASSUME NEW p \in Procs, Command(p) PROVE FilesOK'
  <2>0. ToolOK(tools[p]) /\ tools[p] \in Tools /\ box[p] \in Boxes
    BY <1>0 DEF ToolsOK, ToolOK, FilesOK
  <2>1. CASE Stage(p)
    <3>1. [NoBox EXCEPT !.manifest = manifest] \in Boxes
      BY <1>0 DEF NoBox, Boxes, FilesOK
    <3> QED
      BY <1>0, <2>1, <3>1 DEF Stage, FilesOK, projectVars, evidenceVars
  <2>2. CASE Export(p)
    <3>1. [box[p] EXCEPT !.board = Exports[source]] \in Boxes
      BY <1>0, <2>0, WorkflowAssumption DEF Boxes, FilesOK
    <3>2. box' = [box EXCEPT ![p] = [box[p] EXCEPT !.board = Exports[source]]]
      BY <2>2 DEF Export
    <3> QED
      BY <1>0, <2>2, <3>1, <3>2 DEF Export, FilesOK, projectVars, evidenceVars
  <2>3. CASE Check(p)
    <3> DEFINE b == [box[p] EXCEPT !.receipt = [manifest |-> box[p].manifest, board |-> box[p].board]]
    <3>1. b \in Boxes
      BY <2>0 DEF Boxes, Receipts
    <3>2. box' = [box EXCEPT ![p] = b]
      BY <2>3 DEF Check
    <3> HIDE DEF b
    <3> QED
      BY <1>0, <2>3, <3>1, <3>2 DEF Check, FilesOK, projectVars, evidenceVars
  <2>4. ASSUME NEW d \in Procs, AcceptHandoff(p, box[d]) PROVE FilesOK'
    <3>1. box[d] \in Boxes /\ box[d].receipt \in Receipts
      BY <1>0, <2>4 DEF AcceptHandoff, FilesOK, Boxes
    <3>2. box[d].board \in OrNone(Natives) /\ box[d].receipt.board = box[d].board
          /\ box[d].receipt.manifest \in Sources
      BY <1>0, <2>4, <3>1 DEF AcceptHandoff, ReceiptBinds, Boxes, FilesOK
    <3>3. [manifest |-> box[d].receipt.manifest, native |-> box[d].receipt.board] \in Locks
      BY <3>2 DEF Locks
    <3> QED
      BY <1>0, <2>4, <3>2, <3>3 DEF AcceptHandoff, FilesOK, evidenceVars
  <2>5. CASE BuildStarts(p)
    BY <1>0, <2>5 DEF BuildStarts, FilesOK, evidenceVars
  <2>6. CASE ApplyNative(p)
    BY <1>0, <2>6 DEF ApplyNative, FilesOK, evidenceVars
  <2>7. CASE Render(p)
    BY <1>0, <2>7 DEF Render, FilesOK, projectVars
  <2>8. CASE Advance(p)
    <3>1. tools[p].held \in Locks
      BY <2>0, <2>8 DEF Advance, ToolOK
    <3> QED
      BY <1>0, <2>8, <3>1 DEF Advance, FilesOK, evidenceVars
  <2> QED
    BY <1>1, <1>q, <2>1, <2>2, <2>3, <2>4, <2>5, <2>6, <2>7, <2>8, QuietSteps DEF Command
<1>2. ASSUME NEW p \in Procs, Touch(p) PROVE FilesOK'
  <2>1. PICK n \in Natives : box' = [box EXCEPT ![p] = [box[p] EXCEPT !.board = n]]
    BY <1>2 DEF Touch
  <2>2. box[p] \in Boxes
    BY <1>0 DEF FilesOK
  <2>3. [box[p] EXCEPT !.board = n] \in Boxes
    BY <2>2 DEF Boxes
  <2> QED
    BY <1>0, <1>2, <2>1, <2>3 DEF Touch, FilesOK, projectVars, evidenceVars
<1>3. ASSUME NEW r \in Runs, Inspect(r) PROVE FilesOK'
  <2>1. runs[r].validation \in Validations /\ renders[r] \in OrNone(Natives)
    BY <1>0, <1>3 DEF Inspect, RunsOK, Indexes, FilesOK
  <2>2. [validation |-> runs[r].validation, saw |-> renders[r]] \in Reviews
    BY <2>1 DEF Reviews
  <2> QED
    BY <1>0, <1>3, <2>2 DEF Inspect, FilesOK, projectVars
<1>4. CASE EditSource
  BY <1>0, <1>4 DEF EditSource, FilesOK, evidenceVars
<1>5. CASE EditNative
  BY <1>0, <1>5 DEF EditNative, FilesOK, evidenceVars
<1> QED
  BY <1>1, <1>2, <1>3, <1>4, <1>5 DEF Next

\* The steps that write no index.
LEMMA WritesNothing ==
  ASSUME NEW p \in Procs,
         \/ Stage(p) \/ Export(p) \/ Check(p) \/ (\E d \in Procs : AcceptHandoff(p, box[d]))
         \/ TakeBefore(p) \/ BuildStarts(p) \/ BuildEnds(p) \/ MakePlan(p) \/ ApplyNative(p)
         \/ TakeInputs(p) \/ CheckSource(p) \/ Cleanup(p) \/ Parity(p) \/ Drc(p)
         \/ AuditStarts(p) \/ AuditEnds(p) \/ Render(p) \/ AcceptEco(p) \/ Recheck(p) \/ Advance(p)
         \/ Crash(p) \/ (\E r \in Runs : Begin(p, r) \/ Plan(p, r) \/ Review(p, r) \/ Accept(p, r))
  PROVE  UNCHANGED runs
BY DEF evidenceVars, Stage, Export, Check, AcceptHandoff, TakeBefore, BuildStarts, BuildEnds,
       MakePlan, ApplyNative, TakeInputs, CheckSource, Cleanup, Parity, Drc, AuditStarts, AuditEnds,
       Render, AcceptEco, Recheck, Advance, Crash, Begin, Plan, Review, Accept

\* What each index that is written holds.
LEMMA RunsStep == TypeInv /\ Next => RunsOK'
<1> SUFFICES ASSUME TypeInv, Next PROVE RunsOK'
  OBVIOUS
<1>0. FilesOK /\ ToolsOK /\ RunsOK /\ Fingerprint \in Fingerprints
  BY FingerprintType DEF TypeInv
<1>u. ASSUME UNCHANGED runs PROVE RunsOK'
  BY <1>0, <1>u DEF RunsOK, IndexOK
<1>w. ASSUME NEW r, NEW d, IndexOK(d), Write(r, d) PROVE RunsOK'
  BY <1>0, <1>w, WriteOK
<1>1. ASSUME NEW p \in Procs, Command(p) PROVE RunsOK'
  <2>0. ToolOK(tools[p]) /\ tools[p].data \in Indexes
    BY <1>0 DEF ToolsOK, ToolOK, Tools
  <2>1. CASE BeginEnds(p)
    <3> DEFINE d == [tools[p].data EXCEPT !.stage = "begun", !.baseline = lock, !.before = native]
    <3>t. d \in Indexes
      BY <1>0, <2>0 DEF Indexes, Stages, FilesOK
    <3>f. d.stage = "begun" /\ d.review = tools[p].data.review /\ d.validation = tools[p].data.validation
      BY <2>0 DEF Indexes
    <3>1. IndexOK(d)
      BY <2>0, <3>t, <3>f DEF IndexOK, ToolOK
    <3>2. Write(tools[p].run, d)
      BY <2>1 DEF BeginEnds
    <3> QED
      BY <3>1, <3>2, <1>w
  <2>2. CASE PlanEnds(p)
    <3> DEFINE d == [tools[p].data EXCEPT !.stage = "planned", !.target = Fingerprint,
                                          !.validation = None, !.review = None]
    <3>1. IndexOK(d)
      BY <1>0, <2>0 DEF IndexOK, Indexes, Stages
    <3>2. Write(tools[p].run, d)
      BY <2>2 DEF PlanEnds
    <3> QED
      BY <3>1, <3>2, <1>w
  <2>3. CASE ApplyEnds(p)
    <3> DEFINE d == [tools[p].data EXCEPT !.stage = "applied", !.validation = None, !.review = None]
    <3>t. d \in Indexes
      BY <2>0 DEF Indexes, Stages
    <3>f. d.stage = "applied" /\ d.review = None /\ d.validation = None
      BY <2>0 DEF Indexes
    <3>1. IndexOK(d)
      BY <3>t, <3>f DEF IndexOK
    <3>2. Write(tools[p].run, d)
      BY <2>3 DEF ApplyEnds
    <3> QED
      BY <3>1, <3>2, <1>w
  <2>4. CASE Conclude(p)
    <3> DEFINE d == [tools[p].data EXCEPT !.stage = "validated", !.validation = tools[p].report]
    <3>0. tools[p].report \in Reports
      BY <1>0 DEF ToolsOK, Tools
    <3>1. /\ tools[p].report.inputs \in Fingerprints /\ tools[p].report.cleanup \in Locks
          /\ tools[p].report.manifest \in Sources /\ tools[p].data.review = None
      BY <2>0, <2>4 DEF Conclude, ToolOK, InChecks, InParity, InDrc
    <3>2. tools[p].report \in Validations
      BY <3>0, <3>1 DEF Reports, Validations
    <3>3. IndexOK(d)
      BY <2>0, <3>1, <3>2, NoneAssumption DEF IndexOK, Indexes, Stages
    <3>4. Write(tools[p].run, d)
      BY <2>4 DEF Conclude
    <3> QED
      BY <3>3, <3>4, <1>w
  <2>5. CASE ReviewEnds(p)
    <3>1. PICK review \in reviews :
            /\ BindsValidation(review, tools[p].data)
            /\ Write(tools[p].run, [tools[p].data EXCEPT !.stage = "reviewed", !.review = review])
      BY <2>5 DEF ReviewEnds
    <3>2. review \in Reviews /\ review.validation = tools[p].data.validation
      BY <1>0, <3>1 DEF FilesOK, BindsValidation
    <3>3. tools[p].data.validation # None
      BY <2>0, <2>5 DEF ReviewEnds, ToolOK, Doing
    <3> DEFINE d == [tools[p].data EXCEPT !.stage = "reviewed", !.review = review]
    <3>t. d \in Indexes
      BY <2>0, <3>2 DEF Indexes, Stages
    <3>f. d.stage = "reviewed" /\ d.review = review /\ d.validation = tools[p].data.validation
      BY <2>0 DEF Indexes
    <3>4. IndexOK(d)
      BY <3>2, <3>3, <3>t, <3>f DEF IndexOK
    <3> QED
      BY <3>1, <3>4, <1>w
  <2>6. CASE AcceptEnds(p)
    <3> DEFINE d == [tools[p].data EXCEPT !.stage = "accepted", !.accepted = lock]
    <3>1. tools[p].data.validation # None
      BY <2>0, <2>6 DEF AcceptEnds, ToolOK, Doing
    <3>t. d \in Indexes
      BY <1>0, <2>0 DEF Indexes, Stages, FilesOK
    <3>f. d.stage = "accepted" /\ d.review = tools[p].data.review /\ d.validation = tools[p].data.validation
      BY <2>0 DEF Indexes
    <3>2. IndexOK(d)
      BY <2>0, <3>1, <3>t, <3>f DEF IndexOK, ToolOK
    <3>3. Write(tools[p].run, d)
      BY <2>6 DEF AcceptEnds
    <3> QED
      BY <3>2, <3>3, <1>w
  <2>7. CASE Raise(p)
    <3>1. IndexOK([tools[p].data EXCEPT !.stage = "failed"])
      BY <2>0 DEF IndexOK, Indexes, Stages, ToolOK
    <3>2. UNCHANGED runs \/ Write(tools[p].run, [tools[p].data EXCEPT !.stage = "failed"])
      BY <2>7 DEF Raise, Failed
    <3> QED
      BY <3>1, <3>2, <1>u, <1>w
  <2>8. ASSUME NEW r \in Runs, Apply(p, r) PROVE RunsOK'
    <3>1. IndexOK([runs[r] EXCEPT !.stage = "applying", !.validation = None, !.review = None])
      BY <1>0 DEF RunsOK, IndexOK, Indexes, Stages
    <3>2. Write(r, [runs[r] EXCEPT !.stage = "applying", !.validation = None, !.review = None])
      BY <2>8 DEF Apply
    <3> QED
      BY <3>1, <3>2, <1>w
  <2>9. ASSUME NEW r \in Runs, Validate(p, r) PROVE RunsOK'
    <3>1. IndexOK([Invalidated(runs[r]) EXCEPT !.stage = "validating"])
      BY <1>0 DEF RunsOK, IndexOK, Indexes, Stages, Invalidated
    <3>2. Write(r, [Invalidated(runs[r]) EXCEPT !.stage = "validating"])
      BY <2>9 DEF Validate
    <3> QED
      BY <3>1, <3>2, <1>w
  <2>10. CASE \/ Stage(p) \/ Export(p) \/ Check(p) \/ (\E d \in Procs : AcceptHandoff(p, box[d]))
              \/ TakeBefore(p) \/ BuildStarts(p) \/ BuildEnds(p) \/ MakePlan(p) \/ ApplyNative(p)
              \/ TakeInputs(p) \/ CheckSource(p) \/ Cleanup(p) \/ Parity(p) \/ Drc(p)
              \/ AuditStarts(p) \/ AuditEnds(p) \/ Render(p) \/ AcceptEco(p) \/ Recheck(p) \/ Advance(p)
              \/ Crash(p) \/ (\E r \in Runs : Begin(p, r) \/ Plan(p, r) \/ Review(p, r) \/ Accept(p, r))
    BY <2>10, <1>u, WritesNothing
  <2> QED
    BY <1>1, <2>1, <2>2, <2>3, <2>4, <2>5, <2>6, <2>7, <2>8, <2>9, <2>10 DEF Command
<1>2. CASE (\E p \in Procs : Touch(p)) \/ (\E r \in Runs : Inspect(r)) \/ EditSource \/ EditNative
  <2>1. UNCHANGED runs
    BY <1>2 DEF Touch, Inspect, EditSource, EditNative, evidenceVars
  <2> QED
    BY <2>1, <1>u
<1> QED
  BY <1>1, <1>2 DEF Next

LEMMA ToolsNext == TypeInv /\ Next => ToolsOK'
<1> SUFFICES ASSUME TypeInv, Next PROVE ToolsOK'
  OBVIOUS
<1>0. ToolsOK
  BY DEF TypeInv
<1>u. ASSUME UNCHANGED tools PROVE ToolsOK'
  BY <1>0, <1>u DEF ToolsOK, ToolOK
<1>1. ASSUME NEW p \in Procs, Command(p) PROVE ToolsOK'
  <2>1. CASE \/ Check(p) \/ BeginEnds(p) \/ PlanEnds(p) \/ ApplyEnds(p) \/ Conclude(p) \/ ReviewEnds(p)
             \/ AcceptEnds(p) \/ Raise(p) \/ Crash(p)
    <3>1. Ended(p)
      BY <2>1 DEF Check, BeginEnds, PlanEnds, ApplyEnds, Conclude, ReviewEnds, AcceptEnds, Raise, Failed,
         Crash
    <3> QED
      BY <1>0, <3>1, EndedOK
  <2>2. CASE \E d \in Procs : AcceptHandoff(p, box[d])
    <3>1. UNCHANGED tools
      BY <2>2 DEF AcceptHandoff
    <3> QED
      BY <3>1, <1>u
  <2>3. CASE \/ Export(p) \/ BuildEnds(p) \/ ApplyNative(p) \/ CheckSource(p) \/ Drc(p) \/ AuditEnds(p)
             \/ Recheck(p) \/ Advance(p)
    BY <1>0, <2>3, MoveType
  <2>4. CASE \/ Stage(p) \/ TakeBefore(p) \/ BuildStarts(p) \/ MakePlan(p) \/ TakeInputs(p)
             \/ Cleanup(p) \/ Parity(p) \/ AuditStarts(p) \/ Render(p) \/ AcceptEco(p)
    BY <2>4, FindType
  <2>5. CASE \E r \in Runs : \/ Begin(p, r) \/ Plan(p, r) \/ Apply(p, r) \/ Validate(p, r)
                             \/ Review(p, r) \/ Accept(p, r)
    BY <2>5, StartType
  <2> QED
    BY <1>1, <2>1, <2>2, <2>3, <2>4, <2>5 DEF Command
<1>2. CASE (\E p \in Procs : Touch(p)) \/ (\E r \in Runs : Inspect(r)) \/ EditSource \/ EditNative
  <2>1. UNCHANGED tools
    BY <1>2 DEF Touch, Inspect, EditSource, EditNative, evidenceVars
  <2> QED
    BY <2>1, <1>u
<1> QED
  BY <1>1, <1>2 DEF Next

LEMMA TypeStep == TypeInv /\ [Next]_vars => TypeInv'
<1>1. TypeInv /\ Next => TypeInv'
  BY FilesStep, ToolsNext, RunsStep DEF TypeInv
<1>2. TypeInv /\ UNCHANGED vars => TypeInv'
  BY DEF TypeInv, FilesOK, ToolsOK, ToolOK, RunsOK, IndexOK, vars, projectVars, evidenceVars
<1> QED
  BY <1>1, <1>2

\* TypeOK follows from the stronger TypeInv.
LEMMA TypeInvImplies == TypeInv => TypeOK
BY DEF TypeInv, TypeOK, FilesOK, ToolsOK, RunsOK, IndexOK

\* Files, indexes and commands keep their types whoever interleaves, and an
\* index holds a success or a review only at the stages that promise one.
THEOREM WorkflowTypes == Spec => []TypeOK
<1>1. Spec => []TypeInv
  BY InitType, TypeStep, PTL DEF Spec
<1> QED
  BY <1>1, TypeInvImplies, PTL

-----------------------------------------------------------------------------
(* A lock is not lost, and commands work on a run only after the first.    *)

LEMMA LockStep == TypeInv /\ Next /\ lock # None => lock' # None
<1> SUFFICES ASSUME TypeInv, Next, lock # None PROVE lock' # None
  OBVIOUS
<1>1. ASSUME NEW p \in Procs, Advance(p) PROVE lock' # None
  BY <1>1, NoneAssumption DEF Advance, TypeInv, ToolsOK, ToolOK
<1>2. ASSUME NEW p \in Procs, Command(p) PROVE lock' # None
  <2>1. CASE Stage(p) \/ (\E d \in Procs : AcceptHandoff(p, box[d]))
    BY <2>1 DEF Stage, AcceptHandoff
  <2>2. CASE Export(p) \/ Check(p) \/ BuildStarts(p) \/ ApplyNative(p) \/ Render(p)
    BY <2>2 DEF Export, Check, BuildStarts, ApplyNative, Render, projectVars
  <2> QED
    BY <1>1, <1>2, <2>1, <2>2, QuietSteps DEF Command, Quiet
<1>3. CASE (\E p \in Procs : Touch(p)) \/ (\E r \in Runs : Inspect(r)) \/ EditSource \/ EditNative
  BY <1>3 DEF Touch, Inspect, EditSource, EditNative, projectVars
<1> QED
  BY <1>2, <1>3 DEF Next

\* One command moves at a time, and only a command of a run is started on one.
LEMMA Others ==
  ASSUME TypeInv, NEW p \in Procs, Command(p)
  PROVE  /\ \A q \in Procs : q # p => tools'[q] = tools[q]
         /\ tools'[p].does \in {tools[p].does, None, "stage"} \/ lock # None
<1>0. tools \in [Procs -> Tools]
  BY DEF TypeInv, ToolsOK
<1>m. ASSUME NEW a, Moved(p, a)
      PROVE  (\A q \in Procs : q # p => tools'[q] = tools[q]) /\ tools'[p].does = tools[p].does
  BY <1>0, <1>m DEF Moved, Tools
<1>e. ASSUME Ended(p)
      PROVE  (\A q \in Procs : q # p => tools'[q] = tools[q]) /\ tools'[p].does = None
  BY <1>0, <1>e DEF Ended, Idle
<1>1. CASE \/ Check(p) \/ BeginEnds(p) \/ PlanEnds(p) \/ ApplyEnds(p) \/ Conclude(p) \/ ReviewEnds(p)
           \/ AcceptEnds(p) \/ Raise(p) \/ Crash(p)
  <2>1. Ended(p)
    BY <1>1 DEF Check, BeginEnds, PlanEnds, ApplyEnds, Conclude, ReviewEnds, AcceptEnds, Raise, Failed,
       Crash
  <2> QED
    BY <2>1, <1>e
<1>2. CASE \E d \in Procs : AcceptHandoff(p, box[d])
  BY <1>2 DEF AcceptHandoff
<1>3. CASE \/ Export(p) \/ BuildEnds(p) \/ ApplyNative(p) \/ CheckSource(p) \/ Drc(p) \/ AuditEnds(p)
           \/ Recheck(p) \/ Advance(p)
  <2>1. \E a : Moved(p, a)
    BY <1>3 DEF Export, BuildEnds, ApplyNative, CheckSource, Drc, AuditEnds, Recheck, Advance
  <2> QED
    BY <2>1, <1>m
<1>4. CASE Stage(p)
  <2>1. tools' = [tools EXCEPT ![p] = [Idle EXCEPT !.at = "export", !.does = "stage",
                                                   !.held = [native |-> native]]]
    BY <1>4 DEF Stage
  <2> QED
    BY <1>0, <2>1 DEF Idle
<1>5. CASE \/ TakeBefore(p) \/ BuildStarts(p) \/ TakeInputs(p)
           \/ Cleanup(p) \/ Parity(p) \/ AuditStarts(p) \/ Render(p) \/ AcceptEco(p)
  BY <1>0, <1>5 DEF TakeBefore, BuildStarts, TakeInputs, Cleanup, Parity, AuditStarts, Render,
     AcceptEco, Tools
<1>6. CASE MakePlan(p)
  BY <1>0, <1>6 DEF MakePlan, Tools
<1>7. ASSUME NEW r \in Runs, \/ Begin(p, r) \/ Plan(p, r) \/ Apply(p, r) \/ Validate(p, r)
                             \/ Review(p, r) \/ Accept(p, r)
      PROVE  (\A q \in Procs : q # p => tools'[q] = tools[q]) /\ lock # None
  <2>1. \E does, at : Start(p, r, does, at)
    BY <1>7 DEF Begin, Plan, Apply, Validate, Review, Accept
  <2> QED
    BY <1>0, <2>1 DEF Start, Opened
<1> QED
  BY <1>1, <1>2, <1>3, <1>4, <1>5, <1>6, <1>7 DEF Command

\* Only an export is followed by a check of the seed.
LEMMA NextAt ==
  ASSUME TypeInv, NEW p \in Procs, Command(p), ~Export(p)
  PROVE  tools'[p].at = "check" => tools[p].at = "check"
<1>0. tools \in [Procs -> Tools]
  BY DEF TypeInv, ToolsOK
<1>1. CASE \/ Check(p) \/ BeginEnds(p) \/ PlanEnds(p) \/ ApplyEnds(p) \/ Conclude(p) \/ ReviewEnds(p)
           \/ AcceptEnds(p) \/ Raise(p) \/ Crash(p)
  <2>1. Ended(p)
    BY <1>1 DEF Check, BeginEnds, PlanEnds, ApplyEnds, Conclude, ReviewEnds, AcceptEnds, Raise, Failed,
       Crash
  <2> QED
    BY <1>0, <2>1 DEF Ended, Idle
<1>2. CASE \/ BuildEnds(p) \/ ApplyNative(p) \/ CheckSource(p) \/ Drc(p) \/ AuditEnds(p)
           \/ Recheck(p) \/ Advance(p)
  BY <1>0, <1>2 DEF BuildEnds, ApplyNative, CheckSource, Drc, AuditEnds, Recheck, Advance, Moved, Tools
<1>3. CASE \/ TakeBefore(p) \/ BuildStarts(p) \/ TakeInputs(p)
           \/ Cleanup(p) \/ Parity(p) \/ AuditStarts(p) \/ Render(p) \/ AcceptEco(p)
  BY <1>0, <1>3 DEF TakeBefore, BuildStarts, TakeInputs, Cleanup, Parity, AuditStarts, Render,
     AcceptEco, Tools
<1>6. CASE MakePlan(p)
  BY <1>0, <1>6 DEF MakePlan, Tools
<1>7. CASE Stage(p)
  <2>1. tools' = [tools EXCEPT ![p] = [Idle EXCEPT !.at = "export", !.does = "stage",
                                                   !.held = [native |-> native]]]
    BY <1>7 DEF Stage
  <2> QED
    BY <1>0, <2>1 DEF Idle
<1>4. CASE \E d \in Procs : AcceptHandoff(p, box[d])
  BY <1>4 DEF AcceptHandoff
<1>5. CASE \E r \in Runs : \/ Begin(p, r) \/ Plan(p, r) \/ Apply(p, r) \/ Validate(p, r)
                          \/ Review(p, r) \/ Accept(p, r)
  <2>1. PICK r, does, at : Start(p, r, does, at) /\ at # "check"
    BY <1>5 DEF Begin, Plan, Apply, Validate, Review, Accept
  <2> QED
    BY <1>0, <2>1 DEF Start, Idle
<1> QED
  BY <1>1, <1>2, <1>3, <1>4, <1>5, <1>6, <1>7 DEF Command

LEMMA LockHeldStep == TypeInv /\ LockHeld /\ [Next]_vars => LockHeld'
<1> SUFFICES ASSUME TypeInv, LockHeld, [Next]_vars PROVE LockHeld'
  OBVIOUS
<1>1. ASSUME NEW p \in Procs, Command(p) PROVE LockHeld'
  <2>1. Next
    BY <1>1 DEF Next
  <2>2. lock # None => lock' # None
    BY <2>1, LockStep
  <2>3. tools'[p].does \in {tools[p].does, None, "stage"} => (Running(tools'[p]) => Running(tools[p]))
    BY DEF Running
  <2> QED
    BY <1>1, <2>2, <2>3, Others DEF LockHeld
<1>2. CASE \/ (\E p \in Procs : Touch(p)) \/ (\E r \in Runs : Inspect(r)) \/ EditSource \/ EditNative
           \/ UNCHANGED vars
  <2>1. UNCHANGED <<tools, lock>>
    BY <1>2 DEF Touch, Inspect, EditSource, EditNative, vars, projectVars, evidenceVars
  <2> QED
    BY <2>1 DEF LockHeld, Running
<1> QED
  BY <1>1, <1>2 DEF Next

LEMMA InitLockHeld == Init => LockHeld
BY NoneAssumption DEF Init, LockHeld, Running, Idle

LEMMA LockHeldAlways == Spec => []LockHeld
<1>1. Spec => []TypeInv
  BY InitType, TypeStep, PTL DEF Spec
<1> QED
  BY <1>1, InitLockHeld, LockHeldStep, PTL DEF Spec

\* The seed copied into the native project is the one the first lock records,
\* also when other commands run beside the one that accepts it (accept).
THEOREM SeedIsAdopted == Spec => AdoptedAsStaged
<1>1. ASSUME TypeInv, LockHeld, [Next]_vars
      PROVE  [lock = None /\ lock' # None => native' = lock'.native]_vars
  <2> SUFFICES ASSUME lock = None, lock' # None PROVE native' = lock'.native
    OBVIOUS
  <2>1. ASSUME NEW p \in Procs, Command(p) PROVE native' = lock'.native
    <3>1. ~Advance(p)
      <4>1. Advance(p) => Running(tools[p])
        BY <1>1, NoneAssumption DEF Advance, TypeInv, ToolsOK, ToolOK, Doing, Running, Commands
      <4> QED
        BY <1>1, <4>1 DEF LockHeld
    <3>2. ASSUME NEW d \in Procs, AcceptHandoff(p, box[d]) PROVE native' = lock'.native
      BY <3>2 DEF AcceptHandoff, ReceiptBinds
    <3>3. CASE Stage(p) \/ Export(p) \/ Check(p) \/ BuildStarts(p) \/ ApplyNative(p) \/ Render(p)
      BY <3>3 DEF Stage, Export, Check, BuildStarts, ApplyNative, Render, projectVars
    <3> QED
      BY <1>1, <2>1, <3>1, <3>2, <3>3, QuietSteps DEF Command, Quiet
  <2>2. CASE \/ (\E p \in Procs : Touch(p)) \/ (\E r \in Runs : Inspect(r)) \/ EditSource \/ EditNative
             \/ UNCHANGED vars
    BY <2>2 DEF Touch, Inspect, EditSource, EditNative, vars, projectVars
  <2> QED
    BY <1>1, <2>1, <2>2 DEF Next
<1>2. Spec => []TypeInv
  BY InitType, TypeStep, PTL DEF Spec
<1> QED
  BY <1>1, <1>2, LockHeldAlways, PTL DEF Spec, AdoptedAsStaged

-----------------------------------------------------------------------------
(* What a lock records passes every check.  An edit never brings back an   *)
(* earlier native project, so a project that is at both ends of a          *)
(* validation what it was is the one each check between them saw.          *)

\* A native project read since the command began.
Seen(t, n, now) == n \in Natives /\ t.report.native <= n /\ n <= now

\* A validation is of one native project, which has no fault and agrees with the
\* manifest its cleanup names.
SoundValidation(v) ==
    /\ v.native \in Natives
    /\ v.snapshot = v.native /\ v.cleanup.native = v.native /\ v.renders = v.native
    /\ Faults[v.native] = {} /\ Agrees[v.native] = v.cleanup.manifest

\* A command that began at a native project, now that it is at "now".
SoundTool(t, now) ==
    /\ Running(t) => t.report.native \in Natives /\ t.report.native <= now
    /\ t.at \in InParity =>
         /\ Seen(t, t.report.cleanup.native, now)
         /\ "erc" \notin Faults[t.report.cleanup.native]
         /\ Agrees[t.report.cleanup.native] = t.report.cleanup.manifest
    /\ t.at \in InDrc => Seen(t, t.report.snapshot, now)
    /\ t.at \in InDrc \ {"drc"} /\ t.report.native = now => "drc" \notin Faults[now]
    /\ t.at \in {"render", "conclude"} /\ t.report.native = now => "preparation" \notin Faults[now]
    /\ t.at = "conclude" => Seen(t, t.report.renders, now)
    /\ t.data.validation # None => SoundValidation(t.data.validation)
    /\ t.at \in {"recheck", "advance"} => t.held.native \in Natives /\ Clean(t.held.native, t.held.manifest)

SoundFiles ==
    /\ lock # None => native \in Natives /\ Clean(lock.native, lock.manifest)
    /\ \A p \in Procs :
         /\ tools[p].at = "check" => box[p].board \in Natives
         /\ box[p].receipt # None =>
              /\ box[p].receipt.board \in Natives
              /\ Clean(box[p].receipt.board, box[p].receipt.manifest)

SoundRuns == \A r \in Runs : runs[r].validation # None => SoundValidation(runs[r].validation)

SoundInv ==
    /\ SoundFiles /\ SoundRuns
    /\ \A p \in Procs : SoundTool(tools[p], native)

LEMMA InitSound == Init => SoundInv
<1> SUFFICES ASSUME Init PROVE SoundInv
  OBVIOUS
<1>1. SoundFiles /\ SoundRuns
  BY DEF Init, SoundFiles, SoundRuns, Idle, NewIndex, NoBox
<1>2. ~Running(Idle) /\ Idle.at = "idle" /\ Idle.data.validation = None
  BY DEF Running, Idle, NewIndex
<1>3. SoundTool(Idle, native)
  BY <1>2 DEF SoundTool, InParity, InDrc
<1> QED
  BY <1>1, <1>3 DEF Init, SoundInv

LEMMA IdleSound == ASSUME NEW now PROVE SoundTool(Idle, now)
<1>1. ~Running(Idle) /\ Idle.at = "idle" /\ Idle.data.validation = None
  BY DEF Running, Idle, NewIndex
<1> QED
  BY <1>1 DEF SoundTool, InParity, InDrc

\* What the steps of a command of a run are.
LEMMA StepsRun ==
  ASSUME NEW t, ToolOK(t)
  PROVE  /\ t.at \in InChecks => t.does = "validate"
         /\ t.at \in {"recheck", "advance"} => t.does = "accept"
         /\ t.does \in Commands \ {"stage"} => Running(t)
BY NoneAssumption DEF ToolOK, Doing, InChecks, InParity, Running, Commands

\* A later native project, where there are runs, takes nothing from what was seen.
LEMMA SoundLater ==
  ASSUME NEW t, ToolOK(t), NEW now, NEW later, SoundTool(t, now),
         Running(t) => now \in Natives /\ later \in Natives /\ now <= later
  PROVE  SoundTool(t, later)
<1>1. CASE ~Running(t)
  <2>1. t.at \notin InChecks \cup {"recheck", "advance"}
    BY <1>1, StepsRun DEF Commands
  <2> QED
    BY <1>1, <2>1 DEF SoundTool, InChecks, InParity, InDrc
<1>2. CASE Running(t)
  <2>0. Natives \subseteq Nat
    BY WorkflowAssumption
  <2>1. /\ t.report.native \in Nat /\ t.report.native \in Natives /\ t.report.native <= now
        /\ now \in Nat /\ later \in Nat /\ now <= later
    BY <1>2, <2>0 DEF SoundTool
  <2>2. t.report.native = later => t.report.native = now
    BY <2>1
  <2>3. ASSUME NEW n, Seen(t, n, now) PROVE Seen(t, n, later)
    <3>1. n \in Nat /\ n <= now
      BY <2>0, <2>3 DEF Seen
    <3>2. n <= later
      BY <2>1, <3>1
    <3> QED
      BY <2>3, <3>2 DEF Seen
  <2>4. t.report.native <= later
    BY <2>1
  <2> QED
    BY <2>1, <2>2, <2>3, <2>4 DEF SoundTool
<1> QED
  BY <1>1, <1>2

\* A command that moves on without a finding, or drops an old one.
LEMMA SoundOn ==
  ASSUME NEW t, NEW u, NEW now, ToolOK(t), SoundTool(t, now),
         u.does = t.does, u.data.validation \in {t.data.validation, None},
         u.report.native = t.report.native, u.report.cleanup = t.report.cleanup,
         u.report.snapshot = t.report.snapshot, u.report.renders = t.report.renders,
         u.at \in InParity => t.at \in InParity, u.at \in InDrc => t.at \in InDrc,
         u.at \in InDrc \ {"drc"} => t.at \in InDrc \ {"drc"},
         u.at \in {"render", "conclude"} => t.at \in {"render", "conclude"},
         u.at = "conclude" => t.at = "conclude",
         u.at \in {"recheck", "advance"} => t.at \in {"recheck", "advance"} /\ u.held = t.held
  PROVE  SoundTool(u, now)
<1>1. (Running(u) => Running(t)) /\ \A n : Seen(t, n, now) => Seen(u, n, now)
  BY DEF Running, Seen
<1> QED
  BY <1>1 DEF SoundTool

\* Without edits that restore, the native project only grows newer.
LEMMA NativeStep ==
  ASSUME TypeInv, SoundInv, Next, Restores = FALSE, lock # None
  PROVE  native' \in Natives /\ native <= native'
<1>0. native \in Natives /\ Natives \subseteq Nat
  BY WorkflowAssumption DEF SoundInv, SoundFiles
<1>1. ASSUME NEW p \in Procs, Command(p) PROVE native' \in Natives /\ native <= native'
  <2>1. CASE Stage(p) \/ (\E d \in Procs : AcceptHandoff(p, box[d]))
    BY <2>1 DEF Stage, AcceptHandoff
  <2>2. CASE Export(p) \/ Check(p) \/ BuildStarts(p) \/ Render(p) \/ Advance(p)
    BY <1>0, <2>2 DEF Export, Check, BuildStarts, Render, Advance, projectVars
  <2>3. CASE ApplyNative(p)
    BY <1>0, <2>3 DEF ApplyNative
  <2>4. CASE Quiet
    BY <1>0, <2>4 DEF Quiet
  <2> QED
    BY <1>1, <2>1, <2>2, <2>3, <2>4, QuietSteps DEF Command
<1>2. CASE EditNative
  BY <1>0, <1>2 DEF EditNative, May
<1>3. CASE (\E p \in Procs : Touch(p)) \/ (\E r \in Runs : Inspect(r)) \/ EditSource
  BY <1>0, <1>3 DEF Touch, Inspect, EditSource, projectVars
<1> QED
  BY <1>1, <1>2, <1>3 DEF Next

\* What a step leaves of a command that is not its own.
LEMMA SoundOthers ==
  ASSUME TypeInv, LockHeld, SoundInv, Next, Restores = FALSE, NEW q \in Procs
  PROVE  SoundTool(tools[q], native')
<1>1. ToolOK(tools[q]) /\ SoundTool(tools[q], native)
  BY DEF TypeInv, ToolsOK, SoundInv
<1>2. Running(tools[q]) => native \in Natives /\ native' \in Natives /\ native <= native'
  BY NativeStep DEF LockHeld, SoundInv, SoundFiles
<1> QED
  BY <1>1, <1>2, SoundLater

\* A command that is started has the native project, and a sound index.
LEMMA SoundStart ==
  ASSUME TypeInv, SoundInv, NEW p \in Procs, NEW r \in Runs, NEW does, NEW at,
         Start(p, r, does, at), at \notin InChecks \cup {"recheck", "advance"}
  PROVE  SoundTool(tools'[p], native)
<1>0. tools \in [Procs -> Tools] /\ Natives \subseteq Nat
  BY WorkflowAssumption DEF TypeInv, ToolsOK
<1>1. tools'[p].at = at /\ tools'[p].data = runs[r] /\ tools'[p].report.native = native
  BY <1>0 DEF Start, Idle, Report
<1>2. native \in Natives
  BY DEF Start, Opened, SoundInv, SoundFiles
<1>3. native <= native
  BY <1>0, <1>2
<1> QED
  BY <1>1, <1>2, <1>3 DEF SoundTool, SoundInv, SoundRuns, InChecks, InParity, InDrc

\* A finding at the native project as it is now.
LEMMA SoundFinds ==
  ASSUME TypeInv, LockHeld, SoundInv, NEW p \in Procs,
         Cleanup(p) \/ Parity(p) \/ Drc(p) \/ AuditEnds(p) \/ Render(p)
  PROVE  SoundTool(tools'[p], native)
<1> DEFINE t == tools[p]
<1> DEFINE u == tools'[p]
<1>0. /\ tools \in [Procs -> Tools] /\ ToolOK(t) /\ t \in Tools /\ t.report \in Reports
      /\ SoundTool(t, native) /\ Natives \subseteq Nat
  BY WorkflowAssumption DEF TypeInv, ToolsOK, ToolOK, Tools, SoundInv
<1>1. t.at \in InChecks
  BY DEF Cleanup, Parity, Drc, AuditEnds, Render, InChecks, InParity
<1>2. Running(t) /\ lock # None
  BY <1>0, <1>1, StepsRun DEF LockHeld, Commands
<1>3. native \in Natives /\ t.report.native \in Natives /\ t.report.native <= native
  BY <1>0, <1>2 DEF SoundInv, SoundFiles, SoundTool
<1>4. Seen(t, native, native)
  <2>1. native \in Nat
    BY <1>0, <1>3
  <2>2. native <= native
    BY <2>1
  <2> QED
    BY <1>3, <2>2 DEF Seen
<1>6. CASE Cleanup(p)
  <2>1. /\ u.at = "parity" /\ u.does = t.does /\ u.data = t.data /\ u.held = t.held
        /\ u.report = [t.report EXCEPT !.cleanup = [manifest |-> manifest, native |-> native]]
    BY <1>0, <1>6 DEF Cleanup, Tools
  <2>2. u.report.native = t.report.native /\ u.report.cleanup = [manifest |-> manifest, native |-> native]
    BY <1>0, <2>1 DEF Reports
  <2>3. "erc" \notin Faults[native] /\ Agrees[native] = manifest
    BY <1>6 DEF Cleanup
  <2>4. Seen(u, native, native) /\ (Running(u) => Running(t))
    BY <1>4, <2>1, <2>2 DEF Seen, Running
  <2> QED
    BY <1>0, <1>3, <2>1, <2>2, <2>3, <2>4 DEF SoundTool, InDrc, InParity
<1>7. CASE Parity(p)
  <2>1. /\ u.at = "drc" /\ u.does = t.does /\ u.data = t.data /\ u.held = t.held
        /\ u.report = [t.report EXCEPT !.manifest = manifest, !.snapshot = native]
    BY <1>0, <1>7 DEF Parity, Tools
  <2>2. u.report.native = t.report.native /\ u.report.cleanup = t.report.cleanup
        /\ u.report.snapshot = native
    BY <1>0, <2>1 DEF Reports
  <2>3. Seen(u, native, native) /\ (Running(u) => Running(t))
        /\ \A n : Seen(t, n, native) => Seen(u, n, native)
    BY <1>4, <2>1, <2>2 DEF Seen, Running
  <2>4. t.at \in InParity
    BY <1>7 DEF Parity, InParity
  <2> QED
    BY <1>0, <1>3, <2>1, <2>2, <2>3, <2>4 DEF SoundTool, InDrc, InParity
<1>8. CASE Drc(p)
  <2>1. u.at = "audit" /\ u.does = t.does /\ u.data = t.data /\ u.held = t.held /\ u.report = t.report
    BY <1>0, <1>8 DEF Drc, Moved, Tools
  <2>2. (Running(u) => Running(t)) /\ \A n : Seen(t, n, native) => Seen(u, n, native)
    BY <2>1 DEF Seen, Running
  <2>3. t.at = "drc" /\ "drc" \notin Faults[native]
    BY <1>8 DEF Drc
  <2> QED
    BY <1>0, <1>3, <2>1, <2>2, <2>3 DEF SoundTool, InDrc, InParity
<1>9. CASE AuditEnds(p)
  <2>1. u.at = "render" /\ u.does = t.does /\ u.data = t.data /\ u.held = t.held /\ u.report = t.report
    BY <1>0, <1>9 DEF AuditEnds, Moved, Tools
  <2>2. (Running(u) => Running(t)) /\ \A n : Seen(t, n, native) => Seen(u, n, native)
    BY <2>1 DEF Seen, Running
  <2>3. t.at = "audited" /\ "preparation" \notin Faults[native]
    BY <1>9 DEF AuditEnds
  <2> QED
    BY <1>0, <1>3, <2>1, <2>2, <2>3 DEF SoundTool, InDrc, InParity
<1>10. CASE Render(p)
  <2>1. /\ u.at = "conclude" /\ u.does = t.does /\ u.data = t.data /\ u.held = t.held
        /\ u.report = [t.report EXCEPT !.renders = native]
    BY <1>0, <1>10 DEF Render, Tools
  <2>2. /\ u.report.native = t.report.native /\ u.report.cleanup = t.report.cleanup
        /\ u.report.snapshot = t.report.snapshot /\ u.report.renders = native
    BY <1>0, <2>1 DEF Reports
  <2>3. Seen(u, native, native) /\ (Running(u) => Running(t))
        /\ \A n : Seen(t, n, native) => Seen(u, n, native)
    BY <1>4, <2>1, <2>2 DEF Seen, Running
  <2>4. t.at = "render"
    BY <1>10 DEF Render
  <2> QED
    BY <1>0, <1>3, <2>1, <2>2, <2>3, <2>4 DEF SoundTool, InDrc, InParity
<1> QED
  BY <1>6, <1>7, <1>8, <1>9, <1>10

\* accept-eco takes a validation whose native project is still the one there.
LEMMA SoundAccept ==
  ASSUME TypeInv, LockHeld, SoundInv, NEW p \in Procs, AcceptEco(p)
  PROVE  SoundTool(tools'[p], native)
<1> DEFINE t == tools[p]
<1> DEFINE u == tools'[p]
<1> DEFINE v == t.data.validation
<1>0. tools \in [Procs -> Tools] /\ ToolOK(t) /\ t \in Tools /\ SoundTool(t, native)
  BY DEF TypeInv, ToolsOK, ToolOK, Tools, SoundInv
<1>1. t.does = "accept" /\ v # None
  BY <1>0 DEF AcceptEco, ToolOK, Doing
<1>2. SoundValidation(v)
  BY <1>0, <1>1 DEF SoundTool
<1>3. v.cleanup = [manifest |-> v.manifest, native |-> native] /\ v.snapshot = native
  BY DEF AcceptEco
<1>4. native \in Natives /\ Clean(native, v.manifest)
  BY <1>2, <1>3 DEF SoundValidation, Clean
<1>5. /\ u.at = "recheck" /\ u.does = t.does /\ u.data = t.data /\ u.report = t.report
      /\ u.held = [manifest |-> v.manifest, native |-> native]
  BY <1>0 DEF AcceptEco, Tools
<1>6. Running(u) => Running(t)
  BY <1>5 DEF Running
<1> QED
  BY <1>0, <1>4, <1>5, <1>6 DEF SoundTool, InParity, InDrc

LEMMA SoundCommand ==
  ASSUME TypeInv, LockHeld, SoundInv, Next, Restores = FALSE, NEW p \in Procs, Command(p)
  PROVE  SoundTool(tools'[p], native')
<1> DEFINE t == tools[p]
<1> DEFINE u == tools'[p]
<1>0. /\ tools \in [Procs -> Tools] /\ ToolOK(t) /\ t \in Tools /\ t.report \in Reports
      /\ t.data \in Indexes /\ SoundTool(t, native) /\ SoundTool(t, native')
  BY SoundOthers DEF TypeInv, ToolsOK, ToolOK, Tools, SoundInv
<1>1. CASE \/ Check(p) \/ BeginEnds(p) \/ PlanEnds(p) \/ ApplyEnds(p) \/ Conclude(p) \/ ReviewEnds(p)
           \/ AcceptEnds(p) \/ Raise(p) \/ Crash(p)
  <2>1. Ended(p)
    BY <1>1 DEF Check, BeginEnds, PlanEnds, ApplyEnds, Conclude, ReviewEnds, AcceptEnds, Raise, Failed,
       Crash
  <2>2. u = Idle
    BY <1>0, <2>1 DEF Ended
  <2> QED
    BY <2>2, IdleSound
<1>2. CASE \E d \in Procs : AcceptHandoff(p, box[d])
  <2>1. u = t
    BY <1>2 DEF AcceptHandoff
  <2> QED
    BY <1>0, <2>1
<1>3. CASE Stage(p)
  <2>1. u.at = "export" /\ u.does = "stage" /\ u.data.validation = None
    BY <1>0, <1>3 DEF Stage, Idle, NewIndex
  <2> QED
    BY <2>1 DEF SoundTool, Running, InParity, InDrc
<1>4. CASE Cleanup(p) \/ Parity(p) \/ Drc(p) \/ AuditEnds(p) \/ Render(p)
  <2>1. native' = native
    BY <1>4 DEF Cleanup, Parity, Drc, AuditEnds, Render, projectVars
  <2> QED
    BY <1>4, <2>1, SoundFinds
<1>5. CASE AcceptEco(p)
  <2>1. native' = native
    BY <1>5 DEF AcceptEco, projectVars
  <2> QED
    BY <1>5, <2>1, SoundAccept
<1>6. ASSUME NEW r \in Runs, \/ Begin(p, r) \/ Plan(p, r) \/ Apply(p, r) \/ Validate(p, r)
                             \/ Review(p, r) \/ Accept(p, r)
      PROVE  SoundTool(u, native')
  <2>1. PICK does, at : Start(p, r, does, at) /\ at \in {"before", "build", "apply", "review", "eco"}
    BY <1>6 DEF Begin, Plan, Apply, Validate, Review, Accept
  <2>2. at \notin InChecks \cup {"recheck", "advance"}
    BY <2>1 DEF InChecks, InParity
  <2>3. native' = native
    BY <1>6 DEF Begin, Plan, Apply, Validate, Review, Accept, projectVars
  <2> QED
    BY <2>1, <2>2, <2>3, SoundStart
<1>7. CASE Export(p) \/ ApplyNative(p) \/ BuildEnds(p) \/ CheckSource(p) \/ Advance(p)
  <2>1. PICK a \in {"check", "applied", "plan", "inputs", "cleanup", "accepted"} : Moved(p, a)
    BY <1>7 DEF Export, ApplyNative, BuildEnds, CheckSource, Advance
  <2>2. u.at = a /\ u.does = t.does /\ u.data = t.data /\ u.report = t.report
    BY <1>0, <2>1 DEF Moved, Tools
  <2>3. a \notin InParity \cup {"recheck", "advance", "render", "conclude"}
    BY <2>1 DEF InParity
  <2> QED
    BY <1>0, <2>2, <2>3, SoundOn DEF InDrc
<1>8. CASE Recheck(p)
  <2>1. u.at = "advance" /\ u.does = t.does /\ u.data = t.data /\ u.report = t.report /\ u.held = t.held
        /\ t.at = "recheck"
    BY <1>0, <1>8 DEF Recheck, Moved, Tools
  <2> QED
    BY <1>0, <2>1, SoundOn DEF InParity, InDrc
<1>9. CASE BuildStarts(p) \/ AuditStarts(p)
  <2>1. u.at \in {"built", "audited"} /\ u.does = t.does /\ u.data = t.data /\ u.report = t.report
    BY <1>0, <1>9 DEF BuildStarts, AuditStarts, Tools
  <2>2. u.at = "audited" => t.at = "audit"
    BY <1>0, <1>9 DEF BuildStarts, AuditStarts, Tools
  <2> QED
    BY <1>0, <2>1, <2>2, SoundOn DEF InParity, InDrc
<1>10. CASE TakeBefore(p) \/ MakePlan(p)
  <2>1. u.at \in {"begun", "planned"} /\ u.does = t.does /\ u.report = t.report
    BY <1>0, <1>10 DEF TakeBefore, MakePlan, Tools
  <2>2. u.data.validation = t.data.validation
    BY <1>0, <1>10 DEF TakeBefore, MakePlan, Tools, Indexes
  <2> QED
    BY <1>0, <2>1, <2>2, SoundOn DEF InParity, InDrc
<1>11. CASE TakeInputs(p)
  <2>1. /\ u.at = "source" /\ u.does = t.does /\ u.data = Invalidated(t.data)
        /\ u.report = [t.report EXCEPT !.inputs = Fingerprint]
    BY <1>0, <1>11 DEF TakeInputs, Tools
  <2>2. u.data.validation = None
    BY <1>0, <2>1 DEF Invalidated, Indexes
  <2>3. /\ u.report.native = t.report.native /\ u.report.cleanup = t.report.cleanup
        /\ u.report.snapshot = t.report.snapshot /\ u.report.renders = t.report.renders
    BY <1>0, <2>1 DEF Reports
  <2> QED
    BY <1>0, <2>1, <2>2, <2>3, SoundOn DEF InParity, InDrc
<1> QED
  BY <1>1, <1>2, <1>3, <1>4, <1>5, <1>6, <1>7, <1>8, <1>9, <1>10, <1>11 DEF Command

\* A validation is recorded only if the native project is what it was at the start.
LEMMA ConcludesSoundly ==
  ASSUME TypeInv, LockHeld, SoundInv, NEW p \in Procs, Conclude(p)
  PROVE  SoundValidation(tools[p].report)
<1> DEFINE t == tools[p]
<1>0. ToolOK(t) /\ SoundTool(t, native) /\ t.at = "conclude" /\ t.report.native = native
      /\ Natives \subseteq Nat
  BY WorkflowAssumption DEF TypeInv, ToolsOK, SoundInv, Conclude, Unchanged
<1>1. Running(t)
  BY <1>0, StepsRun DEF InChecks, InParity, Commands
<1>a. native \in Natives
  BY <1>0, <1>1 DEF SoundTool
<1>b. ASSUME NEW n, Seen(t, n, native) PROVE n = native
  <2>1. n \in Nat /\ native \in Nat /\ native <= n /\ n <= native
    BY <1>0, <1>a, <1>b DEF Seen
  <2> QED
    BY <2>1
<1>2. native \in Natives /\ \A n : Seen(t, n, native) => n = native
  BY <1>a, <1>b
<1>3. t.report.cleanup.native = native /\ t.report.snapshot = native /\ t.report.renders = native
  BY <1>0, <1>2 DEF SoundTool, InDrc, InParity
<1>4. "erc" \notin Faults[native] /\ "drc" \notin Faults[native] /\ "preparation" \notin Faults[native]
      /\ Agrees[native] = t.report.cleanup.manifest
  BY <1>0, <1>3 DEF SoundTool, InDrc, InParity
<1>5. Faults[native] = {}
  BY <1>2, <1>4, WorkflowAssumption DEF NativeChecks
<1> QED
  BY <1>0, <1>2, <1>3, <1>4, <1>5 DEF SoundValidation

LEMMA SoundRunsStep ==
  ASSUME TypeInv, LockHeld, SoundInv, Next
  PROVE  SoundRuns'
<1>0. runs \in [Runs -> Indexes] /\ SoundRuns
  BY DEF TypeInv, RunsOK, SoundInv
<1>w. ASSUME NEW r, NEW d, Write(r, d), d.validation # None => SoundValidation(d.validation)
      PROVE  SoundRuns'
  BY <1>0, <1>w DEF Write, SoundRuns
<1>u. ASSUME UNCHANGED runs PROVE SoundRuns'
  BY <1>0, <1>u DEF SoundRuns
<1>1. ASSUME NEW p \in Procs, Command(p) PROVE SoundRuns'
  <2> DEFINE t == tools[p]
  <2>0. t.data \in Indexes /\ (t.data.validation # None => SoundValidation(t.data.validation))
    BY DEF TypeInv, ToolsOK, Tools, SoundInv, SoundTool
  <2>1. CASE Conclude(p)
    <3>1. Write(t.run, [t.data EXCEPT !.stage = "validated", !.validation = t.report])
      BY <2>1 DEF Conclude
    <3>2. [t.data EXCEPT !.stage = "validated", !.validation = t.report].validation = t.report
      BY <2>0 DEF Indexes
    <3> QED
      BY <2>1, <3>1, <3>2, <1>w, ConcludesSoundly
  <2>2. CASE BeginEnds(p) \/ PlanEnds(p) \/ ApplyEnds(p) \/ ReviewEnds(p) \/ AcceptEnds(p) \/ Raise(p)
    <3>2. CASE BeginEnds(p)
      BY <2>0, <3>2, <1>w DEF BeginEnds, Indexes
    <3>3. CASE PlanEnds(p)
      BY <2>0, <3>3, <1>w DEF PlanEnds, Indexes
    <3>4. CASE ApplyEnds(p)
      BY <2>0, <3>4, <1>w DEF ApplyEnds, Indexes
    <3>5. CASE ReviewEnds(p)
      BY <2>0, <3>5, <1>w DEF ReviewEnds, Indexes
    <3>6. CASE AcceptEnds(p)
      BY <2>0, <3>6, <1>w DEF AcceptEnds, Indexes
    <3>7. CASE Raise(p)
      BY <2>0, <3>7, <1>w, <1>u DEF Raise, Failed, Indexes
    <3> QED
      BY <2>2, <3>2, <3>3, <3>4, <3>5, <3>6, <3>7
  <2>3. ASSUME NEW r \in Runs, Apply(p, r) \/ Validate(p, r) PROVE SoundRuns'
    <3>0. runs[r] \in Indexes
      BY <1>0
    <3>1. CASE Apply(p, r)
      BY <3>0, <3>1, <1>w DEF Apply, Indexes
    <3>2. CASE Validate(p, r)
      BY <3>0, <3>2, <1>w DEF Validate, Invalidated, Indexes
    <3> QED
      BY <2>3, <3>1, <3>2
  <2>4. CASE \/ Stage(p) \/ Export(p) \/ Check(p) \/ (\E d \in Procs : AcceptHandoff(p, box[d]))
             \/ TakeBefore(p) \/ BuildStarts(p) \/ BuildEnds(p) \/ MakePlan(p) \/ ApplyNative(p)
             \/ TakeInputs(p) \/ CheckSource(p) \/ Cleanup(p) \/ Parity(p) \/ Drc(p)
             \/ AuditStarts(p) \/ AuditEnds(p) \/ Render(p) \/ AcceptEco(p) \/ Recheck(p) \/ Advance(p)
             \/ Crash(p) \/ (\E r \in Runs : Begin(p, r) \/ Plan(p, r) \/ Review(p, r) \/ Accept(p, r))
    BY <2>4, <1>u, WritesNothing
  <2> QED
    BY <1>1, <2>1, <2>2, <2>3, <2>4 DEF Command
<1>2. CASE (\E p \in Procs : Touch(p)) \/ (\E r \in Runs : Inspect(r)) \/ EditSource \/ EditNative
  <2>1. UNCHANGED runs
    BY <1>2 DEF Touch, Inspect, EditSource, EditNative, evidenceVars
  <2> QED
    BY <2>1, <1>u
<1> QED
  BY <1>1, <1>2 DEF Next

LEMMA SoundFilesStep ==
  ASSUME TypeInv, LockHeld, SoundInv, Next, Restores = FALSE
  PROVE  SoundFiles'
<1> DEFINE BoxOK(b) == b.receipt # None => b.receipt.board \in Natives /\ Clean(b.receipt.board, b.receipt.manifest)
<1> DEFINE Lk == lock # None => native \in Natives /\ Clean(lock.native, lock.manifest)
<1> DEFINE Bx == \A p \in Procs : (tools[p].at = "check" => box[p].board \in Natives) /\ BoxOK(box[p])
<1>0. /\ TypeInv /\ tools \in [Procs -> Tools] /\ box \in [Procs -> Boxes] /\ Lk /\ Bx
      /\ \A p \in Procs : ToolOK(tools[p]) /\ SoundTool(tools[p], native)
  BY DEF TypeInv, ToolsOK, ToolOK, FilesOK, SoundInv, SoundFiles
<1>f. Lk' /\ Bx' => SoundFiles'
  BY DEF SoundFiles
<1>l. ASSUME lock' = lock PROVE Lk'
  BY <1>0, <1>l, NativeStep
<1>b. ASSUME box' = box, \A p \in Procs : tools'[p].at = "check" => tools[p].at = "check" PROVE Bx'
  BY <1>0, <1>b
<1> HIDE DEF Lk, Bx
<1>1. ASSUME NEW p \in Procs, Command(p) PROVE Lk' /\ Bx'
  <2>o. \A q \in Procs : q # p => tools'[q] = tools[q]
    BY <1>0, <1>1, Others
  <2>1. CASE Stage(p)
    <3>1. tools'[p].at = "export" /\ lock' = lock /\ box' = [box EXCEPT ![p] = [NoBox EXCEPT !.manifest = manifest]]
      BY <1>0, <2>1 DEF Stage, Idle, projectVars
    <3>2. BoxOK([NoBox EXCEPT !.manifest = manifest])
      BY DEF NoBox
    <3>3. Bx'
      BY <1>0, <2>o, <3>1, <3>2 DEF Bx
    <3> QED
      BY <3>1, <3>3, <1>l
  <2>2. CASE Export(p)
    <3>1. lock' = lock /\ box' = [box EXCEPT ![p] = [box[p] EXCEPT !.board = Exports[source]]]
      BY <2>2 DEF Export, projectVars
    <3>2. Exports[source] \in Natives
      BY <1>0, WorkflowAssumption DEF TypeInv, FilesOK
    <3>3. box[p] \in Boxes
      BY <1>0
    <3> DEFINE b == [box[p] EXCEPT !.board = Exports[source]]
    <3>4. b.board \in Natives /\ b.receipt = box[p].receipt
      BY <3>2, <3>3 DEF Boxes
    <3> HIDE DEF b
    <3>5. box' = [box EXCEPT ![p] = b]
      BY <3>1 DEF b
    <3>6. Bx'
      BY <1>0, <2>o, <3>4, <3>5 DEF Bx
    <3> QED
      BY <3>1, <3>6, <1>l
  <2>3. CASE Check(p)
    <3> DEFINE b == [box[p] EXCEPT !.receipt = [manifest |-> box[p].manifest, board |-> box[p].board]]
    <3>1. lock' = lock /\ box' = [box EXCEPT ![p] = b] /\ tools'[p].at = "idle"
          /\ Clean(box[p].board, box[p].manifest)
      BY <1>0, <2>3 DEF Check, projectVars, Ended, Idle
    <3>2. box[p] \in Boxes /\ box[p].board \in Natives
      BY <1>0, <2>3 DEF Check, Bx
    <3>3. b.receipt = [manifest |-> box[p].manifest, board |-> box[p].board]
      BY <3>2 DEF Boxes
    <3> HIDE DEF b
    <3>4. BoxOK(b)
      BY <3>1, <3>2, <3>3
    <3>5. Bx'
      BY <1>0, <2>o, <3>1, <3>4 DEF Bx
    <3> QED
      BY <3>1, <3>5, <1>l
  <2>4. ASSUME NEW d \in Procs, AcceptHandoff(p, box[d]) PROVE Lk' /\ Bx'
    <3>1. BoxOK(box[d]) /\ box[d].receipt # None
      BY <1>0, <2>4 DEF Bx, AcceptHandoff
    <3>2. native' = box[d].receipt.board /\ tools' = tools /\ box' = box
          /\ lock' = [manifest |-> box[d].receipt.manifest, native |-> box[d].receipt.board]
      BY <2>4 DEF AcceptHandoff, ReceiptBinds
    <3>3. Lk'
      BY <3>1, <3>2 DEF Lk
    <3> QED
      BY <3>2, <3>3, <1>b
  <2>5. CASE Advance(p)
    <3>1. tools[p].held.native \in Natives /\ Clean(tools[p].held.native, tools[p].held.manifest)
          /\ Running(tools[p])
      BY <1>0, <2>5, StepsRun DEF Advance, SoundTool, Commands
    <3>2. lock' = tools[p].held /\ native' = native /\ box' = box /\ tools'[p].at = "accepted"
      BY <1>0, <2>5 DEF Advance, Moved, Tools
    <3>3. native \in Natives
      BY <1>0, <3>1 DEF LockHeld, Lk
    <3>4. Lk'
      BY <3>1, <3>2, <3>3 DEF Lk
    <3> QED
      BY <2>o, <3>2, <3>4, <1>b
  <2>6. CASE BuildStarts(p) \/ ApplyNative(p) \/ Render(p)
    <3>1. lock' = lock /\ box' = box /\ tools'[p].at \in {"built", "applied", "conclude"}
      BY <1>0, <2>6 DEF BuildStarts, ApplyNative, Render, Moved, Tools, projectVars
    <3> QED
      BY <2>o, <3>1, <1>b, <1>l
  <2>7. CASE Quiet /\ ~Export(p)
    <3>1. tools'[p].at # "check" \/ tools'[p].at = tools[p].at
      BY <1>0, <1>1, <2>7, NextAt
    <3> QED
      BY <2>o, <2>7, <3>1, <1>b, <1>l DEF Quiet
  <2> QED
    BY <1>1, <2>1, <2>2, <2>3, <2>4, <2>5, <2>6, <2>7, QuietSteps DEF Command
<1>2. ASSUME NEW p \in Procs, Touch(p) PROVE Lk' /\ Bx'
  <2>1. PICK n \in Natives : box' = [box EXCEPT ![p] = [box[p] EXCEPT !.board = n]]
    BY <1>2 DEF Touch
  <2> DEFINE b == [box[p] EXCEPT !.board = n]
  <2>2. b.board \in Natives /\ b.receipt = box[p].receipt
    BY <1>0 DEF Boxes
  <2> HIDE DEF b
  <2>3. lock' = lock /\ tools' = tools /\ box' = [box EXCEPT ![p] = b]
    BY <1>2, <2>1 DEF Touch, projectVars, b
  <2>4. Bx'
    BY <1>0, <2>2, <2>3 DEF Bx
  <2> QED
    BY <2>3, <2>4, <1>l
<1>3. CASE (\E r \in Runs : Inspect(r)) \/ EditSource \/ EditNative
  <2>1. lock' = lock /\ box' = box /\ tools' = tools
    BY <1>3 DEF Inspect, EditSource, EditNative, projectVars
  <2>2. \A p \in Procs : tools'[p].at = "check" => tools[p].at = "check"
    BY <2>1
  <2>3. Lk'
    BY <2>1, <1>l
  <2>4. Bx'
    BY <2>1, <2>2, <1>b
  <2> QED
    BY <2>3, <2>4, <1>f
<1> QED
  BY <1>1, <1>2, <1>3, <1>f DEF Next

LEMMA SoundStep ==
  ASSUME Restores = FALSE
  PROVE  TypeInv /\ LockHeld /\ SoundInv /\ [Next]_vars => SoundInv'
<1> SUFFICES ASSUME TypeInv, LockHeld, SoundInv, [Next]_vars PROVE SoundInv'
  OBVIOUS
<1>1. CASE Next
  <2>1. SoundFiles' /\ SoundRuns'
    BY <1>1, SoundFilesStep, SoundRunsStep
  <2>2. ASSUME NEW q \in Procs PROVE SoundTool(tools'[q], native')
    <3>1. CASE tools'[q] = tools[q]
      BY <1>1, <3>1, SoundOthers
    <3>2. ASSUME NEW p \in Procs, Command(p), tools'[q] # tools[q] PROVE SoundTool(tools'[q], native')
      <4>1. q = p
        BY <3>2, Others
      <4> QED
        BY <1>1, <3>2, <4>1, SoundCommand
    <3>3. ASSUME tools'[q] # tools[q] PROVE \E p \in Procs : Command(p)
      BY <1>1, <3>3 DEF Next, Touch, Inspect, EditSource, EditNative
    <3> QED
      BY <3>1, <3>2, <3>3
  <2> QED
    BY <2>1, <2>2 DEF SoundInv
<1>2. CASE UNCHANGED vars
  BY <1>2 DEF SoundInv, SoundFiles, SoundRuns, vars, projectVars, evidenceVars
<1> QED
  BY <1>1, <1>2

\* Where no edit brings back an earlier version, the lock only ever describes a
\* native project that passes every check against the manifest it records,
\* however many commands run at once (accept, accept-eco, validate).
THEOREM LockIsSound == ASSUME Restores = FALSE PROVE Spec => []WorkflowConsistent
<1>1. Spec => [](TypeInv /\ LockHeld)
  BY InitType, TypeStep, LockHeldAlways, PTL DEF Spec
<1>2. TypeInv /\ LockHeld /\ SoundInv /\ [Next]_vars => SoundInv'
  BY SoundStep
<1>3. TypeInv /\ SoundInv => WorkflowConsistent
  BY TypeInvImplies DEF SoundInv, SoundFiles, WorkflowConsistent, AcceptedIsSound
<1> QED
  BY <1>1, <1>2, <1>3, InitSound, PTL DEF Spec

-----------------------------------------------------------------------------
(* One command at a time: what it holds of its run is what the index says. *)

OneAtATime == \A p, q \in Procs : p = q

\* An apply is planned for the lock and the native project its run began with.
ApplyInv ==
    /\ \A r \in Runs : runs[r].stage = "planned" => runs[r].target.lock = runs[r].baseline
    /\ \A p \in Procs :
         LET t == tools[p] IN
         /\ t.does = "plan" => t.data.baseline = lock
         /\ t.at = "apply" =>
              /\ runs[t.run].stage = "applying"
              /\ runs[t.run].before = t.report.native
              /\ runs[t.run].baseline = lock

BeforeOK(d) ==
    /\ d.before # None => d.before = d.snapshot /\ Agrees[d.before] = d.baseline.manifest
    /\ d.plan # None => d.before # None
    /\ d.review # None => d.review \in reviews

RendersOK(d, r) == d.validation # None => renders[r] = d.validation.renders

\* What a command that begins or plans goes by, one that validates, and one
\* that accepts.
BeginTool(t) ==
    /\ t.does = "begin" => t.data.before = None /\ t.report.inputs = lock
    /\ t.at = "begun" => Seen(t, t.data.snapshot, native) /\ Agrees[t.data.snapshot] = lock.manifest
    /\ t.does = "plan" => t.data.before # None

ValidateTool(t) ==
    /\ t.does = "validate" => runs[t.run].validation = None
    /\ t.at = "conclude" => renders[t.run] = t.report.renders

AcceptTool(t) ==
    /\ t.does = "accept" /\ t.at # "accepted" =>
         /\ t.data = runs[t.run] /\ t.data.baseline = lock
         /\ t.data.plan # None /\ t.data.review # None
    /\ t.at \in {"recheck", "advance"} =>
         /\ t.data.plan = PlanFor(t.held.manifest, t.data, t.data.plan.allow)
         /\ ~Blocked(t.data.plan)
         /\ t.held.manifest = t.data.validation.manifest
         /\ t.held.native = t.data.validation.native

DataOK(t) == Running(t) => BeforeOK(t.data) /\ RendersOK(t.data, t.run)

IndexesOK ==
    \A r \in Runs : /\ BeforeOK(runs[r]) /\ RendersOK(runs[r], r)
                    /\ runs[r].stage = "reviewed" => runs[r].review # None

SawRenders == \A v \in reviews : v.saw = v.validation.renders

ReviewInv ==
    /\ SawRenders /\ IndexesOK
    /\ \A p \in Procs : /\ DataOK(tools[p]) /\ BeginTool(tools[p])
                         /\ ValidateTool(tools[p]) /\ AcceptTool(tools[p])

LEMMA OneMoves ==
  ASSUME OneAtATime, TypeInv, NEW p \in Procs, NEW q \in Procs
  PROVE  q = p
BY DEF OneAtATime

LEMMA InitApply == Init => ApplyInv
BY NoneAssumption DEF Init, ApplyInv, NewIndex, Idle, Commands

\* What a command that is started holds.
LEMMA StartFields ==
  ASSUME TypeInv, NEW p \in Procs, NEW r, NEW does, NEW at, Start(p, r, does, at)
  PROVE  /\ tools'[p].at = at /\ tools'[p].does = does /\ tools'[p].run = r
         /\ tools'[p].data = runs[r] /\ tools'[p].report.native = native
         /\ tools'[p].report.inputs = lock
<1>1. tools \in [Procs -> Tools]
  BY DEF TypeInv, ToolsOK
<1> DEFINE f == [Report EXCEPT !.native = native, !.inputs = lock]
<1>2. tools'[p] = [at |-> at, does |-> does, run |-> r, data |-> runs[r], held |-> None, report |-> f]
  BY <1>1 DEF Start, Idle
<1>3. f.native = native /\ f.inputs = lock
  BY DEF Report
<1> HIDE DEF f
<1> QED
  BY <1>2, <1>3

\* The data of a command is its own, and a plan's keeps its baseline.
LEMMA PlanKeeps ==
  ASSUME TypeInv, NEW p \in Procs, Command(p), tools'[p].does = "plan", tools[p].does = "plan"
  PROVE  /\ tools'[p].data.baseline = tools[p].data.baseline
         /\ tools'[p].data.before = tools[p].data.before
         /\ tools'[p].data.snapshot = tools[p].data.snapshot
         /\ tools'[p].data.review = tools[p].data.review
         /\ tools'[p].data.validation = tools[p].data.validation
         /\ tools'[p].run = tools[p].run
         /\ UNCHANGED <<runs, renders, reviews, lock, native>>
<1>0. tools \in [Procs -> Tools] /\ tools[p].data \in Indexes /\ ToolOK(tools[p]) /\ tools[p] # Idle
  BY NoneAssumption DEF TypeInv, ToolsOK, ToolOK, Tools, Idle, Commands
<1>1. tools[p].at \in {"build", "built", "plan", "planned"}
  BY <1>0, NoneAssumption DEF ToolOK, Doing, Commands
<1>2. BuildStarts(p) \/ BuildEnds(p) \/ MakePlan(p) \/ PlanEnds(p) \/ Raise(p) \/ Crash(p)
  BY <1>0, <1>1 DEF Command, Stage, Export, Check, AcceptHandoff, TakeBefore, BeginEnds, ApplyNative,
     ApplyEnds, TakeInputs, CheckSource, Cleanup, Parity, Drc, AuditStarts, AuditEnds, Render,
     Conclude, ReviewEnds, AcceptEco, Recheck, Advance, AcceptEnds, Begin, Plan, Apply, Validate,
     Review, Accept, Start
<1>3. ~(PlanEnds(p) \/ Raise(p) \/ Crash(p))
  <2>1. PlanEnds(p) \/ Raise(p) \/ Crash(p) => Ended(p)
    BY DEF PlanEnds, Raise, Crash, Failed
  <2>2. Ended(p) => tools'[p].does = None
    BY <1>0 DEF Ended, Idle
  <2> QED
    BY <2>1, <2>2, NoneAssumption DEF Commands
<1>4. CASE BuildStarts(p) \/ BuildEnds(p)
  BY <1>0, <1>4 DEF BuildStarts, BuildEnds, Moved, Tools, projectVars, evidenceVars
<1>5. CASE MakePlan(p)
  <2>1. PICK allow \in BOOLEAN :
          tools' = [tools EXCEPT ![p].at = "planned",
                                 ![p].data.plan = PlanFor(manifest, tools[p].data, allow)]
    BY <1>5 DEF MakePlan
  <2>2. /\ tools'[p].data = [tools[p].data EXCEPT !.plan = PlanFor(manifest, tools[p].data, allow)]
        /\ tools'[p].run = tools[p].run
    BY <1>0, <2>1 DEF Tools
  <2> QED
    BY <1>0, <1>5, <2>2 DEF MakePlan, Indexes, projectVars, evidenceVars
<1> QED
  BY <1>2, <1>3, <1>4, <1>5

\* A command enters its first step only by being started.
LEMMA Enters ==
  ASSUME TypeInv, NEW p \in Procs, Command(p)
  PROVE  /\ tools'[p].does = "plan" /\ tools[p].does # "plan" => \E r \in Runs : Plan(p, r)
         /\ tools'[p].at = "apply" => \E r \in Runs : Apply(p, r)
<1>0. tools \in [Procs -> Tools] /\ ToolOK(tools[p])
  BY DEF TypeInv, ToolsOK
<1> DEFINE G == /\ tools'[p].does = "plan" /\ tools[p].does # "plan" => \E r \in Runs : Plan(p, r)
                /\ tools'[p].at = "apply" => \E r \in Runs : Apply(p, r)
<1>i. Idle.does # "plan" /\ Idle.at # "apply" /\ None # "plan"
  BY NoneAssumption DEF Idle, Commands
<1>1. CASE \/ Check(p) \/ BeginEnds(p) \/ PlanEnds(p) \/ ApplyEnds(p) \/ Conclude(p) \/ ReviewEnds(p)
           \/ AcceptEnds(p) \/ Raise(p) \/ Crash(p)
  <2>1. Ended(p)
    BY <1>1 DEF Check, BeginEnds, PlanEnds, ApplyEnds, Conclude, ReviewEnds, AcceptEnds, Raise, Failed,
       Crash
  <2> QED
    BY <1>0, <1>i, <2>1 DEF Ended
<1>2. CASE \/ Export(p) \/ BuildEnds(p) \/ ApplyNative(p) \/ CheckSource(p) \/ Drc(p) \/ AuditEnds(p)
           \/ Recheck(p) \/ Advance(p)
  BY <1>0, <1>2 DEF Export, BuildEnds, ApplyNative, CheckSource, Drc, AuditEnds, Recheck, Advance, Moved,
     Tools
<1>3. CASE \/ TakeBefore(p) \/ BuildStarts(p) \/ TakeInputs(p)
           \/ Cleanup(p) \/ Parity(p) \/ AuditStarts(p) \/ Render(p) \/ AcceptEco(p)
  BY <1>0, <1>3 DEF TakeBefore, BuildStarts, TakeInputs, Cleanup, Parity, AuditStarts, Render,
     AcceptEco, Tools
<1>4. CASE MakePlan(p)
  BY <1>0, <1>4 DEF MakePlan, Tools
<1>5. CASE Stage(p)
  <2>1. tools' = [tools EXCEPT ![p] = [Idle EXCEPT !.at = "export", !.does = "stage",
                                                   !.held = [native |-> native]]]
    BY <1>5 DEF Stage
  <2> QED
    BY <1>0, <2>1 DEF Idle
<1>6. CASE \E d \in Procs : AcceptHandoff(p, box[d])
  <2>1. tools' = tools /\ tools[p] = Idle
    BY <1>6 DEF AcceptHandoff
  <2> QED
    BY <1>i, <2>1
<1>7. CASE \E r \in Runs : \/ Begin(p, r) \/ Plan(p, r) \/ Apply(p, r) \/ Validate(p, r)
                           \/ Review(p, r) \/ Accept(p, r)
  <2>1. PICK r \in Runs : \/ Begin(p, r) \/ Plan(p, r) \/ Apply(p, r) \/ Validate(p, r)
                          \/ Review(p, r) \/ Accept(p, r)
    BY <1>7
  <2>2. CASE Plan(p, r)
    <3>1. Start(p, r, "plan", "build")
      BY <2>2 DEF Plan
    <3>2. tools'[p].at = "build"
      BY <3>1, StartFields
    <3> QED
      BY <2>2, <3>2
  <2>3. CASE Apply(p, r)
    <3>1. Start(p, r, "apply", "apply")
      BY <2>3 DEF Apply
    <3>2. tools'[p].does = "apply"
      BY <3>1, StartFields
    <3> QED
      BY <2>3, <3>2
  <2>4. CASE Begin(p, r) \/ Validate(p, r) \/ Review(p, r) \/ Accept(p, r)
    <3>1. PICK does \in {"begin", "validate", "review", "accept"}, at \in {"before", "build", "review", "eco"} :
            Start(p, r, does, at)
      BY <2>4 DEF Begin, Validate, Review, Accept
    <3>2. tools'[p].at = at /\ tools'[p].does = does
      BY <3>1, StartFields
    <3> QED
      BY <3>2
  <2> QED
    BY <2>1, <2>2, <2>3, <2>4
<1> QED
  BY <1>1, <1>2, <1>3, <1>4, <1>5, <1>6, <1>7 DEF Command

\* The index a command writes is planned only where it plans.
LEMMA PlansOnly ==
  ASSUME TypeInv, NEW p \in Procs, Command(p), ~PlanEnds(p), NEW r \in Runs,
         runs'[r].stage = "planned"
  PROVE  runs'[r] = runs[r]
<1>0. runs \in [Runs -> Indexes] /\ tools[p].data \in Indexes
  BY DEF TypeInv, RunsOK, ToolsOK, Tools
<1>w. ASSUME NEW s, NEW d, Write(s, d), d.stage # "planned" PROVE runs'[r] = runs[r]
  BY <1>0, <1>w DEF Write
<1>1. CASE BeginEnds(p)
  <2> DEFINE d == [tools[p].data EXCEPT !.stage = "begun", !.baseline = lock, !.before = native]
  <2>1. Write(tools[p].run, d)
    BY <1>1 DEF BeginEnds
  <2>2. d.stage = "begun"
    BY <1>0 DEF Indexes
  <2> QED
    BY <2>1, <2>2, <1>w
<1>2. CASE ApplyEnds(p)
  <2> DEFINE d == [tools[p].data EXCEPT !.stage = "applied", !.validation = None, !.review = None]
  <2>1. Write(tools[p].run, d)
    BY <1>2 DEF ApplyEnds
  <2>2. d.stage = "applied"
    BY <1>0 DEF Indexes
  <2> QED
    BY <2>1, <2>2, <1>w
<1>3. CASE Conclude(p)
  <2> DEFINE d == [tools[p].data EXCEPT !.stage = "validated", !.validation = tools[p].report]
  <2>1. Write(tools[p].run, d)
    BY <1>3 DEF Conclude
  <2>2. d.stage = "validated"
    BY <1>0 DEF Indexes
  <2> QED
    BY <2>1, <2>2, <1>w
<1>4. CASE AcceptEnds(p)
  <2> DEFINE d == [tools[p].data EXCEPT !.stage = "accepted", !.accepted = lock]
  <2>1. Write(tools[p].run, d)
    BY <1>4 DEF AcceptEnds
  <2>2. d.stage = "accepted"
    BY <1>0 DEF Indexes
  <2> QED
    BY <2>1, <2>2, <1>w
<1>5. CASE ReviewEnds(p)
  <2>1. PICK review \in reviews :
          Write(tools[p].run, [tools[p].data EXCEPT !.stage = "reviewed", !.review = review])
    BY <1>5 DEF ReviewEnds
  <2>2. [tools[p].data EXCEPT !.stage = "reviewed", !.review = review].stage = "reviewed"
    BY <1>0 DEF Indexes
  <2> QED
    BY <2>1, <2>2, <1>w
<1>6. CASE Raise(p)
  BY <1>0, <1>6, <1>w DEF Raise, Failed, Indexes
<1>7. ASSUME NEW s \in Runs, Apply(p, s) PROVE runs'[r] = runs[r]
  <2>1. runs[s] \in Indexes
    BY <1>0
  <2> QED
    BY <1>7, <2>1, <1>w DEF Apply, Indexes
<1>8. ASSUME NEW s \in Runs, Validate(p, s) PROVE runs'[r] = runs[r]
  <2>1. runs[s] \in Indexes
    BY <1>0
  <2> QED
    BY <1>8, <2>1, <1>w DEF Validate, Invalidated, Indexes
<1> QED
  BY <1>1, <1>2, <1>3, <1>4, <1>5, <1>6, <1>7, <1>8, WritesNothing DEF Command

LEMMA ApplyStep ==
  ASSUME OneAtATime
  PROVE  TypeInv /\ LockHeld /\ ApplyInv /\ [Next]_vars => ApplyInv'
<1> SUFFICES ASSUME TypeInv, LockHeld, ApplyInv, [Next]_vars PROVE ApplyInv'
  OBVIOUS
<1> DEFINE P(r) == runs[r].stage = "planned" => runs[r].target.lock = runs[r].baseline
<1> DEFINE T(t) == /\ t.does = "plan" => t.data.baseline = lock
                   /\ t.at = "apply" => /\ runs[t.run].stage = "applying"
                                        /\ runs[t.run].before = t.report.native
                                        /\ runs[t.run].baseline = lock
<1>1. ASSUME NEW p \in Procs, Command(p) PROVE ApplyInv'
  <2>0. /\ runs \in [Runs -> Indexes] /\ tools \in [Procs -> Tools] /\ tools[p].data \in Indexes
        /\ ToolOK(tools[p])
    BY DEF TypeInv, RunsOK, ToolsOK, Tools
  <2>1. ASSUME NEW r \in Runs PROVE P(r)'
    <3>1. CASE PlanEnds(p)
      <4> DEFINE d == [tools[p].data EXCEPT !.stage = "planned", !.target = Fingerprint,
                                            !.validation = None, !.review = None]
      <4>1. runs' = [runs EXCEPT ![tools[p].run] = d]
        BY <3>1 DEF PlanEnds, Write
      <4>2. d.target = Fingerprint /\ d.baseline = tools[p].data.baseline
        BY <2>0 DEF Indexes
      <4>3. tools[p].data.baseline = lock
        BY <2>0, <3>1, NoneAssumption DEF PlanEnds, ToolOK, Doing, ApplyInv
      <4>4. d.target.lock = d.baseline
        BY <4>2, <4>3 DEF Fingerprint
      <4> HIDE DEF d
      <4> QED
        BY <2>0, <4>1, <4>4 DEF ApplyInv
    <3>2. CASE ~PlanEnds(p)
      BY <1>1, <3>2, PlansOnly DEF ApplyInv
    <3> QED
      BY <3>1, <3>2
  <2>2. T(tools[p])'
    <3>1. CASE tools'[p].does = "plan" /\ tools[p].does = "plan"
      <4>1. tools'[p].at # "apply"
        <5>1. ToolsOK'
          BY <1>1, TypeStep DEF Next, TypeInv
        <5> QED
          BY <3>1, <5>1, NoneAssumption DEF ToolsOK, ToolOK, Doing, Commands
      <4>2. tools'[p].data.baseline = lock'
        BY <1>1, <3>1, PlanKeeps DEF ApplyInv
      <4> QED
        BY <4>1, <4>2
    <3>2. ASSUME NEW r \in Runs, Plan(p, r) PROVE T(tools[p])'
      <4>1. Start(p, r, "plan", "build") /\ runs[r].baseline = lock /\ lock' = lock
        BY <3>2 DEF Plan, projectVars
      <4>2. tools'[p].at = "build" /\ tools'[p].data = runs[r]
        BY <4>1, StartFields
      <4> QED
        BY <4>1, <4>2
    <3>3. ASSUME NEW r \in Runs, Apply(p, r) PROVE T(tools[p])'
      <4>1. /\ Start(p, r, "apply", "apply") /\ Planned(r) /\ lock' = lock
            /\ runs' = [runs EXCEPT ![r] = [runs[r] EXCEPT !.stage = "applying", !.validation = None,
                                                           !.review = None]]
        BY <3>3 DEF Apply, Write, projectVars
      <4>2. tools'[p].run = r /\ tools'[p].does = "apply" /\ tools'[p].report.native = native
        BY <4>1, StartFields
      <4>3. runs[r] \in Indexes
        BY <2>0
      <4>4. runs'[r].stage = "applying" /\ runs'[r].before = runs[r].before
            /\ runs'[r].baseline = runs[r].baseline
        BY <2>0, <4>1, <4>3 DEF Indexes
      <4>5. runs[r].before = native /\ runs[r].target = Fingerprint /\ runs[r].stage = "planned"
        BY <4>1 DEF Planned
      <4>6. runs[r].baseline = lock
        BY <4>5 DEF ApplyInv, Fingerprint
      <4> QED
        BY <4>1, <4>2, <4>4, <4>5, <4>6
    <3> QED
      BY <1>1, <3>1, <3>2, <3>3, Enters
  <2>3. ASSUME NEW q \in Procs PROVE T(tools[q])'
    BY <2>2, OneMoves
  <2> QED
    BY <2>1, <2>3 DEF ApplyInv
<1>2. CASE \/ (\E p \in Procs : Touch(p)) \/ (\E r \in Runs : Inspect(r)) \/ EditSource \/ EditNative
           \/ UNCHANGED vars
  <2>1. UNCHANGED <<tools, lock, runs>>
    BY <1>2 DEF Touch, Inspect, EditSource, EditNative, vars, projectVars, evidenceVars
  <2> QED
    BY <2>1 DEF ApplyInv
<1> QED
  BY <1>1, <1>2 DEF Next

\* With one command at a time, a native edit is applied only to the files its
\* run began with, for the lock it was planned against, while the index says so.
THEOREM AppliesWhatWasPlanned == ASSUME OneAtATime PROVE Spec => AppliesToBaseline
<1>1. ASSUME TypeInv, ApplyInv, [Next]_vars
      PROVE  [\A p \in Procs :
                tools[p].at = "apply" /\ tools'[p].at = "applied" =>
                   /\ native = runs[tools[p].run].before
                   /\ runs[tools[p].run].stage = "applying"
                   /\ lock = runs[tools[p].run].baseline]_vars
  <2> SUFFICES ASSUME NEW p \in Procs, tools[p].at = "apply", tools'[p].at = "applied"
               PROVE  /\ native = runs[tools[p].run].before
                      /\ runs[tools[p].run].stage = "applying"
                      /\ lock = runs[tools[p].run].baseline
    OBVIOUS
  <2>0. tools \in [Procs -> Tools] /\ tools[p] # Idle
    BY <1>1 DEF TypeInv, ToolsOK, Idle
  <2>1. PICK q \in Procs : Command(q)
    BY <1>1 DEF Next, Touch, Inspect, EditSource, EditNative, vars, projectVars, evidenceVars
  <2>2. q = p
    BY <1>1, OneMoves
  <2>3. ApplyNative(p) \/ Raise(p) \/ Crash(p)
    BY <2>0, <2>1, <2>2 DEF Command, Stage, Export, Check, AcceptHandoff, TakeBefore, BeginEnds,
       ApplyEnds, BuildStarts, BuildEnds, MakePlan, PlanEnds, TakeInputs, CheckSource, Cleanup,
       Parity, Drc, AuditStarts, AuditEnds, Render, Conclude, ReviewEnds, AcceptEco, Recheck,
       Advance, AcceptEnds, Begin, Plan, Apply, Validate, Review, Accept, Start
  <2>4. ~(Raise(p) \/ Crash(p))
    BY <2>0 DEF Raise, Crash, Failed, Ended, Idle
  <2>5. native = tools[p].report.native
    BY <2>3, <2>4 DEF ApplyNative
  <2> QED
    BY <1>1, <2>5 DEF ApplyInv
<1>2. TypeInv /\ LockHeld /\ ApplyInv /\ [Next]_vars => ApplyInv'
  BY ApplyStep
<1>3. Spec => [](TypeInv /\ LockHeld)
  BY InitType, TypeStep, LockHeldAlways, PTL DEF Spec
<1> QED
  BY <1>1, <1>2, <1>3, InitApply, PTL DEF Spec, AppliesToBaseline

-----------------------------------------------------------------------------
(* The lock advances as planned and as reviewed.                           *)

LEMMA InitReview == Init => ReviewInv
<1> SUFFICES ASSUME Init PROVE ReviewInv
  OBVIOUS
<1>1. SawRenders /\ IndexesOK
  BY DEF Init, SawRenders, IndexesOK, NewIndex, BeforeOK, RendersOK
<1>2. ~Running(Idle) /\ Idle.at = "idle" /\ Idle.does = None
  BY DEF Running, Idle
<1>3. DataOK(Idle) /\ BeginTool(Idle) /\ ValidateTool(Idle) /\ AcceptTool(Idle)
  BY <1>2, NoneAssumption DEF DataOK, BeginTool, ValidateTool, AcceptTool, Commands
<1> QED
  BY <1>1, <1>3 DEF Init, ReviewInv

\* The steps a command of each kind takes before its last.
LEMMA InnerSteps ==
  ASSUME TypeInv, NEW p \in Procs, Command(p), Running(tools[p]), ~Ended(p)
  PROVE  /\ tools[p].does = "begin" => TakeBefore(p)
         /\ tools[p].does = "plan" => BuildStarts(p) \/ BuildEnds(p) \/ MakePlan(p)
         /\ tools[p].does = "apply" => ApplyNative(p)
         /\ tools[p].does = "validate" =>
              \/ BuildStarts(p) \/ BuildEnds(p) \/ TakeInputs(p) \/ CheckSource(p) \/ Cleanup(p)
              \/ Parity(p) \/ Drc(p) \/ AuditStarts(p) \/ AuditEnds(p) \/ Render(p)
         /\ tools[p].does # "review"
         /\ tools[p].does = "accept" => AcceptEco(p) \/ Recheck(p) \/ Advance(p)
<1>0. ToolOK(tools[p]) /\ Doing(tools[p].does, tools[p].at) /\ tools[p] # Idle
  BY DEF TypeInv, ToolsOK, ToolOK, Running, Idle
<1>1. /\ ~Check(p) /\ ~BeginEnds(p) /\ ~PlanEnds(p) /\ ~ApplyEnds(p) /\ ~Conclude(p) /\ ~ReviewEnds(p)
      /\ ~AcceptEnds(p) /\ ~Raise(p) /\ ~Crash(p)
  BY DEF Check, BeginEnds, PlanEnds, ApplyEnds, Conclude, ReviewEnds, AcceptEnds, Raise, Failed, Crash
<1>2. /\ ~Stage(p) /\ (\A d \in Procs : ~AcceptHandoff(p, box[d]))
      /\ \A r \in Runs : ~(Begin(p, r) \/ Plan(p, r) \/ Apply(p, r) \/ Validate(p, r) \/ Review(p, r)
                            \/ Accept(p, r))
  BY <1>0 DEF Stage, AcceptHandoff, Begin, Plan, Apply, Validate, Review, Accept, Start
<1>3. \/ Export(p) \/ TakeBefore(p) \/ BuildStarts(p) \/ BuildEnds(p) \/ MakePlan(p) \/ ApplyNative(p)
      \/ TakeInputs(p) \/ CheckSource(p) \/ Cleanup(p) \/ Parity(p) \/ Drc(p)
      \/ AuditStarts(p) \/ AuditEnds(p) \/ Render(p) \/ AcceptEco(p) \/ Recheck(p) \/ Advance(p)
  BY <1>1, <1>2 DEF Command
<1>4. /\ Export(p) => tools[p].at = "export"
      /\ TakeBefore(p) => tools[p].at = "before"
      /\ BuildStarts(p) => tools[p].at = "build"
      /\ BuildEnds(p) => tools[p].at = "built"
      /\ MakePlan(p) => tools[p].at = "plan"
      /\ ApplyNative(p) => tools[p].at = "apply"
      /\ TakeInputs(p) => tools[p].at = "inputs"
      /\ CheckSource(p) => tools[p].at = "source"
      /\ Cleanup(p) => tools[p].at = "cleanup"
      /\ Parity(p) => tools[p].at = "parity"
      /\ Drc(p) => tools[p].at = "drc"
      /\ AuditStarts(p) => tools[p].at = "audit"
      /\ AuditEnds(p) => tools[p].at = "audited"
      /\ Render(p) => tools[p].at = "render"
      /\ AcceptEco(p) => tools[p].at = "eco"
      /\ Recheck(p) => tools[p].at = "recheck"
      /\ Advance(p) => tools[p].at = "advance"
  BY DEF Export, TakeBefore, BuildStarts, BuildEnds, MakePlan, ApplyNative, TakeInputs, CheckSource,
     Cleanup, Parity, Drc, AuditStarts, AuditEnds, Render, AcceptEco, Recheck, Advance
<1> QED
  BY <1>0, <1>3, <1>4, NoneAssumption DEF Doing, Commands

\* What those steps leave of the command.
LEMMA InnerKeeps ==
  ASSUME TypeInv, NEW p \in Procs, Command(p), Running(tools[p]), ~Ended(p)
  PROVE  /\ tools'[p].does = tools[p].does /\ tools'[p].run = tools[p].run
         /\ UNCHANGED <<runs, reviews>>
<1>0. tools \in [Procs -> Tools] /\ ToolOK(tools[p])
  BY DEF TypeInv, ToolsOK
<1>1. \/ TakeBefore(p) \/ BuildStarts(p) \/ BuildEnds(p) \/ MakePlan(p) \/ ApplyNative(p)
      \/ TakeInputs(p) \/ CheckSource(p) \/ Cleanup(p) \/ Parity(p) \/ Drc(p)
      \/ AuditStarts(p) \/ AuditEnds(p) \/ Render(p) \/ AcceptEco(p) \/ Recheck(p) \/ Advance(p)
  BY <1>0, InnerSteps DEF ToolOK, Doing, Running
<1>2. UNCHANGED <<runs, reviews>>
  BY <1>1 DEF TakeBefore, BuildStarts, BuildEnds, MakePlan, ApplyNative, TakeInputs, CheckSource,
     Cleanup, Parity, Drc, AuditStarts, AuditEnds, Render, AcceptEco, Recheck, Advance, evidenceVars
<1>3. CASE \/ BuildEnds(p) \/ ApplyNative(p) \/ CheckSource(p) \/ Drc(p) \/ AuditEnds(p)
           \/ Recheck(p) \/ Advance(p)
  BY <1>0, <1>2, <1>3 DEF BuildEnds, ApplyNative, CheckSource, Drc, AuditEnds, Recheck, Advance, Moved,
     Tools
<1>4. CASE \/ TakeBefore(p) \/ BuildStarts(p) \/ TakeInputs(p)
           \/ Cleanup(p) \/ Parity(p) \/ AuditStarts(p) \/ Render(p) \/ AcceptEco(p)
  BY <1>0, <1>2, <1>4 DEF TakeBefore, BuildStarts, TakeInputs, Cleanup, Parity, AuditStarts, Render,
     AcceptEco, Tools
<1>5. CASE MakePlan(p)
  BY <1>0, <1>2, <1>5 DEF MakePlan, Tools
<1> QED
  BY <1>1, <1>3, <1>4, <1>5

LEMMA IdleReview ==
  ASSUME TypeInv, NEW p \in Procs, Ended(p)
  PROVE  /\ DataOK(tools[p])' /\ BeginTool(tools[p])' /\ ValidateTool(tools[p])'
         /\ AcceptTool(tools[p])'
<1>1. tools'[p] = Idle
  BY DEF TypeInv, ToolsOK, Ended
<1>2. ~Running(Idle) /\ Idle.at = "idle" /\ Idle.does = None
  BY DEF Running, Idle
<1>3. tools'[p].does = None /\ tools'[p].at = "idle" /\ ~Running(tools'[p])
  BY <1>1, <1>2
<1> QED
  BY <1>3, NoneAssumption DEF DataOK, BeginTool, ValidateTool, AcceptTool, Commands, Running

\* The same facts for a command that copies an index.
LEMMA BeforeFields ==
  ASSUME NEW d, NEW e, BeforeOK(d), e.before = d.before, e.snapshot = d.snapshot,
         e.baseline = d.baseline, e.plan = d.plan, e.review \in {d.review, None}
  PROVE  BeforeOK(e)
BY DEF BeforeOK

LEMMA StartReview ==
  ASSUME TypeInv, ReviewInv, SoundInv, NEW p \in Procs, NEW r \in Runs,
         \/ Begin(p, r) \/ Plan(p, r) \/ Apply(p, r) \/ Validate(p, r) \/ Review(p, r) \/ Accept(p, r)
  PROVE  /\ DataOK(tools[p])' /\ BeginTool(tools[p])' /\ ValidateTool(tools[p])'
         /\ AcceptTool(tools[p])'
<1> DEFINE u == tools'[p]
<1>0. /\ runs \in [Runs -> Indexes] /\ runs[r] \in Indexes /\ BeforeOK(runs[r]) /\ RendersOK(runs[r], r)
      /\ UNCHANGED <<renders, reviews, lock, native>>
  BY DEF TypeInv, RunsOK, ReviewInv, IndexesOK, Begin, Plan, Apply, Validate, Review, Accept, projectVars,
     evidenceVars
<1>1. ASSUME NEW does \in {"begin", "plan", "apply", "validate", "review", "accept"},
             NEW at \in {"before", "build", "apply", "review", "eco"}, Start(p, r, does, at)
      PROVE  /\ u.at = at /\ u.does = does /\ u.run = r /\ u.data = runs[r] /\ u.report.inputs = lock
             /\ DataOK(tools[p])'
  <2>1. u.at = at /\ u.does = does /\ u.run = r /\ u.data = runs[r] /\ u.report.inputs = lock
    BY <1>1, StartFields
  <2>2. BeforeOK(tools[p].data)' /\ RendersOK(tools[p].data, tools[p].run)'
    BY <1>0, <2>1 DEF BeforeOK, RendersOK
  <2> QED
    BY <2>1, <2>2 DEF DataOK
<1>2. CASE Begin(p, r)
  <2>1. Start(p, r, "begin", "before") /\ runs[r].before = None
    BY <1>2 DEF Begin, NewIndex
  <2>2. u.at = "before" /\ u.does = "begin" /\ u.data.before = None /\ u.report.inputs = lock /\ DataOK(tools[p])'
    BY <1>1, <2>1
  <2> QED
    BY <1>0, <2>2 DEF BeginTool, ValidateTool, AcceptTool
<1>3. CASE Plan(p, r)
  <2>1. Start(p, r, "plan", "build") /\ runs[r].before = native /\ native # None
    BY <1>3, NoneAssumption DEF Plan, Start, Opened, SoundInv, SoundFiles
  <2>2. u.at = "build" /\ u.does = "plan" /\ u.data.before # None /\ DataOK(tools[p])'
    BY <1>1, <2>1
  <2> QED
    BY <1>0, <2>2 DEF BeginTool, ValidateTool, AcceptTool
<1>4. CASE Apply(p, r) \/ Review(p, r)
  <2>1. PICK does \in {"apply", "review"}, at \in {"apply", "review"} : Start(p, r, does, at)
    BY <1>4 DEF Apply, Review
  <2>2. u.at = at /\ u.does = does /\ DataOK(tools[p])'
    BY <1>1, <2>1
  <2> QED
    BY <2>1, <2>2 DEF BeginTool, ValidateTool, AcceptTool
<1>5. CASE Validate(p, r)
  <2>1. /\ Start(p, r, "validate", "build")
        /\ runs' = [runs EXCEPT ![r] = [Invalidated(runs[r]) EXCEPT !.stage = "validating"]]
    BY <1>5 DEF Validate, Write
  <2>2. u.at = "build" /\ u.does = "validate" /\ u.run = r /\ DataOK(tools[p])'
    BY <1>1, <2>1
  <2>3. [Invalidated(runs[r]) EXCEPT !.stage = "validating"].validation = None
    BY <1>0 DEF Invalidated, Indexes
  <2>4. runs'[r].validation = None
    BY <1>0, <2>1, <2>3
  <2> QED
    BY <2>2, <2>4 DEF BeginTool, ValidateTool, AcceptTool
<1>6. CASE Accept(p, r)
  <2>1. /\ Start(p, r, "accept", "eco") /\ runs' = runs /\ runs[r].baseline = lock
        /\ runs[r].plan # None /\ runs[r].stage = "reviewed"
    BY <1>6 DEF Accept, evidenceVars
  <2>2. u.at = "eco" /\ u.does = "accept" /\ u.run = r /\ u.data = runs[r] /\ DataOK(tools[p])'
    BY <1>1, <2>1
  <2>3. runs[r].review # None
    BY <2>1 DEF ReviewInv, IndexesOK
  <2> QED
    BY <1>0, <2>1, <2>2, <2>3 DEF BeginTool, ValidateTool, AcceptTool
<1> QED
  BY <1>2, <1>3, <1>4, <1>5, <1>6

LEMMA InnerData ==
  ASSUME TypeInv, ReviewInv, NEW p \in Procs, Command(p), Running(tools[p]), ~Ended(p)
  PROVE  DataOK(tools[p])'
<1> DEFINE t == tools[p]
<1> DEFINE u == tools'[p]
<1>0. /\ tools \in [Procs -> Tools] /\ ToolOK(t) /\ t.data \in Indexes /\ BeforeOK(t.data)
      /\ RendersOK(t.data, t.run) /\ BeginTool(t) /\ t.run \in Runs /\ renders \in [Runs -> OrNone(Natives)]
  BY DEF TypeInv, ToolsOK, ToolOK, Tools, ReviewInv, DataOK, FilesOK
<1>1. u.does = t.does /\ u.run = t.run /\ runs' = runs /\ reviews' = reviews
  BY InnerKeeps
<1>d. ASSUME BeforeOK(u.data), u.data.validation \in {t.data.validation, None}, renders' = renders
      PROVE  DataOK(tools[p])'
  <2>1. RendersOK(tools[p].data, tools[p].run)'
    BY <1>0, <1>1, <1>d DEF RendersOK
  <2>2. BeforeOK(tools[p].data)'
    BY <1>1, <1>d DEF BeforeOK
  <2> QED
    BY <2>1, <2>2 DEF DataOK
<1>2. CASE TakeBefore(p)
  <2>1. u.data = [t.data EXCEPT !.snapshot = native] /\ renders' = renders
    BY <1>0, <1>2 DEF TakeBefore, Tools, evidenceVars
  <2>2. t.data.before = None
    BY <1>0, <1>2, NoneAssumption DEF TakeBefore, ToolOK, Doing, BeginTool
  <2>3. /\ u.data.before = t.data.before /\ u.data.plan = t.data.plan /\ u.data.review = t.data.review
        /\ u.data.validation = t.data.validation
    BY <1>0, <2>1 DEF Indexes
  <2>4. BeforeOK(u.data)
    BY <1>0, <2>2, <2>3 DEF BeforeOK
  <2> QED
    BY <2>1, <2>3, <2>4, <1>d
<1>3. CASE MakePlan(p)
  <2>1. PICK allow \in BOOLEAN :
          tools' = [tools EXCEPT ![p].at = "planned",
                                 ![p].data.plan = PlanFor(manifest, tools[p].data, allow)]
    BY <1>3 DEF MakePlan
  <2>2. u.data = [t.data EXCEPT !.plan = PlanFor(manifest, t.data, allow)] /\ renders' = renders
    BY <1>0, <1>3, <2>1 DEF MakePlan, Tools, evidenceVars
  <2>3. t.data.before # None
    BY <1>0, <1>3, NoneAssumption DEF MakePlan, ToolOK, Doing, BeginTool
  <2>4. /\ u.data.before = t.data.before /\ u.data.snapshot = t.data.snapshot
        /\ u.data.baseline = t.data.baseline /\ u.data.review = t.data.review
        /\ u.data.validation = t.data.validation
    BY <1>0, <2>2 DEF Indexes
  <2>5. BeforeOK(u.data)
    BY <1>0, <2>3, <2>4 DEF BeforeOK
  <2> QED
    BY <2>2, <2>4, <2>5, <1>d
<1>4. CASE TakeInputs(p)
  <2>1. u.data = Invalidated(t.data) /\ renders' = renders
    BY <1>0, <1>4 DEF TakeInputs, Tools, evidenceVars
  <2>2. /\ u.data.before = t.data.before /\ u.data.snapshot = t.data.snapshot
        /\ u.data.baseline = t.data.baseline /\ u.data.plan = t.data.plan
        /\ u.data.review = None /\ u.data.validation = None
    BY <1>0, <2>1 DEF Invalidated, Indexes
  <2>3. BeforeOK(u.data)
    BY <1>0, <2>2, BeforeFields
  <2> QED
    BY <2>1, <2>2, <2>3, <1>d
<1>5. CASE Render(p)
  <2>1. u.data = t.data
    BY <1>0, <1>5 DEF Render, Tools
  <2>2. t.data.validation = None
    BY <1>0, <1>5 DEF Render, ToolOK, InChecks, InParity
  <2>3. BeforeOK(tools[p].data)' /\ RendersOK(tools[p].data, tools[p].run)'
    BY <1>0, <1>1, <2>1, <2>2 DEF BeforeOK, RendersOK
  <2> QED
    BY <2>3 DEF DataOK
<1>6. CASE BuildEnds(p) \/ ApplyNative(p) \/ CheckSource(p) \/ Drc(p) \/ AuditEnds(p) \/ Recheck(p)
           \/ Advance(p)
  <2>1. u.data = t.data /\ renders' = renders
    BY <1>0, <1>6 DEF BuildEnds, ApplyNative, CheckSource, Drc, AuditEnds, Recheck, Advance, Moved, Tools,
       evidenceVars
  <2> QED
    BY <1>0, <2>1, <1>d
<1>7. CASE BuildStarts(p) \/ Cleanup(p) \/ Parity(p) \/ AuditStarts(p) \/ AcceptEco(p)
  <2>1. u.data = t.data /\ renders' = renders
    BY <1>0, <1>7 DEF BuildStarts, Cleanup, Parity, AuditStarts, AcceptEco, Tools, evidenceVars
  <2> QED
    BY <1>0, <2>1, <1>d
<1> QED
  BY <1>0, <1>2, <1>3, <1>4, <1>5, <1>6, <1>7, InnerSteps DEF ToolOK, Doing, Running


LEMMA InnerBegin ==
  ASSUME TypeInv, LockHeld, SoundInv, ReviewInv, NEW p \in Procs, Command(p), Running(tools[p]), ~Ended(p)
  PROVE  BeginTool(tools[p])'
<1> DEFINE t == tools[p]
<1> DEFINE u == tools'[p]
<1>0. /\ tools \in [Procs -> Tools] /\ ToolOK(t) /\ t.data \in Indexes /\ BeginTool(t)
      /\ lock # None /\ SoundTool(t, native)
  BY DEF TypeInv, ToolsOK, Tools, ReviewInv, LockHeld, SoundInv
<1>1. u.does = t.does
  BY InnerKeeps
<1>2. Doing(u.does, u.at)
  BY TypeStep DEF Next, TypeInv, ToolsOK, ToolOK
<1>3. CASE t.does = "begin"
  <2>1. TakeBefore(p)
    BY <1>3, InnerSteps
  <2>2. /\ u.at = "begun" /\ u.data = [t.data EXCEPT !.snapshot = native] /\ u.report = t.report
        /\ lock' = lock /\ native' = native
    BY <1>0, <2>1 DEF TakeBefore, Tools, projectVars
  <2>3. u.data.before = t.data.before /\ u.data.snapshot = native
    BY <1>0, <2>2 DEF Indexes
  <2>4. t.data.before = None /\ t.report.inputs = lock /\ Agrees[native] = lock.manifest
    BY <1>0, <1>3, <2>1 DEF BeginTool, TakeBefore
  <2>5. native \in Natives /\ t.report.native <= native /\ native <= native
    <3>1. native \in Natives /\ native \in Nat
      BY <1>0, WorkflowAssumption DEF SoundInv, SoundFiles
    <3>2. t.report.native <= native
      BY <1>0 DEF SoundTool
    <3> QED
      BY <3>1, <3>2
  <2> QED
    BY <1>1, <1>3, <2>2, <2>3, <2>4, <2>5, NoneAssumption DEF BeginTool, Seen, Commands
<1>4. CASE t.does = "plan"
  <2>1. u.data.before = t.data.before
    BY <1>1, <1>4, PlanKeeps
  <2> QED
    BY <1>0, <1>1, <1>2, <1>4, <2>1, NoneAssumption DEF BeginTool, Doing, Commands
<1>5. CASE t.does \notin {"begin", "plan"}
  BY <1>1, <1>2, <1>5, NoneAssumption DEF BeginTool, Doing, Commands
<1> QED
  BY <1>3, <1>4, <1>5

LEMMA InnerValidate ==
  ASSUME TypeInv, ReviewInv, NEW p \in Procs, Command(p), Running(tools[p]), ~Ended(p)
  PROVE  ValidateTool(tools[p])'
<1> DEFINE t == tools[p]
<1> DEFINE u == tools'[p]
<1>0. /\ tools \in [Procs -> Tools] /\ ToolOK(t) /\ ValidateTool(t) /\ t.run \in Runs
      /\ renders \in [Runs -> OrNone(Natives)]
  BY DEF TypeInv, ToolsOK, ToolOK, ReviewInv, FilesOK
<1>1. u.does = t.does /\ u.run = t.run /\ runs' = runs
  BY InnerKeeps
<1>2. Doing(u.does, u.at)
  BY TypeStep DEF Next, TypeInv, ToolsOK, ToolOK
<1>3. CASE t.does # "validate"
  BY <1>1, <1>2, <1>3, NoneAssumption DEF ValidateTool, Doing, Commands
<1>4. CASE Render(p)
  <2>1. u.report = [t.report EXCEPT !.renders = native] /\ renders' = [renders EXCEPT ![t.run] = native]
    BY <1>0, <1>4 DEF Render, Tools
  <2>2. u.report.renders = native
    BY <1>0, <2>1 DEF ToolOK, Tools, Reports
  <2>3. renders'[t.run] = native
    BY <1>0, <2>1
  <2> QED
    BY <1>0, <1>1, <2>2, <2>3 DEF ValidateTool
<1>5. CASE /\ t.does = "validate"
           /\ \/ BuildStarts(p) \/ BuildEnds(p) \/ TakeInputs(p) \/ CheckSource(p) \/ Cleanup(p)
              \/ Parity(p) \/ Drc(p) \/ AuditStarts(p) \/ AuditEnds(p)
  <2>1. u.at # "conclude"
    BY <1>0, <1>5 DEF BuildStarts, BuildEnds, TakeInputs, CheckSource, Cleanup, Parity, Drc, AuditStarts,
       AuditEnds, Moved, Tools
  <2> QED
    BY <1>0, <1>1, <2>1 DEF ValidateTool
<1> QED
  BY <1>3, <1>4, <1>5, InnerSteps

LEMMA InnerAccept ==
  ASSUME TypeInv, LockHeld, SoundInv, ReviewInv, NEW p \in Procs, Command(p), Running(tools[p]), ~Ended(p)
  PROVE  AcceptTool(tools[p])'
<1> DEFINE t == tools[p]
<1> DEFINE u == tools'[p]
<1>0. /\ tools \in [Procs -> Tools] /\ ToolOK(t) /\ AcceptTool(t) /\ t.run \in Runs /\ t.data \in Indexes
      /\ SoundTool(t, native)
  BY DEF TypeInv, ToolsOK, ToolOK, Tools, ReviewInv, FilesOK, SoundInv
<1>1. u.does = t.does /\ u.run = t.run /\ runs' = runs
  BY InnerKeeps
<1>2. Doing(u.does, u.at)
  BY TypeStep DEF Next, TypeInv, ToolsOK, ToolOK
<1>3. CASE t.does # "accept"
  BY <1>1, <1>2, <1>3, NoneAssumption DEF AcceptTool, Doing, Commands
<1>4. CASE AcceptEco(p)
  <2> DEFINE v == t.data.validation
  <2> DEFINE h == [manifest |-> v.manifest, native |-> native]
  <2>0. t.at = "eco" /\ t.does = "accept"
    BY <1>0, <1>4, NoneAssumption DEF AcceptEco, ToolOK, Doing
  <2>1. tools' = [tools EXCEPT ![p].at = "recheck", ![p].held = h] /\ lock' = lock
    BY <1>4 DEF AcceptEco, projectVars
  <2>2. u.at = "recheck" /\ u.data = t.data /\ u.held = h
    BY <1>0, <2>1 DEF Tools
  <2>3. h.manifest = v.manifest /\ h.native = native
    OBVIOUS
  <2>4. t.data.plan = PlanFor(v.manifest, t.data, t.data.plan.allow) /\ ~Blocked(t.data.plan)
        /\ v.snapshot = native
    BY <1>4 DEF AcceptEco, PlanStands
  <2>5. v.native = native
    BY <1>0, <2>0, <2>4, NoneAssumption DEF ToolOK, SoundTool, SoundValidation, Commands
  <2>6. t.data = runs[t.run] /\ t.data.baseline = lock /\ t.data.plan # None /\ t.data.review # None
    BY <1>0, <2>0 DEF AcceptTool
  <2> HIDE DEF v, h
  <2>7. tools'[p].data.plan = PlanFor(tools[p].held.manifest, tools[p].data, tools[p].data.plan.allow)'
    BY <2>1, <2>2, <2>3, <2>4 DEF PlanFor
  <2> QED
    BY <1>1, <2>1, <2>2, <2>3, <2>4, <2>5, <2>6 DEF AcceptTool, PlanFor, Blocked, v
<1>5. CASE Recheck(p)
  <2>1. tools' = [tools EXCEPT ![p].at = "advance"] /\ lock' = lock
    BY <1>5 DEF Recheck, Moved, projectVars
  <2>2. u.at = "advance" /\ u.data = t.data /\ u.held = t.held /\ t.at = "recheck"
    BY <1>0, <1>5, <2>1 DEF Recheck, Tools
  <2>3. t.does = "accept"
    BY <1>0, <2>2, NoneAssumption DEF ToolOK, Doing
  <2> QED
    BY <1>0, <1>1, <2>1, <2>2, <2>3 DEF AcceptTool, PlanFor
<1>6. CASE Advance(p)
  <2>1. u.at = "accepted"
    BY <1>0, <1>6 DEF Advance, Moved, Tools
  <2> QED
    BY <2>1 DEF AcceptTool
<1> QED
  BY <1>3, <1>4, <1>5, <1>6, InnerSteps

\* What a command writes in an index goes by what it holds.
LEMMA WriteReview ==
  ASSUME TypeInv, IndexesOK, NEW s, NEW d, Write(s, d), BeforeOK(d), RendersOK(d, s),
         d.stage = "reviewed" => d.review # None, renders' = renders, reviews' = reviews
  PROVE  IndexesOK'
<1> SUFFICES ASSUME NEW r \in Runs
             PROVE  (/\ BeforeOK(runs[r]) /\ RendersOK(runs[r], r)
                     /\ runs[r].stage = "reviewed" => runs[r].review # None)'
  BY DEF IndexesOK
<1>1. runs' = [runs EXCEPT ![s] = d] /\ runs \in [Runs -> Indexes]
  BY DEF Write, TypeInv, RunsOK
<1>2. CASE r = s
  BY <1>1, <1>2 DEF BeforeOK, RendersOK
<1>3. CASE r # s
  <2>1. runs'[r] = runs[r]
    BY <1>1, <1>3
  <2> QED
    BY <2>1 DEF IndexesOK, BeforeOK, RendersOK
<1> QED
  BY <1>2, <1>3

LEMMA IndexesEnd ==
  ASSUME TypeInv, LockHeld, SoundInv, ReviewInv, NEW p \in Procs,
         \/ BeginEnds(p) \/ PlanEnds(p) \/ ApplyEnds(p) \/ Conclude(p) \/ ReviewEnds(p) \/ AcceptEnds(p)
  PROVE  IndexesOK'
<1> DEFINE t == tools[p]
<1>0. /\ tools \in [Procs -> Tools] /\ ToolOK(t) /\ t.data \in Indexes /\ IndexesOK
      /\ DataOK(t) /\ BeginTool(t) /\ ValidateTool(t) /\ reviews \subseteq Reviews
      /\ renders' = renders /\ reviews' = reviews
  BY DEF TypeInv, ToolsOK, ToolOK, Tools, ReviewInv, FilesOK, BeginEnds, PlanEnds, ApplyEnds, Conclude,
     ReviewEnds, AcceptEnds
<1>1. t.at \in {"begun", "planned", "applied", "conclude", "review", "accepted"}
  BY DEF BeginEnds, PlanEnds, ApplyEnds, Conclude, ReviewEnds, AcceptEnds
<1>2. Running(t)
  BY <1>0, <1>1, NoneAssumption DEF Running, ToolOK, Doing, Commands
<1>3. BeforeOK(t.data) /\ RendersOK(t.data, t.run) /\ LockHeld /\ lock # None
  BY <1>0, <1>2 DEF DataOK, LockHeld
<1>4. CASE BeginEnds(p)
  <2> DEFINE d == [t.data EXCEPT !.stage = "begun", !.baseline = lock, !.before = native]
  <2>1. Write(t.run, d) /\ t.at = "begun" /\ native = t.report.native
    BY <1>4 DEF BeginEnds
  <2>2. /\ d.stage = "begun" /\ d.baseline = lock /\ d.before = native /\ d.snapshot = t.data.snapshot
        /\ d.plan = t.data.plan /\ d.review = t.data.review /\ d.validation = t.data.validation
    BY <1>0 DEF Indexes
  <2>3. Seen(t, t.data.snapshot, native) /\ Agrees[t.data.snapshot] = lock.manifest
    BY <1>0, <2>1 DEF BeginTool
  <2>4. native \in Natives /\ native \in Nat /\ t.data.snapshot \in Nat
    BY <1>3, <2>3, WorkflowAssumption DEF SoundInv, SoundFiles, Seen
  <2>5. t.data.snapshot = native
    BY <2>1, <2>3, <2>4 DEF Seen
  <2>6. native # None
    BY <2>4, NoneAssumption
  <2> HIDE DEF d
  <2>7. BeforeOK(d) /\ RendersOK(d, t.run)
    BY <1>3, <2>2, <2>3, <2>5, <2>6 DEF BeforeOK, RendersOK
  <2> QED
    BY <1>0, <2>1, <2>2, <2>7, WriteReview
<1>5. CASE PlanEnds(p)
  <2> DEFINE d == [t.data EXCEPT !.stage = "planned", !.target = Fingerprint,
                                 !.validation = None, !.review = None]
  <2>1. Write(t.run, d)
    BY <1>5 DEF PlanEnds
  <2>2. /\ d.stage = "planned" /\ d.baseline = t.data.baseline /\ d.before = t.data.before
        /\ d.snapshot = t.data.snapshot /\ d.plan = t.data.plan /\ d.review = None /\ d.validation = None
    BY <1>0 DEF Indexes
  <2> HIDE DEF d
  <2>3. BeforeOK(d) /\ RendersOK(d, t.run)
    BY <1>3, <2>2 DEF BeforeOK, RendersOK
  <2> QED
    BY <1>0, <2>1, <2>2, <2>3, WriteReview
<1>6. CASE ApplyEnds(p)
  <2> DEFINE d == [t.data EXCEPT !.stage = "applied", !.validation = None, !.review = None]
  <2>1. Write(t.run, d)
    BY <1>6 DEF ApplyEnds
  <2>2. /\ d.stage = "applied" /\ d.baseline = t.data.baseline /\ d.before = t.data.before
        /\ d.snapshot = t.data.snapshot /\ d.plan = t.data.plan /\ d.review = None /\ d.validation = None
    BY <1>0 DEF Indexes
  <2> HIDE DEF d
  <2>3. BeforeOK(d) /\ RendersOK(d, t.run)
    BY <1>3, <2>2 DEF BeforeOK, RendersOK
  <2> QED
    BY <1>0, <2>1, <2>2, <2>3, WriteReview
<1>7. CASE Conclude(p)
  <2> DEFINE d == [t.data EXCEPT !.stage = "validated", !.validation = t.report]
  <2>1. Write(t.run, d) /\ t.at = "conclude"
    BY <1>7 DEF Conclude
  <2>2. /\ d.stage = "validated" /\ d.baseline = t.data.baseline /\ d.before = t.data.before
        /\ d.snapshot = t.data.snapshot /\ d.plan = t.data.plan /\ d.review = t.data.review
        /\ d.validation = t.report
    BY <1>0 DEF Indexes
  <2> HIDE DEF d
  <2>3. BeforeOK(d) /\ RendersOK(d, t.run)
    BY <1>0, <1>3, <2>1, <2>2 DEF BeforeOK, RendersOK, ValidateTool
  <2> QED
    BY <1>0, <2>1, <2>2, <2>3, WriteReview
<1>8. CASE ReviewEnds(p)
  <2>0. PICK review \in reviews :
          /\ Write(t.run, [t.data EXCEPT !.stage = "reviewed", !.review = review])
    BY <1>8 DEF ReviewEnds
  <2> DEFINE d == [t.data EXCEPT !.stage = "reviewed", !.review = review]
  <2>1. Write(t.run, d) /\ review # None
    BY <1>0, <2>0, NoneAssumption
  <2>2. /\ d.baseline = t.data.baseline /\ d.before = t.data.before
        /\ d.snapshot = t.data.snapshot /\ d.plan = t.data.plan /\ d.review = review
        /\ d.validation = t.data.validation
    BY <1>0 DEF Indexes
  <2> HIDE DEF d
  <2>3. BeforeOK(d) /\ RendersOK(d, t.run)
    BY <1>3, <2>2 DEF BeforeOK, RendersOK
  <2> QED
    BY <1>0, <2>1, <2>2, <2>3, WriteReview
<1>9. CASE AcceptEnds(p)
  <2> DEFINE d == [t.data EXCEPT !.stage = "accepted", !.accepted = lock]
  <2>1. Write(t.run, d)
    BY <1>9 DEF AcceptEnds
  <2>2. /\ d.stage = "accepted" /\ d.baseline = t.data.baseline /\ d.before = t.data.before
        /\ d.snapshot = t.data.snapshot /\ d.plan = t.data.plan /\ d.review = t.data.review
        /\ d.validation = t.data.validation
    BY <1>0 DEF Indexes
  <2> HIDE DEF d
  <2>3. BeforeOK(d) /\ RendersOK(d, t.run)
    BY <1>3, <2>2 DEF BeforeOK, RendersOK
  <2> QED
    BY <1>0, <2>1, <2>2, <2>3, WriteReview
<1> QED
  BY <1>4, <1>5, <1>6, <1>7, <1>8, <1>9

LEMMA IndexesOther ==
  ASSUME TypeInv, ReviewInv, NEW p \in Procs,
         Raise(p) \/ Render(p) \/ \E r \in Runs : Apply(p, r) \/ Validate(p, r)
  PROVE  IndexesOK'
<1> DEFINE t == tools[p]
<1>0. /\ tools \in [Procs -> Tools] /\ ToolOK(t) /\ t.data \in Indexes /\ runs \in [Runs -> Indexes]
      /\ IndexesOK /\ DataOK(t) /\ ValidateTool(t) /\ reviews' = reviews
      /\ renders \in [Runs -> OrNone(Natives)]
  BY DEF TypeInv, ToolsOK, ToolOK, Tools, RunsOK, FilesOK, ReviewInv, Raise, Render, Apply, Validate
<1>1. CASE Raise(p)
  <2>0. renders' = renders
    BY <1>1 DEF Raise
  <2>1. CASE runs' = runs
    BY <1>0, <2>0, <2>1 DEF IndexesOK, BeforeOK, RendersOK
  <2>2. CASE runs' # runs
    <3> DEFINE d == [t.data EXCEPT !.stage = "failed"]
    <3>1. Write(t.run, d) /\ (t.does \in {"validate", "apply"} \/ t.at = "recheck")
      BY <1>1, <2>2 DEF Raise, Failed
    <3>2. Running(t)
      BY <1>0, <3>1, NoneAssumption DEF ToolOK, Doing, Running, Commands
    <3>3. /\ d.stage = "failed" /\ d.baseline = t.data.baseline /\ d.before = t.data.before
          /\ d.snapshot = t.data.snapshot /\ d.plan = t.data.plan /\ d.review = t.data.review
          /\ d.validation = t.data.validation
      BY <1>0 DEF Indexes
    <3> HIDE DEF d
    <3>4. BeforeOK(d) /\ RendersOK(d, t.run)
      BY <1>0, <3>2, <3>3 DEF BeforeOK, RendersOK, DataOK
    <3> QED
      BY <1>0, <2>0, <3>1, <3>3, <3>4, WriteReview
  <2> QED
    BY <2>1, <2>2
<1>2. CASE Render(p)
  <2>1. /\ t.at = "render" /\ runs' = runs /\ renders' = [renders EXCEPT ![t.run] = native]
    BY <1>2 DEF Render
  <2>2. runs[t.run].validation = None
    BY <1>0, <2>1, NoneAssumption DEF ToolOK, Doing, ValidateTool
  <2>3. ASSUME NEW r \in Runs PROVE RendersOK(runs[r], r)'
    <3>1. CASE r = t.run
      BY <2>1, <2>2, <3>1 DEF RendersOK
    <3>2. CASE r # t.run
      <4>1. renders'[r] = renders[r]
        BY <1>0, <2>1, <3>2
      <4> QED
        BY <1>0, <2>1, <4>1 DEF RendersOK, IndexesOK
    <3> QED
      BY <3>1, <3>2
  <2> QED
    BY <1>0, <2>1, <2>3 DEF IndexesOK, BeforeOK
<1>3. ASSUME NEW r \in Runs, Apply(p, r) \/ Validate(p, r) PROVE IndexesOK'
  <2>0. runs[r] \in Indexes /\ BeforeOK(runs[r]) /\ renders' = renders
    BY <1>0, <1>3 DEF IndexesOK, Apply, Validate
  <2>1. PICK stage \in {"applying", "validating"} :
          Write(r, [runs[r] EXCEPT !.stage = stage, !.validation = None, !.review = None])
    <3>1. CASE Apply(p, r)
      BY <3>1 DEF Apply
    <3>2. CASE Validate(p, r)
      <4>1. [Invalidated(runs[r]) EXCEPT !.stage = "validating"]
              = [runs[r] EXCEPT !.stage = "validating", !.validation = None, !.review = None]
        BY <2>0 DEF Invalidated, Indexes
      <4> QED
        BY <3>2, <4>1 DEF Validate
    <3> QED
      BY <1>3, <3>1, <3>2
  <2> DEFINE d == [runs[r] EXCEPT !.stage = stage, !.validation = None, !.review = None]
  <2>2. /\ d.stage = stage /\ d.baseline = runs[r].baseline /\ d.before = runs[r].before
        /\ d.snapshot = runs[r].snapshot /\ d.plan = runs[r].plan /\ d.review = None
        /\ d.validation = None
    BY <2>0 DEF Indexes
  <2>3. Write(r, d)
    BY <2>1
  <2> HIDE DEF d
  <2>4. BeforeOK(d) /\ RendersOK(d, r)
    BY <2>0, <2>2 DEF BeforeOK, RendersOK
  <2> QED
    BY <1>0, <2>0, <2>2, <2>3, <2>4, WriteReview
<1> QED
  BY <1>1, <1>2, <1>3

\* A command that does nothing on a run owes nothing.
LEMMA OutsideReview ==
  ASSUME ToolsOK', NEW p \in Procs, ~Running(tools'[p])
  PROVE  /\ DataOK(tools[p])' /\ BeginTool(tools[p])' /\ ValidateTool(tools[p])'
         /\ AcceptTool(tools[p])'
<1>1. Doing(tools'[p].does, tools'[p].at) /\ tools'[p].does \in {None, "stage"}
  BY DEF ToolsOK, ToolOK, Running
<1> QED
  BY <1>1, NoneAssumption DEF Doing, DataOK, BeginTool, ValidateTool, AcceptTool, Running, Commands

LEMMA ToolReview ==
  ASSUME TypeInv, LockHeld, SoundInv, ReviewInv, NEW p \in Procs, Command(p)
  PROVE  /\ DataOK(tools[p])' /\ BeginTool(tools[p])' /\ ValidateTool(tools[p])'
         /\ AcceptTool(tools[p])'
<1>0. TypeInv' /\ tools \in [Procs -> Tools]
  BY TypeStep DEF Next, TypeInv, ToolsOK
<1>1. CASE Ended(p)
  BY <1>1, IdleReview
<1>2. CASE Running(tools[p]) /\ ~Ended(p)
  BY <1>2, InnerData, InnerBegin, InnerValidate, InnerAccept
<1>3. CASE \E r \in Runs : \/ Begin(p, r) \/ Plan(p, r) \/ Apply(p, r) \/ Validate(p, r)
                           \/ Review(p, r) \/ Accept(p, r)
  BY <1>3, StartReview
<1>4. CASE /\ ~Running(tools[p]) /\ ~Ended(p)
           /\ ~\E r \in Runs : \/ Begin(p, r) \/ Plan(p, r) \/ Apply(p, r) \/ Validate(p, r)
                               \/ Review(p, r) \/ Accept(p, r)
  <2>1. tools[p].at \in {"idle", "export", "check"} /\ tools[p].does \in {None, "stage"}
    BY <1>4, NoneAssumption DEF TypeInv, ToolsOK, ToolOK, Doing, Running, Commands
  <2>2. Stage(p) \/ Export(p) \/ \E d \in Procs : AcceptHandoff(p, box[d])
    BY <1>4, <2>1 DEF Command, Check, TakeBefore, BeginEnds, ApplyEnds, BuildStarts, BuildEnds, MakePlan,
       PlanEnds, ApplyNative, TakeInputs, CheckSource, Cleanup, Parity, Drc, AuditStarts, AuditEnds, Render,
       Conclude, ReviewEnds, AcceptEco, Recheck, Advance, AcceptEnds, Raise, Failed, Crash
  <2>3. tools'[p].does \in {None, "stage"}
    <3>1. CASE Stage(p)
      <4>1. tools' = [tools EXCEPT ![p] = [Idle EXCEPT !.at = "export", !.does = "stage",
                                                       !.held = [native |-> native]]]
        BY <3>1 DEF Stage
      <4> QED
        BY <1>0, <4>1 DEF Idle
    <3>2. CASE Export(p)
      BY <1>0, <2>1, <3>2 DEF Export, Moved, Tools
    <3>3. CASE \E d \in Procs : AcceptHandoff(p, box[d])
      BY <2>1, <3>3 DEF AcceptHandoff
    <3> QED
      BY <2>2, <3>1, <3>2, <3>3
  <2> QED
    BY <1>0, <2>3, OutsideReview DEF TypeInv, Running
<1> QED
  BY <1>1, <1>2, <1>3, <1>4

LEMMA IndexesStep ==
  ASSUME TypeInv, LockHeld, SoundInv, ReviewInv, NEW p \in Procs, Command(p)
  PROVE  IndexesOK' /\ SawRenders'
<1>1. reviews' = reviews
  BY DEF Command, Stage, Export, Check, AcceptHandoff, TakeBefore, BeginEnds, ApplyEnds, BuildStarts,
     BuildEnds, MakePlan, PlanEnds, ApplyNative, TakeInputs, CheckSource, Cleanup, Parity, Drc, AuditStarts,
     AuditEnds, Render, Conclude, ReviewEnds, AcceptEco, Recheck, Advance, AcceptEnds, Raise, Crash,
     Begin, Plan, Apply, Validate, Review, Accept, evidenceVars
<1>2. SawRenders'
  BY <1>1 DEF SawRenders, ReviewInv
<1>3. CASE \/ BeginEnds(p) \/ PlanEnds(p) \/ ApplyEnds(p) \/ Conclude(p) \/ ReviewEnds(p) \/ AcceptEnds(p)
  BY <1>2, <1>3, IndexesEnd
<1>4. CASE Raise(p) \/ Render(p) \/ \E r \in Runs : Apply(p, r) \/ Validate(p, r)
  BY <1>2, <1>4, IndexesOther
<1>5. CASE UNCHANGED <<runs, renders>>
  BY <1>1, <1>2, <1>5 DEF ReviewInv, IndexesOK, BeforeOK, RendersOK
<1>6. \/ UNCHANGED <<runs, renders>>
      \/ BeginEnds(p) \/ PlanEnds(p) \/ ApplyEnds(p) \/ Conclude(p) \/ ReviewEnds(p) \/ AcceptEnds(p)
      \/ Raise(p) \/ Render(p) \/ \E r \in Runs : Apply(p, r) \/ Validate(p, r)
  BY DEF Command, Stage, Export, Check, AcceptHandoff, TakeBefore, BuildStarts, BuildEnds, MakePlan,
     ApplyNative, TakeInputs, CheckSource, Cleanup, Parity, Drc, AuditStarts, AuditEnds, AcceptEco, Recheck,
     Advance, Crash, Begin, Plan, Review, Accept, evidenceVars
<1> QED
  BY <1>2, <1>3, <1>4, <1>5, <1>6

\* The designer, the author and the reviewer leave a command what it holds.
LEMMA OthersReview ==
  ASSUME TypeInv, LockHeld, SoundInv, ReviewInv, Restores = FALSE,
         \/ (\E p \in Procs : Touch(p)) \/ (\E r \in Runs : Inspect(r)) \/ EditSource \/ EditNative
  PROVE  ReviewInv'
<1>1. UNCHANGED <<tools, runs, renders, lock>> /\ reviews \subseteq reviews'
  BY DEF Touch, Inspect, EditSource, EditNative, projectVars, evidenceVars
<1>2. SawRenders'
  <2>1. CASE \E r \in Runs : Inspect(r)
    <3>1. PICK r \in Runs : Inspect(r)
      BY <2>1
    <3>2. renders[r] = runs[r].validation.renders /\ runs[r].validation # None
      BY <3>1 DEF Inspect, ReviewInv, IndexesOK, RendersOK
    <3>3. reviews' = reviews \cup {[validation |-> runs[r].validation, saw |-> renders[r]]}
      BY <3>1 DEF Inspect
    <3> QED
      BY <3>2, <3>3 DEF SawRenders, ReviewInv
  <2>2. CASE reviews' = reviews
    BY <2>2 DEF SawRenders, ReviewInv
  <2> QED
    BY <2>1, <2>2 DEF Touch, EditSource, EditNative, evidenceVars
<1>3. ASSUME NEW d, BeforeOK(d) PROVE d.review # None => d.review \in reviews'
  BY <1>1, <1>3 DEF BeforeOK
<1>4. IndexesOK'
  BY <1>1 DEF ReviewInv, IndexesOK, BeforeOK, RendersOK
<1>5. ASSUME NEW q \in Procs
      PROVE  /\ DataOK(tools[q])' /\ BeginTool(tools[q])' /\ ValidateTool(tools[q])' /\ AcceptTool(tools[q])'
  <2>0. /\ DataOK(tools[q]) /\ BeginTool(tools[q]) /\ ValidateTool(tools[q]) /\ AcceptTool(tools[q])
        /\ ToolOK(tools[q])
    BY DEF ReviewInv, TypeInv, ToolsOK
  <2>1. DataOK(tools[q])'
    BY <1>1, <2>0 DEF DataOK, BeforeOK, RendersOK
  <2>2. ValidateTool(tools[q])' /\ AcceptTool(tools[q])'
    BY <1>1, <2>0 DEF ValidateTool, AcceptTool, PlanFor
  <2>3. ASSUME tools[q].at = "begun", NEW n, Seen(tools[q], n, native) PROVE Seen(tools[q], n, native')
    <3>1. lock # None
      BY <2>0, <2>3, NoneAssumption DEF ToolOK, Doing, Running, LockHeld, Commands
    <3>2. native' \in Natives /\ native <= native' /\ native \in Natives
      BY <3>1, NativeStep DEF Next, SoundInv, SoundFiles
    <3>3. native \in Nat /\ native' \in Nat /\ n \in Nat
      BY <2>3, <3>2, WorkflowAssumption DEF Seen
    <3> QED
      BY <2>3, <3>2, <3>3 DEF Seen
  <2>4. BeginTool(tools[q])'
    BY <1>1, <2>0, <2>3 DEF BeginTool, Seen
  <2> QED
    BY <2>1, <2>2, <2>4
<1> QED
  BY <1>2, <1>4, <1>5 DEF ReviewInv

LEMMA ReviewStep ==
  ASSUME OneAtATime, Restores = FALSE
  PROVE  TypeInv /\ LockHeld /\ SoundInv /\ ReviewInv /\ [Next]_vars => ReviewInv'
<1> SUFFICES ASSUME TypeInv, LockHeld, SoundInv, ReviewInv, [Next]_vars PROVE ReviewInv'
  OBVIOUS
<1>1. ASSUME NEW p \in Procs, Command(p) PROVE ReviewInv'
  <2>1. IndexesOK' /\ SawRenders'
    BY <1>1, IndexesStep
  <2>2. ASSUME NEW q \in Procs
        PROVE  /\ DataOK(tools[q])' /\ BeginTool(tools[q])' /\ ValidateTool(tools[q])'
               /\ AcceptTool(tools[q])'
    <3>1. q = p
      BY OneMoves
    <3> QED
      BY <1>1, <3>1, ToolReview
  <2> QED
    BY <2>1, <2>2 DEF ReviewInv
<1>2. CASE UNCHANGED vars
  <2>1. UNCHANGED <<tools, lock, runs, renders, reviews, native>>
    BY <1>2 DEF vars, projectVars, evidenceVars
  <2> QED
    BY <2>1 DEF ReviewInv, SawRenders, IndexesOK, DataOK, BeforeOK, RendersOK, BeginTool, ValidateTool,
       AcceptTool, PlanFor, Seen
<1> QED
  BY <1>1, <1>2, OthersReview DEF Next

\* With one command at a time and no earlier version brought back, a lock is
\* replaced only as the run under way planned it, from the native project the
\* run began with, by one that a reviewer saw, for the validation they signed.
THEOREM AdvancesAsPlanned == ASSUME OneAtATime, Restores = FALSE PROVE Spec => AdvancesAsReviewed
<1>1. ASSUME TypeInv, LockHeld, SoundInv, ReviewInv, [Next]_vars
      PROVE  [lock # None /\ lock' # lock =>
                /\ \E r \in Runs : PlannedBy(r)
                /\ \E review \in reviews :
                      review.saw = lock'.native /\ review.validation.manifest = lock'.manifest]_vars
  <2> SUFFICES ASSUME lock # None, lock' # lock
               PROVE  /\ \E r \in Runs : PlannedBy(r)
                      /\ \E review \in reviews :
                            review.saw = lock'.native /\ review.validation.manifest = lock'.manifest
    OBVIOUS
  <2>1. PICK p \in Procs : Command(p)
    BY <1>1 DEF Next, Touch, Inspect, EditSource, EditNative, vars, projectVars, evidenceVars
  <2>2. Advance(p)
    <3>1. ~Stage(p) /\ \A d \in Procs : ~AcceptHandoff(p, box[d])
      BY DEF Stage, AcceptHandoff
    <3>2. ~(Export(p) \/ Check(p) \/ BuildStarts(p) \/ ApplyNative(p) \/ Render(p))
      BY DEF Export, Check, BuildStarts, ApplyNative, Render, projectVars
    <3> QED
      BY <2>1, <3>1, <3>2, QuietSteps DEF Command, Quiet
  <2> DEFINE t == tools[p]
  <2> DEFINE d == runs[t.run]
  <2>3. t.at = "advance" /\ lock' = t.held
    BY <2>2 DEF Advance
  <2>4. /\ ToolOK(t) /\ t.does = "accept" /\ t.run \in Runs /\ Running(t) /\ d \in Indexes /\ IndexOK(d)
        /\ AcceptTool(t) /\ BeforeOK(d) /\ d.validation # None /\ SoundTool(t, native) /\ SawRenders
    BY <1>1, <2>3, NoneAssumption DEF TypeInv, ToolsOK, RunsOK, ToolOK, Doing, Running, ReviewInv, IndexesOK,
       SoundInv, AcceptTool, Commands
  <2>5. /\ t.data = d /\ d.baseline = lock /\ d.plan # None /\ d.review # None
        /\ d.plan = PlanFor(lock'.manifest, d, d.plan.allow) /\ ~Blocked(d.plan)
        /\ lock'.manifest = d.validation.manifest /\ lock'.native = d.validation.native
    BY <2>3, <2>4 DEF AcceptTool
  <2>6. /\ d.plan.from = lock /\ d.plan.to = lock'.manifest /\ d.plan.before = d.snapshot
    BY <2>5 DEF PlanFor
  <2>7. d.before = d.snapshot /\ Agrees[d.before] = lock.manifest /\ d.review \in reviews
    BY <2>4, <2>5 DEF BeforeOK
  <2>8. PlannedBy(t.run)
    BY <2>5, <2>6, <2>7 DEF PlannedBy
  <2>9. d.review.validation = d.validation /\ SoundValidation(d.validation)
    BY <2>4, <2>5 DEF IndexOK, SoundTool
  <2>10. d.review.saw = lock'.native /\ d.review.validation.manifest = lock'.manifest
    BY <2>4, <2>5, <2>7, <2>9 DEF SawRenders, SoundValidation
  <2> QED
    BY <2>4, <2>7, <2>8, <2>10
<1>2. TypeInv /\ LockHeld /\ SoundInv /\ ReviewInv /\ [Next]_vars => ReviewInv'
  BY ReviewStep
<1>3. TypeInv /\ LockHeld /\ SoundInv /\ [Next]_vars => SoundInv'
  BY SoundStep
<1>4. Spec => [](TypeInv /\ LockHeld)
  BY InitType, TypeStep, LockHeldAlways, PTL DEF Spec
<1> QED
  BY <1>1, <1>2, <1>3, <1>4, InitSound, InitReview, PTL DEF Spec, AdvancesAsReviewed
=============================================================================
