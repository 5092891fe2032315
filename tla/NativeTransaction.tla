-------------------------- MODULE NativeTransaction --------------------------
(***************************************************************************)
(* The native KiCad transaction of pcb/tools/kicad_native.py and the       *)
(* verified field edit of pcb/tools/kicad_schematic.py, working on one     *)
(* project directory that people and other programs write as well.         *)
(*                                                                         *)
(* A content stands for the bytes of a file and for its SHA-256: equal     *)
(* hashes are equal contents.  `Absent' is the content of a file that is   *)
(* not there, so that a file created or deleted is a file whose content    *)
(* changed, and before_files, which must list the whole inventory, is one  *)
(* function from files to contents.  What a batch does to the board is in  *)
(* NativeBatch; here it only produces other bytes.                         *)
(***************************************************************************)
EXTENDS Naturals, FiniteSets

CONSTANTS Txns,       \* runs of kicad_native.py apply
          SchEdits,   \* runs of kicad_schematic.py
          Board, Project, Schematic, Inputs,  \* the files; Inputs are the rest
          Content, Absent, Torn,  \* Torn: a copy interrupted half way
          NoOne, NoFile,
          MaxOutside  \* bound on the writes of editors and other programs

Files     == {Board, Project, Schematic} \cup Inputs
Permitted == {Board, Project}

ASSUME FilesAssumption ==
    /\ Board # Project /\ Schematic \notin {Board, Project}
    /\ NoFile \notin Files
ASSUME ContentAssumption == Absent \in Content /\ Torn \notin Content
ASSUME ProcessAssumption == NoOne \notin Txns \cup SchEdits /\ Txns \cap SchEdits = {}
ASSUME BoundAssumption == MaxOutside \in Nat

VARIABLES
    files,      \* [Files -> Content]: the project directory
    editor,     \* a KiCad editor has the project open and shows its .lck
    lock,       \* the owner written in .<board>.native-transaction.lock
    pc,         \* where each transaction is
    before,     \* [Txns -> [Files -> Content]]: before_files of the plan
    cand,       \* the scratch copy that is edited and saved natively
    after,      \* after_files: hashes of the candidate as it was saved
    judged,     \* the candidate the validator was given
    recov,      \* the recovery copies in the scratch directory
    scratch,    \* the scratch directory is still there
    todo,       \* files still to publish; in a rollback, still to look at
    published,  \* files replaced and not restored, while that matters
    checked,    \* the file whose hash was just compared, before its write
    receipt,    \* the receipt was written: completed
    spc,        \* where each schematic edit is
    sbefore,    \* the bytes it read
    late,       \* (history) processes whose checked file was written since
    opened,     \* (history) the open editor opened after their final check
    disturbed,  \* (history) not alone with the project since a final check
    outside     \* writes of editors so far

txnVars == <<before, cand, after, judged, recov, scratch, todo, published,
             checked, receipt>>
schVars == <<spc, sbefore>>
vars == <<files, editor, lock, pc, txnVars, schVars, late, opened, disturbed, outside>>

Critical == {"locked", "owner", "copied", "saved", "judged", "publishing",
             "rollback", "restoring", "unwind"}
Ended    == {"refused", "done", "failed", "dead"}
Nothing  == [f \in Files |-> Absent]

TypeOK ==
    /\ files \in [Files -> Content \cup {Torn}]
    /\ editor \in BOOLEAN
    /\ lock \in Txns \cup {NoOne}
    /\ pc \in [Txns -> {"idle", "planned", "valid", "cleanup"} \cup Critical \cup Ended]
    /\ \A g \in {before, cand, after, judged, recov} :
          g \in [Txns -> [Files -> Content \cup {Torn}]]
    /\ scratch \in [Txns -> BOOLEAN] /\ receipt \in [Txns -> BOOLEAN]
    /\ todo \in [Txns -> SUBSET Files] /\ published \in [Txns -> SUBSET Files]
    /\ checked \in [Txns -> Files \cup {NoFile}]
    /\ spc \in [SchEdits -> {"idle", "read", "verified", "checked", "done", "failed"}]
    /\ sbefore \in [SchEdits -> Content \cup {Torn}]
    /\ late \subseteq Txns \cup SchEdits
    /\ opened \subseteq Txns /\ disturbed \subseteq Txns
    /\ outside \in 0 .. MaxOutside

Init ==
    /\ files \in [Files -> Content \ {Absent}]
    /\ \A f, g \in Files : files[f] = files[g]
    /\ editor = FALSE /\ lock = NoOne
    /\ pc = [t \in Txns |-> "idle"]
    /\ before = [t \in Txns |-> Nothing] /\ cand = before /\ after = before
    /\ judged = before /\ recov = before
    /\ scratch = [t \in Txns |-> FALSE] /\ receipt = scratch
    /\ todo = [t \in Txns |-> {}] /\ published = todo
    /\ checked = [t \in Txns |-> NoFile]
    /\ spc = [e \in SchEdits |-> "idle"] /\ sbefore = [e \in SchEdits |-> Absent]
    /\ late = {} /\ opened = {} /\ disturbed = Txns /\ outside = 0

-----------------------------------------------------------------------------
(* What a write of `f' by p means to the others: whoever holds a check of  *)
(* `f' acts on a stale answer, and no transaction is alone any more.        *)
Holds(p, f) == IF p \in Txns THEN checked[p] = f
                             ELSE spc[p] = "checked" /\ f = Schematic

Wrote(p, f) ==
    /\ late' = (late \ {p}) \cup {q \in (Txns \cup SchEdits) \ {p} : Holds(q, f)}
    /\ disturbed' = disturbed \cup (Txns \ {p})

NoWrite == UNCHANGED <<files, late, disturbed>>

Go(t, label) == pc' = [pc EXCEPT ![t] = label]

(* The answer of a check is no longer held.                                 *)
Forget(t) ==
    /\ checked' = [checked EXCEPT ![t] = NoFile]
    /\ late' = late \ {t}

(* What only the process knows goes with it; the scratch directory stays.   *)
Memoryless(t) ==
    /\ cand'   = [cand EXCEPT ![t] = Nothing]
    /\ after'  = [after EXCEPT ![t] = Nothing]
    /\ judged' = [judged EXCEPT ![t] = Nothing]
    /\ todo'   = [todo EXCEPT ![t] = {}]

LeavePublished(t) ==   \* a slip: gives up without looking back
    /\ Go(t, "rollback")
    /\ todo' = [todo EXCEPT ![t] = {}]

(* An exception inside _publish: look at what was published so far.         *)
StartRollback(t) ==
    /\ Go(t, "rollback")
    /\ todo' = [todo EXCEPT ![t] = published[t]]

FilesUnchanged(t) == files = before[t]   \* a slip: editor locks not looked at

(* _check_editor_locks, project_files and the hash loop: the project is     *)
(* exactly as the plan saw it and no editor shows a lock.                   *)
Fresh(t) == ~editor /\ files = before[t]

-----------------------------------------------------------------------------
(* A plan is written from `kicad_native.py inputs' or `inspect'.            *)
Plan(t) ==
    /\ pc[t] = "idle"
    /\ before' = [before EXCEPT ![t] = files]
    /\ Go(t, "planned") /\ NoWrite
    /\ UNCHANGED <<editor, lock, cand, after, judged, recov, scratch, todo,
                   published, checked, receipt, schVars, opened, outside>>

(* validate_transaction, before the lock is taken.                          *)
Validate(t) ==
    /\ pc[t] = "planned"
    /\ Go(t, IF Fresh(t) THEN "valid" ELSE "refused") /\ NoWrite
    /\ UNCHANGED <<editor, lock, txnVars, schVars, opened, outside>>

(* os.open(O_CREAT | O_EXCL): the lock file belongs to who creates it.      *)
TakeLock(t) ==
    /\ pc[t] = "valid"
    /\ IF lock = NoOne THEN lock' = t /\ Go(t, "locked")
                       ELSE lock' = lock /\ Go(t, "refused")
    /\ NoWrite
    /\ UNCHANGED <<editor, txnVars, schVars, opened, outside>>

(* The second validate_transaction, under the lock.                         *)
Revalidate(t) ==
    /\ pc[t] = "locked"
    /\ Go(t, IF Fresh(t) THEN "owner" ELSE "unwind") /\ NoWrite
    /\ UNCHANGED <<editor, lock, txnVars, schVars, opened, outside>>

(* Candidate and recovery copies, each compared with before_files: a copy   *)
(* of anything else ends the transaction.                                   *)
CopyInputs(t) ==
    /\ pc[t] = "owner"
    /\ IF files = before[t]
         THEN /\ cand'    = [cand EXCEPT ![t] = before[t]]
              /\ recov'   = [recov EXCEPT ![t] = before[t]]
              /\ scratch' = [scratch EXCEPT ![t] = TRUE]
              /\ Go(t, "copied")
         ELSE Go(t, "unwind") /\ UNCHANGED <<cand, recov, scratch>>
    /\ NoWrite
    /\ UNCHANGED <<editor, lock, before, after, judged, todo, published, checked,
                   receipt, schVars, opened, outside>>

(* The batch is applied to the candidate, saved natively and read back; the *)
(* save may come out wrong.  Only the board, and the project when a net     *)
(* class changed, may differ from before_files.                             *)
SaveCandidate(t) ==
    /\ pc[t] = "copied"
    /\ \E c \in [Permitted -> Content \ {Absent}], stray \in BOOLEAN :
         LET saved == [f \in Files |->
                         IF f \in Permitted THEN c[f]
                         ELSE IF stray THEN Torn ELSE before[t][f]]
             declared == \A f \in Files \ Permitted : saved[f] = before[t][f]
         IN /\ cand'  = [cand EXCEPT ![t] = saved]
            /\ after' = [after EXCEPT ![t] = IF declared THEN saved ELSE @]
            /\ Go(t, IF declared THEN "saved" ELSE "unwind")
    /\ NoWrite
    /\ UNCHANGED <<editor, lock, before, judged, recov, scratch, todo, published,
                   checked, receipt, schVars, opened, outside>>

TrustValidator(t) ==   \* a slip: the candidate is not compared afterwards
    /\ pc[t] = "saved"
    /\ judged' = [judged EXCEPT ![t] = cand[t]]
    /\ \E passed, meddled \in BOOLEAN :
         /\ cand' = [cand EXCEPT ![t] =
                       IF meddled THEN [@ EXCEPT ![Board] = Torn] ELSE @]
         /\ Go(t, IF passed THEN "judged" ELSE "unwind")
    /\ NoWrite
    /\ UNCHANGED <<editor, lock, before, after, recov, scratch, todo, published,
                   checked, receipt, schVars, opened, outside>>

(* validator(candidate): any answer but passed ends the transaction, and so *)
(* does a validator that wrote to the candidate.                            *)
RunValidator(t) ==
    /\ pc[t] = "saved"
    /\ judged' = [judged EXCEPT ![t] = cand[t]]
    /\ \E passed, meddled \in BOOLEAN :
         LET left == IF meddled THEN [cand[t] EXCEPT ![Board] = Torn] ELSE cand[t]
         IN /\ cand' = [cand EXCEPT ![t] = left]
            /\ Go(t, IF passed /\ left = after[t] THEN "judged" ELSE "unwind")
    /\ NoWrite
    /\ UNCHANGED <<editor, lock, before, after, recov, scratch, todo, published,
                   checked, receipt, schVars, opened, outside>>

(* _publish: the changed files are copied beside their targets, then the    *)
(* editor locks, the inventory and every hash are compared once more.       *)
FinalCheck(t) ==
    /\ pc[t] = "judged"
    /\ IF Fresh(t)
         THEN /\ todo' = [todo EXCEPT ![t] =
                            {f \in Files : after[t][f] # before[t][f]}]
              /\ disturbed' = disturbed \ {t}
              /\ Go(t, "publishing")
         ELSE Go(t, "unwind") /\ UNCHANGED <<todo, disturbed>>
    /\ UNCHANGED <<files, editor, lock, before, cand, after, judged, recov, scratch,
                   published, checked, receipt, schVars, late, opened, outside>>

NoRecheck(t, f) ==   \* a slip: relies on the final check alone
    /\ pc[t] = "publishing" /\ checked[t] = NoFile /\ f \in todo[t]
    /\ checked' = [checked EXCEPT ![t] = f]
    /\ NoWrite
    /\ UNCHANGED <<editor, lock, pc, todo, before, cand, after, judged, recov,
                   scratch, published, receipt, schVars, opened, outside>>

(* The recheck of one file, immediately before its replacement ...          *)
Recheck(t, f) ==
    /\ pc[t] = "publishing" /\ checked[t] = NoFile /\ f \in todo[t]
    /\ IF files[f] = before[t][f]
         THEN checked' = [checked EXCEPT ![t] = f] /\ UNCHANGED <<pc, todo>>
         ELSE StartRollback(t) /\ UNCHANGED checked
    /\ NoWrite
    /\ UNCHANGED <<editor, lock, before, cand, after, judged, recov, scratch,
                   published, receipt, schVars, opened, outside>>

(* ... and os.replace, which is not a compare-and-swap.                     *)
Replace(t) ==
    /\ pc[t] = "publishing" /\ checked[t] # NoFile
    /\ LET f == checked[t] IN
         /\ files'     = [files EXCEPT ![f] = cand[t][f]]
         /\ published' = [published EXCEPT ![t] = @ \cup {f}]
         /\ todo'      = [todo EXCEPT ![t] = @ \ {f}]
         /\ Wrote(t, f)
    /\ checked' = [checked EXCEPT ![t] = NoFile]
    /\ UNCHANGED <<editor, lock, pc, before, cand, after, judged, recov, scratch,
                   receipt, schVars, opened, outside>>

(* os.replace raises.                                                       *)
ReplaceFails(t) ==
    /\ pc[t] = "publishing" /\ checked[t] # NoFile
    /\ StartRollback(t)
    /\ Forget(t)
    /\ UNCHANGED <<files, editor, lock, before, cand, after, judged, recov, scratch,
                   published, receipt, schVars, opened, disturbed, outside>>

-----------------------------------------------------------------------------
(* Rollback looks at each published file; one that is no longer what this   *)
(* transaction published is left alone and reported.                        *)
RollbackCheck(t, f) ==
    /\ pc[t] = "rollback" /\ checked[t] = NoFile /\ f \in todo[t]
    /\ IF files[f] = after[t][f]
         THEN checked' = [checked EXCEPT ![t] = f] /\ UNCHANGED todo
         ELSE todo' = [todo EXCEPT ![t] = @ \ {f}] /\ UNCHANGED checked
    /\ NoWrite
    /\ UNCHANGED <<editor, lock, pc, before, cand, after, judged, recov, scratch,
                   published, receipt, schVars, opened, outside>>

(* shutil.copy2 truncates its target ...                                    *)
RestoreBegin(t) ==
    /\ pc[t] = "rollback" /\ checked[t] # NoFile
    /\ files' = [files EXCEPT ![checked[t]] = Torn]
    /\ Wrote(t, checked[t])
    /\ Go(t, "restoring")
    /\ UNCHANGED <<editor, lock, txnVars, schVars, opened, outside>>

(* ... and writes the recovery copy into it.                                *)
RestoreEnd(t) ==
    /\ pc[t] = "restoring"
    /\ LET f == checked[t] IN
         /\ files'     = [files EXCEPT ![f] = recov[t][f]]
         /\ published' = [published EXCEPT ![t] = @ \ {f}]
         /\ todo'      = [todo EXCEPT ![t] = @ \ {f}]
         /\ Wrote(t, f)
    /\ checked' = [checked EXCEPT ![t] = NoFile]
    /\ Go(t, "rollback")
    /\ UNCHANGED <<editor, lock, before, cand, after, judged, recov, scratch,
                   receipt, schVars, opened, outside>>

RollbackEnds(t) ==
    /\ pc[t] = "rollback" /\ checked[t] = NoFile /\ todo[t] = {}
    /\ Go(t, "unwind") /\ NoWrite
    /\ UNCHANGED <<editor, lock, txnVars, schVars, opened, outside>>

-----------------------------------------------------------------------------
(* Everything is published: the receipt is created, or its creation fails   *)
(* with the published files in place.                                       *)
WriteReceipt(t) ==
    /\ pc[t] = "publishing" /\ todo[t] = {} /\ checked[t] = NoFile
    /\ \E ok \in BOOLEAN : receipt' = [receipt EXCEPT ![t] = ok]
    /\ Go(t, "unwind") /\ NoWrite
    /\ UNCHANGED <<editor, lock, before, cand, after, judged, recov, scratch, todo,
                   published, checked, schVars, opened, outside>>

(* Any other exception before publication, and a keyboard interrupt at any  *)
(* time: the latter is no Exception and skips the rollback.                 *)
Fail(t) ==
    /\ pc[t] \in {"owner", "copied", "saved", "judged"}
    /\ Go(t, "unwind") /\ NoWrite
    /\ UNCHANGED <<editor, lock, txnVars, schVars, opened, outside>>

Interrupt(t) ==
    /\ pc[t] \in {"publishing", "rollback", "restoring"}
    /\ Go(t, "unwind")
    /\ Forget(t)
    /\ disturbed' = disturbed \cup {t}
    /\ UNCHANGED <<files, editor, lock, before, cand, after, judged, recov, scratch,
                   todo, published, receipt, schVars, opened, outside>>

(* The lock file is unlinked on the way out, whatever happened ...          *)
Unlock(t) ==
    /\ pc[t] = "unwind"
    /\ lock' = NoOne
    /\ Go(t, "cleanup")
    /\ Memoryless(t)
    /\ disturbed' = disturbed \cup {t}
    /\ UNCHANGED <<files, editor, before, recov, scratch, published, checked, receipt,
                   schVars, late, opened, outside>>

CleanupAlways(t) ==   \* a slip: the scratch directory always goes
    /\ pc[t] = "cleanup"
    /\ scratch' = [scratch EXCEPT ![t] = FALSE]
    /\ Go(t, IF receipt[t] THEN "done" ELSE "failed") /\ NoWrite
    /\ UNCHANGED <<editor, lock, before, cand, after, judged, recov, todo, published,
                   checked, receipt, schVars, opened, outside>>

(* ... and the scratch directory goes only if nothing needs it any more.    *)
Cleanup(t) ==
    /\ pc[t] = "cleanup"
    /\ LET needed == ~receipt[t] /\ files # before[t] IN
         /\ scratch' = [scratch EXCEPT ![t] = @ /\ needed]
         /\ published' = [published EXCEPT ![t] = IF needed THEN @ ELSE {}]
         /\ before' = [before EXCEPT ![t] = IF needed THEN @ ELSE Nothing]
         /\ recov' = [recov EXCEPT ![t] = IF needed THEN @ ELSE Nothing]
    /\ Go(t, IF receipt[t] THEN "done" ELSE "failed") /\ NoWrite
    /\ UNCHANGED <<editor, lock, cand, after, judged, todo, checked, receipt,
                   schVars, opened, outside>>

(* The process is killed: nothing is released and nothing is cleaned up.    *)
Crash(t) ==
    /\ pc[t] \in Critical \cup {"cleanup"}
    /\ Go(t, "dead")
    /\ Memoryless(t)
    /\ Forget(t)
    /\ disturbed' = disturbed \cup {t}
    /\ UNCHANGED <<files, editor, lock, before, recov, scratch, published, receipt,
                   schVars, opened, outside>>

-----------------------------------------------------------------------------
(* kicad_schematic.py: the lock files are looked at once, at the start; the *)
(* bytes are compared after the verification and again before os.replace.   *)
SchRead(e) ==
    /\ spc[e] = "idle" /\ ~editor
    /\ sbefore' = [sbefore EXCEPT ![e] = files[Schematic]]
    /\ spc' = [spc EXCEPT ![e] = IF files[Schematic] \in {Absent, Torn}
                                 THEN "failed" ELSE "read"]
    /\ NoWrite
    /\ UNCHANGED <<editor, lock, pc, txnVars, opened, outside>>

SchVerify(e) ==
    /\ spc[e] = "read"
    /\ \E ok \in BOOLEAN :
         spc' = [spc EXCEPT ![e] = IF ok /\ files[Schematic] = sbefore[e]
                                   THEN "verified" ELSE "failed"]
    /\ NoWrite
    /\ UNCHANGED <<editor, lock, pc, txnVars, sbefore, opened, outside>>

SchRecheck(e) ==
    /\ spc[e] = "verified"
    /\ spc' = [spc EXCEPT ![e] = IF files[Schematic] = sbefore[e]
                                 THEN "checked" ELSE "failed"]
    /\ NoWrite
    /\ UNCHANGED <<editor, lock, pc, txnVars, sbefore, opened, outside>>

SchReplace(e) ==
    /\ spc[e] = "checked"
    /\ \E c \in Content \ {Absent, sbefore[e]} :
         files' = [files EXCEPT ![Schematic] = c]
    /\ spc' = [spc EXCEPT ![e] = "done"]
    /\ Wrote(e, Schematic)
    /\ UNCHANGED <<editor, lock, pc, txnVars, sbefore, opened, outside>>

-----------------------------------------------------------------------------
(* KiCad, and every program that heeds no lock.                             *)
EditorOpen ==
    /\ ~editor /\ editor' = TRUE
    /\ opened' = opened \cup {t \in Txns : pc[t] \in {"publishing", "rollback",
                                                      "restoring"}}
    /\ NoWrite
    /\ UNCHANGED <<lock, pc, txnVars, schVars, outside>>

EditorClose ==
    /\ editor /\ editor' = FALSE
    /\ opened' = {}
    /\ NoWrite
    /\ UNCHANGED <<lock, pc, txnVars, schVars, outside>>

OutsideWrite(f, c) ==
    /\ outside < MaxOutside /\ c # files[f]
    /\ outside' = outside + 1
    /\ files' = [files EXCEPT ![f] = c]
    /\ Wrote(NoOne, f)
    /\ UNCHANGED <<editor, lock, pc, txnVars, schVars, opened>>

-----------------------------------------------------------------------------
TxnNext(t) ==
    \/ Plan(t) \/ Validate(t) \/ TakeLock(t) \/ Revalidate(t) \/ CopyInputs(t)
    \/ SaveCandidate(t) \/ RunValidator(t) \/ FinalCheck(t)
    \/ \E f \in Files : Recheck(t, f) \/ RollbackCheck(t, f)
    \/ Replace(t) \/ ReplaceFails(t) \/ RestoreBegin(t) \/ RestoreEnd(t)
    \/ RollbackEnds(t) \/ WriteReceipt(t) \/ Fail(t) \/ Interrupt(t)
    \/ Unlock(t) \/ Cleanup(t) \/ Crash(t)

SchNext(e) == SchRead(e) \/ SchVerify(e) \/ SchRecheck(e) \/ SchReplace(e)

Next ==
    \/ \E t \in Txns : TxnNext(t)
    \/ \E e \in SchEdits : SchNext(e)
    \/ EditorOpen \/ EditorClose
    \/ \E f \in Files, c \in Content : OutsideWrite(f, c)

Spec == Init /\ [][Next]_vars

-----------------------------------------------------------------------------
(* At most one transaction is between taking and leaving the lock, and the  *)
(* lock file names it: kicad_native.py promises that the lock coordinates   *)
(* its own runs, through failures, interrupts and kills.                    *)
OneTransaction ==
    \A t \in Txns : pc[t] \in Critical =>
        /\ lock = t
        /\ \A u \in Txns \ {t} : pc[u] \notin Critical

(* Whatever was overwritten and not given back can be recovered: until the  *)
(* receipt says the transaction committed, the bytes every replaced file    *)
(* had are still in the scratch directory, after a kill as well.            *)
RecoveryKept ==
    \A t \in Txns : ~receipt[t] =>
        \A f \in published[t] : scratch[t] /\ recov[t][f] = before[t][f]

(* The lock and the recovery copies protect what they are there for.        *)
Protected == TypeOK /\ OneTransaction /\ RecoveryKept

(* A transaction that nobody disturbed after its final check leaves all of  *)
(* the project as it was or all of it as it announced, and a receipt means  *)
(* the latter: file-by-file publication looks like one step.                *)
AllOrNothing ==
    \A t \in Txns : pc[t] = "unwind" /\ t \notin disturbed =>
        /\ files \in {before[t], after[t]}
        /\ receipt[t] => files = after[t]

(* What is published is what the validator was given, and only the board    *)
(* and the project are ever published.                                      *)
PublishedAsJudged ==
    [][\A t \in Txns, f \in Files : f \in published'[t] \ published[t] =>
          f \in Permitted /\ files'[f] = judged[t][f]]_vars

(* A write of this tool replaces bytes its author never looked at only when *)
(* they arrived between its last comparison of that very file and the write *)
(* itself: the window the module comment warns of, and no larger one.       *)
NoLostEdit ==
    [][/\ \A t \in Txns, f \in Files :
            checked[t] = f /\ f \in published'[t] \ published[t] =>
                t \in late \/ files[f] = before[t][f]
       /\ \A t \in Txns : pc[t] = "rollback" /\ pc'[t] = "restoring" =>
                t \in late \/ files[checked[t]] = after[t][checked[t]]
       /\ \A e \in SchEdits : spc[e] = "checked" /\ spc'[e] = "done" =>
                e \in late \/ files[Schematic] = sbefore[e]]_vars

(* An editor that was open when a transaction made its final check never    *)
(* has a file changed under it by that transaction.                         *)
EditorUndisturbed ==
    [][\A t \in Txns : editor /\ published'[t] # published[t] /\ files' # files
          => t \in opened]_vars
=============================================================================
