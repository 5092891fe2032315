------------------------ MODULE NativeTransactionProofs ------------------------
(***************************************************************************)
(* Theorems about NativeTransaction, for any number of transactions and    *)
(* schematic edits, any files and contents, and any number of writes by    *)
(* others.                                                                 *)
(***************************************************************************)
EXTENDS NativeTransaction, TLAPS

-----------------------------------------------------------------------------
\* The parts of the next-state relation, as every proof below takes them.
Prepare(t) == Plan(t) \/ Validate(t) \/ TakeLock(t) \/ Revalidate(t) \/ CopyInputs(t)
Judgement(t) == SaveCandidate(t) \/ RunValidator(t) \/ FinalCheck(t)
Publication(t) ==
    \/ \E f \in Files : Recheck(t, f) \/ RollbackCheck(t, f)
    \/ Replace(t) \/ ReplaceFails(t) \/ RestoreBegin(t) \/ RestoreEnd(t)
    \/ RollbackEnds(t) \/ WriteReceipt(t)
Leaving(t) == Fail(t) \/ Interrupt(t) \/ Unlock(t) \/ Cleanup(t) \/ Crash(t)
Others ==
    \/ \E e \in SchEdits : SchNext(e)
    \/ EditorOpen \/ EditorClose
    \/ \E f \in Files, c \in Content : OutsideWrite(f, c)

LEMMA Parts ==
  Next <=> \/ \E t \in Txns : Prepare(t) \/ Judgement(t) \/ Publication(t) \/ Leaving(t)
           \/ Others
  BY DEF Next, TxnNext, Prepare, Judgement, Publication, Leaving, Others

-----------------------------------------------------------------------------
(* Type correctness.  TypeOK is split into what everybody sees, what a     *)
(* transaction remembers of the project, and where everyone is.            *)

Bytes == [Files -> Content \cup {Torn}]

SharedType ==
    /\ files \in Bytes /\ editor \in BOOLEAN /\ lock \in Txns \cup {NoOne}
    /\ late \subseteq Txns \cup SchEdits
    /\ opened \subseteq Txns /\ disturbed \subseteq Txns
    /\ outside \in 0 .. MaxOutside

PlaceType ==
    /\ pc \in [Txns -> {"idle", "planned", "valid", "cleanup"} \cup Critical \cup Ended]
    /\ spc \in [SchEdits -> {"idle", "read", "verified", "checked", "done", "failed"}]
    /\ sbefore \in [SchEdits -> Content \cup {Torn}]

CopyType ==
    /\ before \in [Txns -> Bytes] /\ cand \in [Txns -> Bytes] /\ after \in [Txns -> Bytes]
    /\ judged \in [Txns -> Bytes] /\ recov \in [Txns -> Bytes]

MarkType ==
    /\ scratch \in [Txns -> BOOLEAN] /\ receipt \in [Txns -> BOOLEAN]
    /\ todo \in [Txns -> SUBSET Files] /\ published \in [Txns -> SUBSET Files]
    /\ checked \in [Txns -> Files \cup {NoFile}]

LEMMA TypeParts ==
  /\ TypeOK <=> SharedType /\ PlaceType /\ CopyType /\ MarkType
  /\ TypeOK' <=> SharedType' /\ PlaceType' /\ CopyType' /\ MarkType'
<1>1. TypeOK <=> SharedType /\ PlaceType /\ CopyType /\ MarkType
  BY DEF TypeOK, SharedType, PlaceType, CopyType, MarkType, Bytes
<1>2. TypeOK' <=> SharedType' /\ PlaceType' /\ CopyType' /\ MarkType'
  BY DEF TypeOK, SharedType, PlaceType, CopyType, MarkType, Bytes
<1> QED
  BY <1>1, <1>2

LEMMA NothingType == Nothing \in Bytes
  BY ContentAssumption DEF Nothing, Bytes

LEMMA InitType == Init => TypeOK
<1> SUFFICES ASSUME Init PROVE TypeOK
  OBVIOUS
<1>0. files \in Bytes
  <2>1. files \in [Files -> Content \ {Absent}]
    BY DEF Init
  <2> QED
    BY <2>1 DEF Bytes
<1>1. SharedType
  <2>1. editor \in BOOLEAN
    BY DEF Init
  <2>2. outside \in 0 .. MaxOutside
    BY BoundAssumption DEF Init
  <2> QED
    BY <1>0, <2>1, <2>2 DEF Init, SharedType
<1>2. PlaceType
  BY ContentAssumption DEF Init, PlaceType
<1>3. CopyType
  BY NothingType DEF Init, CopyType
<1>4. MarkType
  BY DEF Init, MarkType
<1> QED
  BY <1>1, <1>2, <1>3, <1>4, TypeParts

LEMMA PrepareType ==
  ASSUME TypeOK, NEW t \in Txns, Prepare(t)
  PROVE  TypeOK'
<1> USE TypeParts
<1>1. CASE Plan(t)
  BY <1>1 DEF Plan, Go, NoWrite, schVars, Critical, SharedType, PlaceType, CopyType, MarkType
<1>2. CASE Validate(t)
  BY <1>2 DEF Validate, Go, NoWrite, txnVars, schVars, Critical, Ended,
              SharedType, PlaceType, CopyType, MarkType
<1>3. CASE TakeLock(t)
  BY <1>3 DEF TakeLock, Go, NoWrite, txnVars, schVars, Critical, Ended,
              SharedType, PlaceType, CopyType, MarkType
<1>4. CASE Revalidate(t)
  BY <1>4 DEF Revalidate, Go, NoWrite, txnVars, schVars, Critical,
              SharedType, PlaceType, CopyType, MarkType
<1>5. CASE CopyInputs(t)
  BY <1>5 DEF CopyInputs, Go, NoWrite, schVars, Critical,
              SharedType, PlaceType, CopyType, MarkType
<1> QED
  BY <1>1, <1>2, <1>3, <1>4, <1>5 DEF Prepare

LEMMA JudgeType ==
  ASSUME TypeOK, NEW t \in Txns, Judgement(t)
  PROVE  TypeOK'
<1> USE TypeParts
<1>1. CASE SaveCandidate(t)
  <2>1. PICK c \in [Permitted -> Content \ {Absent}], stray \in BOOLEAN :
          LET saved == [f \in Files |->
                          IF f \in Permitted THEN c[f]
                          ELSE IF stray THEN Torn ELSE before[t][f]]
              declared == \A f \in Files \ Permitted : saved[f] = before[t][f]
          IN /\ cand'  = [cand EXCEPT ![t] = saved]
             /\ after' = [after EXCEPT ![t] = IF declared THEN saved ELSE @]
             /\ Go(t, IF declared THEN "saved" ELSE "unwind")
    BY <1>1 DEF SaveCandidate
  <2> DEFINE saved == [f \in Files |->
                         IF f \in Permitted THEN c[f]
                         ELSE IF stray THEN Torn ELSE before[t][f]]
  <2>2. saved \in Bytes
    BY DEF Bytes, CopyType
  <2> HIDE DEF saved
  <2>3. CopyType'
    BY <1>1, <2>1, <2>2 DEF SaveCandidate, CopyType, saved
  <2>4. PlaceType'
    BY <1>1, <2>1 DEF SaveCandidate, PlaceType, Go, schVars, Critical
  <2> QED
    BY <1>1, <2>3, <2>4 DEF SaveCandidate, NoWrite, SharedType, MarkType
<1>2. CASE RunValidator(t)
  <2>1. PICK passed \in BOOLEAN, meddled \in BOOLEAN :
          LET left == IF meddled THEN [cand[t] EXCEPT ![Board] = Torn] ELSE cand[t]
          IN /\ cand' = [cand EXCEPT ![t] = left]
             /\ Go(t, IF passed /\ left = after[t] THEN "judged" ELSE "unwind")
    BY <1>2 DEF RunValidator
  <2>2. cand[t] \in Bytes /\ [cand[t] EXCEPT ![Board] = Torn] \in Bytes
    BY DEF CopyType, Bytes
  <2>3. CopyType'
    BY <1>2, <2>1, <2>2 DEF RunValidator, CopyType
  <2>4. PlaceType'
    BY <1>2, <2>1 DEF RunValidator, PlaceType, Go, schVars, Critical
  <2> QED
    BY <1>2, <2>3, <2>4 DEF RunValidator, NoWrite, SharedType, MarkType
<1>3. CASE FinalCheck(t)
  <2>1. CopyType' /\ PlaceType' /\ SharedType'
    BY <1>3 DEF FinalCheck, Go, schVars, Critical, CopyType, PlaceType, SharedType
  <2>2. MarkType'
    <3> DEFINE due == {f \in Files : after[t][f] # before[t][f]}
    <3>1. due \in SUBSET Files
      OBVIOUS
    <3> HIDE DEF due
    <3>2. todo' \in [Txns -> SUBSET Files]
      BY <1>3, <3>1 DEF FinalCheck, MarkType, due
    <3> QED
      BY <1>3, <3>2 DEF FinalCheck, MarkType
  <2> QED
    BY <2>1, <2>2
<1> QED
  BY <1>1, <1>2, <1>3 DEF Judgement

\* A file replaced by bytes, and a set of files with one removed or added.
LEMMA ReplaceType ==
  ASSUME NEW g \in Bytes, NEW h \in Bytes, NEW f \in Files
  PROVE  [g EXCEPT ![f] = h[f]] \in Bytes /\ [g EXCEPT ![f] = Torn] \in Bytes
  BY DEF Bytes

LEMMA PublishType ==
  ASSUME TypeOK, NEW t \in Txns, Publication(t)
  PROVE  TypeOK'
<1> USE TypeParts
<1>1. ASSUME NEW f \in Files, Recheck(t, f) PROVE TypeOK'
  BY <1>1 DEF Recheck, StartRollback, Go, NoWrite, schVars, Critical,
              SharedType, PlaceType, CopyType, MarkType
<1>2. ASSUME NEW f \in Files, RollbackCheck(t, f) PROVE TypeOK'
  BY <1>2 DEF RollbackCheck, NoWrite, schVars, SharedType, PlaceType, CopyType, MarkType
<1>3. CASE Replace(t)
  <2>1. checked[t] \in Files /\ cand[t] \in Bytes
    BY <1>3 DEF Replace, MarkType, CopyType
  <2>2. SharedType'
    BY <1>3, <2>1, ReplaceType DEF Replace, Wrote, SharedType
  <2>3. MarkType'
    BY <1>3, <2>1 DEF Replace, MarkType
  <2> QED
    BY <1>3, <2>2, <2>3 DEF Replace, schVars, PlaceType, CopyType
<1>4. CASE ReplaceFails(t)
  BY <1>4 DEF ReplaceFails, StartRollback, Forget, Go, schVars, Critical,
              SharedType, PlaceType, CopyType, MarkType
<1>5. CASE RestoreBegin(t)
  <2>1. checked[t] \in Files
    BY <1>5 DEF RestoreBegin, MarkType
  <2>2. SharedType'
    BY <1>5, <2>1, ReplaceType DEF RestoreBegin, Wrote, SharedType
  <2> QED
    BY <1>5, <2>2 DEF RestoreBegin, Go, txnVars, schVars, Critical, PlaceType, CopyType, MarkType
<1>6. CASE RestoreEnd(t)
  <2>1. recov[t] \in Bytes /\ checked[t] \in Files \cup {NoFile}
    BY DEF CopyType, MarkType
  <2>2. files' \in Bytes
    BY <1>6, <2>1, ReplaceType DEF RestoreEnd, SharedType, Bytes
  <2>3. SharedType'
    BY <1>6, <2>2 DEF RestoreEnd, Wrote, SharedType
  <2>4. MarkType'
    BY <1>6, <2>1 DEF RestoreEnd, MarkType
  <2> QED
    BY <1>6, <2>3, <2>4 DEF RestoreEnd, Go, schVars, Critical, PlaceType, CopyType
<1>7. CASE RollbackEnds(t)
  BY <1>7 DEF RollbackEnds, Go, NoWrite, txnVars, schVars, Critical,
              SharedType, PlaceType, CopyType, MarkType
<1>8. CASE WriteReceipt(t)
  BY <1>8 DEF WriteReceipt, Go, NoWrite, schVars, Critical,
              SharedType, PlaceType, CopyType, MarkType
<1> QED
  BY <1>1, <1>2, <1>3, <1>4, <1>5, <1>6, <1>7, <1>8 DEF Publication

LEMMA LeaveType ==
  ASSUME TypeOK, NEW t \in Txns, Leaving(t)
  PROVE  TypeOK'
<1> USE TypeParts, NothingType
<1>1. CASE Fail(t)
  BY <1>1 DEF Fail, Go, NoWrite, txnVars, schVars, Critical,
              SharedType, PlaceType, CopyType, MarkType
<1>2. CASE Interrupt(t)
  BY <1>2 DEF Interrupt, Forget, Go, schVars, Critical,
              SharedType, PlaceType, CopyType, MarkType
<1>3. CASE Unlock(t)
  BY <1>3 DEF Unlock, Memoryless, Go, schVars, SharedType, PlaceType, CopyType, MarkType
<1>4. CASE Cleanup(t)
  <2>1. PICK needed \in BOOLEAN :
          /\ scratch' = [scratch EXCEPT ![t] = @ /\ needed]
          /\ published' = [published EXCEPT ![t] = IF needed THEN @ ELSE {}]
          /\ before' = [before EXCEPT ![t] = IF needed THEN @ ELSE Nothing]
          /\ recov' = [recov EXCEPT ![t] = IF needed THEN @ ELSE Nothing]
    BY <1>4 DEF Cleanup
  <2>2. CopyType'
    BY <1>4, <2>1 DEF Cleanup, CopyType
  <2>3. MarkType'
    BY <1>4, <2>1 DEF Cleanup, MarkType
  <2> QED
    BY <1>4, <2>2, <2>3 DEF Cleanup, Go, NoWrite, schVars, Ended, SharedType, PlaceType
<1>5. CASE Crash(t)
  BY <1>5 DEF Crash, Memoryless, Forget, Go, schVars, Ended,
              SharedType, PlaceType, CopyType, MarkType
<1> QED
  BY <1>1, <1>2, <1>3, <1>4, <1>5 DEF Leaving

LEMMA OthersType ==
  ASSUME TypeOK, Others
  PROVE  TypeOK'
<1> USE TypeParts
<1>1. ASSUME NEW e \in SchEdits, SchRead(e) \/ SchVerify(e) \/ SchRecheck(e) PROVE TypeOK'
  <2>1. files[Schematic] \in Content \cup {Torn}
    BY DEF SharedType, Bytes, Files
  <2> QED
    BY <1>1, <2>1 DEF SchRead, SchVerify, SchRecheck, NoWrite, txnVars,
                      SharedType, PlaceType, CopyType, MarkType
<1>2. ASSUME NEW e \in SchEdits, SchReplace(e) PROVE TypeOK'
  <2>1. files' \in Bytes
    BY <1>2 DEF SchReplace, SharedType, Bytes
  <2>2. SharedType'
    BY <1>2, <2>1 DEF SchReplace, Wrote, SharedType
  <2> QED
    BY <1>2, <2>2 DEF SchReplace, txnVars, PlaceType, CopyType, MarkType
<1>3. CASE EditorOpen
  BY <1>3 DEF EditorOpen, NoWrite, txnVars, schVars, SharedType, PlaceType, CopyType, MarkType
<1>4. CASE EditorClose
  BY <1>4 DEF EditorClose, NoWrite, txnVars, schVars, SharedType, PlaceType, CopyType, MarkType
<1>5. ASSUME NEW f \in Files, NEW c \in Content, OutsideWrite(f, c) PROVE TypeOK'
  <2>1. files' \in Bytes
    BY <1>5 DEF OutsideWrite, SharedType, Bytes
  <2>2. SharedType'
    BY <1>5, <2>1, BoundAssumption DEF OutsideWrite, Wrote, SharedType
  <2> QED
    BY <1>5, <2>2 DEF OutsideWrite, txnVars, schVars, PlaceType, CopyType, MarkType
<1> QED
  BY <1>1, <1>2, <1>3, <1>4, <1>5 DEF Others, SchNext

LEMMA StepType == TypeOK /\ [Next]_vars => TypeOK'
<1> SUFFICES ASSUME TypeOK, [Next]_vars PROVE TypeOK'
  OBVIOUS
<1>1. ASSUME NEW t \in Txns, Prepare(t) \/ Judgement(t) \/ Publication(t) \/ Leaving(t)
      PROVE TypeOK'
  BY <1>1, PrepareType, JudgeType, PublishType, LeaveType
<1>2. CASE Others
  BY <1>2, OthersType
<1>3. CASE UNCHANGED vars
  BY <1>3 DEF vars, txnVars, schVars, TypeOK
<1> QED
  BY <1>1, <1>2, <1>3, Parts

\* Type correctness of the project directory, of what the processes hold and
\* of the history, however the processes, the editor and others interleave.
THEOREM TypeSafety == Spec => []TypeOK
<1>1. Init => TypeOK
  BY InitType
<1>2. TypeOK /\ [Next]_vars => TypeOK'
  BY StepType
<1> QED
  BY <1>1, <1>2, PTL DEF Spec
-----------------------------------------------------------------------------
(* What a transaction sees of a step of another process.                   *)

Same(t) ==
    /\ pc'[t] = pc[t] /\ todo'[t] = todo[t] /\ published'[t] = published[t]
    /\ checked'[t] = checked[t] /\ scratch'[t] = scratch[t] /\ receipt'[t] = receipt[t]
    /\ before'[t] = before[t] /\ cand'[t] = cand[t] /\ after'[t] = after[t]
    /\ judged'[t] = judged[t] /\ recov'[t] = recov[t]

\* A write by another leaves neither the file it checked nor its solitude.
Noticed(t) ==
    /\ t \notin late' => t \notin late /\
          (checked[t] # NoFile => files'[checked[t]] = files[checked[t]])
    /\ t \notin disturbed' => t \notin disturbed /\ files' = files

LEMMA FramePrepare ==
  ASSUME TypeOK, NEW u \in Txns, NEW t \in Txns \ {u}, Prepare(u) \/ Judgement(u)
  PROVE  Same(t) /\ Noticed(t)
<1> USE TypeParts
<1>1. CASE Prepare(u)
  BY <1>1 DEF Prepare, Plan, Validate, TakeLock, Revalidate, CopyInputs, Go, NoWrite, txnVars,
     PlaceType, CopyType, MarkType, Same, Noticed
<1>2. CASE SaveCandidate(u)
  BY <1>2 DEF SaveCandidate, Go, NoWrite, PlaceType, CopyType, MarkType, Same, Noticed
<1>3. CASE RunValidator(u)
  BY <1>3 DEF RunValidator, Go, NoWrite, PlaceType, CopyType, MarkType, Same, Noticed
<1>4. CASE FinalCheck(u)
  BY <1>4 DEF FinalCheck, Go, PlaceType, CopyType, MarkType, Same, Noticed
<1> QED
  BY <1>1, <1>2, <1>3, <1>4 DEF Judgement

LEMMA FramePublish ==
  ASSUME TypeOK, NEW u \in Txns, NEW t \in Txns \ {u}, Publication(u)
  PROVE  Same(t) /\ Noticed(t)
<1> USE TypeParts
<1>1. ASSUME NEW f \in Files, Recheck(u, f) \/ RollbackCheck(u, f)
      PROVE  Same(t) /\ Noticed(t)
  BY <1>1 DEF Recheck, RollbackCheck, StartRollback, Go, NoWrite,
     PlaceType, CopyType, MarkType, Same, Noticed
<1>2. CASE Replace(u)
  <2>1. Same(t)
    BY <1>2 DEF Replace, PlaceType, CopyType, MarkType, Same
  <2>2. Noticed(t)
    BY <1>2 DEF Replace, Wrote, Holds, SharedType, MarkType, Noticed, Bytes
  <2> QED
    BY <2>1, <2>2
<1>3. CASE ReplaceFails(u) \/ RollbackEnds(u) \/ WriteReceipt(u)
  BY <1>3 DEF ReplaceFails, RollbackEnds, WriteReceipt, StartRollback, Forget, Go, NoWrite, txnVars,
     PlaceType, CopyType, MarkType, Same, Noticed
<1>4. CASE RestoreBegin(u)
  <2>1. Same(t)
    BY <1>4 DEF RestoreBegin, Go, txnVars, PlaceType, CopyType, MarkType, Same
  <2>2. Noticed(t)
    BY <1>4 DEF RestoreBegin, Wrote, Holds, SharedType, MarkType, Noticed, Bytes
  <2> QED
    BY <2>1, <2>2
<1>5. CASE RestoreEnd(u)
  <2>1. Same(t)
    BY <1>5 DEF RestoreEnd, Go, PlaceType, CopyType, MarkType, Same
  <2>2. Noticed(t)
    BY <1>5 DEF RestoreEnd, Wrote, Holds, SharedType, MarkType, Noticed, Bytes
  <2> QED
    BY <2>1, <2>2
<1> QED
  BY <1>1, <1>2, <1>3, <1>4, <1>5 DEF Publication

LEMMA FrameLeave ==
  ASSUME TypeOK, NEW u \in Txns, NEW t \in Txns \ {u}, Leaving(u)
  PROVE  Same(t) /\ Noticed(t)
  BY TypeParts DEF Leaving, Fail, Interrupt, Unlock, Cleanup, Crash, Memoryless, Forget, Go, NoWrite,
     txnVars, PlaceType, CopyType, MarkType, Same, Noticed

LEMMA FrameOthers ==
  ASSUME TypeOK, NEW t \in Txns, Others
  PROVE  Same(t) /\ Noticed(t)
<1> USE TypeParts
<1>1. ASSUME NEW e \in SchEdits, SchNext(e) PROVE Same(t) /\ Noticed(t)
  <2>1. Same(t)
    BY <1>1 DEF SchNext, SchRead, SchVerify, SchRecheck, SchReplace, txnVars, Same
  <2>2. Noticed(t)
    BY <1>1, ProcessAssumption DEF SchNext, SchRead, SchVerify, SchRecheck, SchReplace, NoWrite, Wrote, Holds,
       txnVars, SharedType, MarkType, Noticed, Bytes
  <2> QED
    BY <2>1, <2>2
<1>2. CASE EditorOpen \/ EditorClose
  BY <1>2 DEF EditorOpen, EditorClose, NoWrite, txnVars, Same, Noticed
<1>3. ASSUME NEW f \in Files, NEW c \in Content, OutsideWrite(f, c) PROVE Same(t) /\ Noticed(t)
  BY <1>3, ProcessAssumption DEF OutsideWrite, Wrote, Holds, txnVars, SharedType, MarkType, Same, Noticed, Bytes
<1> QED
  BY <1>1, <1>2, <1>3 DEF Others

\* A step is one of t itself, or one that t notices only so much of.
LEMMA Frame ==
  ASSUME TypeOK, [Next]_vars, NEW t \in Txns,
         ~(Prepare(t) \/ Judgement(t) \/ Publication(t) \/ Leaving(t))
  PROVE  Same(t) /\ Noticed(t)
<1>1. CASE UNCHANGED vars
  BY <1>1 DEF vars, txnVars, Same, Noticed
<1>2. CASE Others
  BY <1>2, FrameOthers
<1>3. ASSUME NEW u \in Txns, Prepare(u) \/ Judgement(u) \/ Publication(u) \/ Leaving(u)
      PROVE  Same(t) /\ Noticed(t)
  BY <1>3, FramePrepare, FramePublish, FrameLeave
<1> QED
  BY <1>1, <1>2, <1>3, Parts

-----------------------------------------------------------------------------
(* One transaction at a time: whoever is past the lock is named by it.     *)

LockHeld == \A t \in Txns : pc[t] \in Critical => lock = t

LEMMA LockStep == TypeOK /\ LockHeld /\ [Next]_vars => LockHeld'
<1> SUFFICES ASSUME TypeOK, LockHeld, [Next]_vars, NEW t \in Txns, pc'[t] \in Critical
             PROVE  lock' = t
  BY DEF LockHeld, Critical
<1> USE TypeParts, ProcessAssumption
<1>1. CASE Prepare(t)
  BY <1>1 DEF Prepare, Plan, Validate, TakeLock, Revalidate, CopyInputs, Go, PlaceType, LockHeld, Critical
<1>2. CASE Judgement(t)
  BY <1>2 DEF Judgement, SaveCandidate, RunValidator, FinalCheck, LockHeld, Critical
<1>3. CASE Publication(t)
  BY <1>3 DEF Publication, Recheck, RollbackCheck, Replace, ReplaceFails, RestoreBegin, RestoreEnd,
     RollbackEnds, WriteReceipt, LockHeld, Critical
<1>4. CASE Leaving(t)
  BY <1>4 DEF Leaving, Fail, Interrupt, Unlock, Cleanup, Crash, Go, PlaceType, LockHeld, Critical, Ended
<1>5. CASE ~(Prepare(t) \/ Judgement(t) \/ Publication(t) \/ Leaving(t))
  <2>1. pc[t] \in Critical /\ lock = t
    BY <1>5, Frame DEF Same, LockHeld, Critical
  <2>2. ASSUME NEW u \in Txns \ {t}, Prepare(u) PROVE lock' = lock
    BY <2>1, <2>2 DEF Prepare, Plan, Validate, TakeLock, Revalidate, CopyInputs
  <2>3. ASSUME NEW u \in Txns \ {t}, Judgement(u) \/ Publication(u) PROVE lock' = lock
    BY <2>3 DEF Judgement, SaveCandidate, RunValidator, FinalCheck, Publication, Recheck, RollbackCheck,
       Replace, ReplaceFails, RestoreBegin, RestoreEnd, RollbackEnds, WriteReceipt
  <2>4. ASSUME NEW u \in Txns \ {t}, Leaving(u) PROVE lock' = lock
    BY <2>1, <2>4 DEF Leaving, Fail, Interrupt, Unlock, Cleanup, Crash, LockHeld, Critical
  <2>5. CASE Others
    BY <2>1, <2>5 DEF Others, SchNext, SchRead, SchVerify, SchRecheck, SchReplace, EditorOpen, EditorClose, OutsideWrite
  <2>6. CASE UNCHANGED vars
    BY <2>1, <2>6 DEF vars
  <2> QED
    BY <1>5, <2>1, <2>2, <2>3, <2>4, <2>5, <2>6, Parts
<1> QED
  BY <1>1, <1>2, <1>3, <1>4, <1>5

LEMMA LockMeaning == TypeOK /\ LockHeld => OneTransaction
  BY DEF LockHeld, OneTransaction

\* kicad_native.py runs one at a time on a project, whatever fails, is
\* interrupted or is killed (_transaction_lock).
THEOREM MutualExclusion == Spec => []OneTransaction
<1>1. Init => LockHeld
  BY DEF Init, LockHeld, Critical
<1>2. TypeOK /\ LockHeld /\ [Next]_vars => LockHeld'
  BY LockStep
<1> QED
  BY <1>1, <1>2, LockMeaning, TypeSafety, PTL DEF Spec
-----------------------------------------------------------------------------
(* Recovery.  The copies are there from before the first file is replaced, *)
(* and stay until the receipt, or until there is nothing to recover.       *)

Early   == {"idle", "planned", "valid", "locked", "owner", "copied", "saved", "judged"}
Writing == {"publishing", "rollback", "restoring"}

CopiesKept(t) ==
    /\ pc[t] \in {"copied", "saved", "judged"} \cup Writing =>
          scratch[t] /\ recov[t] = before[t]
    /\ pc[t] \in Early => published[t] = {}
    /\ pc[t] \in Early \cup Writing => ~receipt[t]
    /\ ~receipt[t] => \A f \in published[t] : scratch[t] /\ recov[t][f] = before[t][f]

CopiesInv == \A t \in Txns : CopiesKept(t)

LEMMA CopiesStep == TypeOK /\ CopiesInv /\ [Next]_vars => CopiesInv'
<1> SUFFICES ASSUME TypeOK, CopiesInv, [Next]_vars, NEW t \in Txns PROVE CopiesKept(t)'
  BY DEF CopiesInv
<1> USE TypeParts DEF CopiesInv, Early, Writing
<1>1. CASE Prepare(t)
  BY <1>1 DEF Prepare, Plan, Validate, TakeLock, Revalidate, CopyInputs, Go, txnVars,
     PlaceType, CopyType, MarkType, CopiesKept
<1>2. CASE SaveCandidate(t)
  BY <1>2 DEF SaveCandidate, Go, PlaceType, CopiesKept
<1>3. CASE RunValidator(t)
  BY <1>3 DEF RunValidator, Go, PlaceType, CopiesKept
<1>4. CASE FinalCheck(t)
  BY <1>4 DEF FinalCheck, Go, PlaceType, CopiesKept
<1>5. ASSUME NEW f \in Files, Recheck(t, f) \/ RollbackCheck(t, f) PROVE CopiesKept(t)'
  BY <1>5 DEF Recheck, RollbackCheck, StartRollback, Go, PlaceType, CopiesKept
<1>6. CASE Replace(t)
  BY <1>6 DEF Replace, MarkType, CopiesKept
<1>7. CASE RestoreEnd(t)
  BY <1>7 DEF RestoreEnd, Go, PlaceType, MarkType, CopiesKept
<1>8. CASE ReplaceFails(t) \/ RestoreBegin(t) \/ RollbackEnds(t) \/ WriteReceipt(t)
  BY <1>8 DEF ReplaceFails, RestoreBegin, RollbackEnds, WriteReceipt, StartRollback, Go, txnVars,
     PlaceType, MarkType, CopiesKept
<1>9. CASE Leaving(t)
  BY <1>9 DEF Leaving, Fail, Interrupt, Unlock, Cleanup, Crash, Go, txnVars, Critical,
     PlaceType, CopyType, MarkType, CopiesKept
<1>10. CASE ~(Prepare(t) \/ Judgement(t) \/ Publication(t) \/ Leaving(t))
  BY <1>10, Frame DEF Same, CopiesKept
<1> QED
  BY <1>1, <1>2, <1>3, <1>4, <1>5, <1>6, <1>7, <1>8, <1>9, <1>10 DEF Judgement, Publication

\* Until a transaction has its receipt, the bytes of every file it replaced can
\* be recovered, after an interrupt or a kill as well (apply_transaction).
THEOREM Recovery == Spec => []RecoveryKept
<1>1. Init => CopiesInv
  BY DEF Init, CopiesInv, CopiesKept, Early, Writing
<1>2. TypeOK /\ CopiesInv /\ [Next]_vars => CopiesInv'
  BY CopiesStep
<1>3. CopiesInv => RecoveryKept
  BY DEF CopiesInv, CopiesKept, RecoveryKept
<1> QED
  BY <1>1, <1>2, <1>3, TypeSafety, PTL DEF Spec

-----------------------------------------------------------------------------
(* What is published is the candidate that was saved and judged.           *)

CandidateKept(t) ==
    /\ pc[t] \in {"saved", "judged", "publishing"} =>
          cand[t] = after[t] /\ \A f \in Files \ Permitted : after[t][f] = before[t][f]
    /\ pc[t] \in {"judged", "publishing"} => judged[t] = after[t]
    /\ pc[t] = "publishing" =>
          /\ \A f \in todo[t] : after[t][f] # before[t][f]
          /\ checked[t] \in todo[t] \cup {NoFile}
    /\ pc[t] \notin Writing => checked[t] = NoFile

CandidateInv == \A t \in Txns : CandidateKept(t)

LEMMA CandidateStep == TypeOK /\ CandidateInv /\ [Next]_vars => CandidateInv'
<1> SUFFICES ASSUME TypeOK, CandidateInv, [Next]_vars, NEW t \in Txns PROVE CandidateKept(t)'
  BY DEF CandidateInv
<1> USE TypeParts DEF CandidateInv, Writing
<1>1. CASE Prepare(t)
  BY <1>1 DEF Prepare, Plan, Validate, TakeLock, Revalidate, CopyInputs, Go, txnVars,
     PlaceType, CandidateKept
<1>2. CASE SaveCandidate(t)
  BY <1>2 DEF SaveCandidate, Go, PlaceType, CopyType, CandidateKept
<1>3. CASE RunValidator(t)
  BY <1>3 DEF RunValidator, Go, PlaceType, CopyType, CandidateKept
<1>4. CASE FinalCheck(t)
  BY <1>4 DEF FinalCheck, Go, PlaceType, MarkType, CandidateKept
<1>5. ASSUME NEW f \in Files, Recheck(t, f) \/ RollbackCheck(t, f) PROVE CandidateKept(t)'
  BY <1>5 DEF Recheck, RollbackCheck, StartRollback, Go, PlaceType, MarkType, CandidateKept
<1>6. CASE Replace(t)
  BY <1>6 DEF Replace, MarkType, CandidateKept
<1>7. CASE ReplaceFails(t) \/ RestoreBegin(t) \/ RestoreEnd(t) \/ RollbackEnds(t) \/ WriteReceipt(t)
  BY <1>7 DEF ReplaceFails, RestoreBegin, RestoreEnd, RollbackEnds, WriteReceipt, StartRollback, Forget, Go,
     txnVars, PlaceType, MarkType, CandidateKept
<1>8. CASE Leaving(t)
  BY <1>8 DEF Leaving, Fail, Interrupt, Unlock, Cleanup, Crash, Forget, Go, txnVars, Critical,
     PlaceType, MarkType, CandidateKept
<1>9. CASE ~(Prepare(t) \/ Judgement(t) \/ Publication(t) \/ Leaving(t))
  BY <1>9, Frame DEF Same, CandidateKept
<1> QED
  BY <1>1, <1>2, <1>3, <1>4, <1>5, <1>6, <1>7, <1>8, <1>9 DEF Judgement, Publication

\* Only Replace adds to what is published.
LEMMA OnlyReplacePublishes ==
  ASSUME TypeOK, [Next]_vars, NEW t \in Txns, NEW f \in published'[t] \ published[t]
  PROVE  Replace(t) /\ f = checked[t]
<1> USE TypeParts
<1>1. CASE Prepare(t) \/ Judgement(t)
  BY <1>1 DEF Prepare, Plan, Validate, TakeLock, Revalidate, CopyInputs, Judgement, SaveCandidate,
     RunValidator, FinalCheck, txnVars
<1>2. CASE Publication(t)
  BY <1>2 DEF Publication, Recheck, RollbackCheck, Replace, ReplaceFails, RestoreBegin, RestoreEnd,
     RollbackEnds, WriteReceipt, txnVars, MarkType
<1>3. CASE Leaving(t)
  BY <1>3 DEF Leaving, Fail, Interrupt, Unlock, Cleanup, Crash, txnVars, MarkType
<1>4. CASE ~(Prepare(t) \/ Judgement(t) \/ Publication(t) \/ Leaving(t))
  BY <1>4, Frame DEF Same
<1> QED
  BY <1>1, <1>2, <1>3, <1>4

\* Only the board and the project are published, and they are what the
\* validator was given (SaveCandidate, RunValidator, _publish).
THEOREM JudgedPublication == Spec => PublishedAsJudged
<1>1. Init => CandidateInv
  BY DEF Init, CandidateInv, CandidateKept, Writing
<1>2. TypeOK /\ CandidateInv /\ [Next]_vars => CandidateInv'
  BY CandidateStep
<1>3. TypeOK /\ CandidateInv /\ [Next]_vars =>
        [\A t \in Txns, f \in Files : f \in published'[t] \ published[t] =>
            f \in Permitted /\ files'[f] = judged[t][f]]_vars
  <2> SUFFICES ASSUME TypeOK, CandidateInv, [Next]_vars,
                      NEW t \in Txns, NEW f \in Files, f \in published'[t] \ published[t]
               PROVE  f \in Permitted /\ files'[f] = judged[t][f]
    OBVIOUS
  <2>1. Replace(t) /\ f = checked[t]
    BY OnlyReplacePublishes
  <2> QED
    BY <2>1, TypeParts DEF Replace, CandidateInv, CandidateKept, SharedType, MarkType, Bytes
<1> QED
  BY <1>1, <1>2, <1>3, TypeSafety, PTL DEF Spec, PublishedAsJudged
-----------------------------------------------------------------------------
(* Lost edits.  Between its comparison of a file and its write of that     *)
(* file, a process is late as soon as another writes the file.             *)

Aware(t) ==
    t \notin late /\ checked[t] # NoFile =>
        /\ pc[t] = "publishing" => files[checked[t]] = before[t][checked[t]]
        /\ pc[t] = "rollback" => files[checked[t]] = after[t][checked[t]]

SchAware(e) ==
    e \notin late /\ spc[e] = "checked" => files[Schematic] = sbefore[e]

AwareInv == (\A t \in Txns : Aware(t)) /\ (\A e \in SchEdits : SchAware(e))

\* Its own steps: it compares before it writes.
LEMMA AwareOwn ==
  ASSUME TypeOK, CandidateInv, AwareInv, NEW t \in Txns,
         Prepare(t) \/ Judgement(t) \/ Publication(t) \/ Leaving(t)
  PROVE  Aware(t)'
<1> USE TypeParts DEF AwareInv, CandidateInv, Writing
<1>1. CASE Prepare(t)
  BY <1>1 DEF Prepare, Plan, Validate, TakeLock, Revalidate, CopyInputs, Go, txnVars,
     PlaceType, Aware
<1>2. CASE Judgement(t)
  BY <1>2 DEF Judgement, SaveCandidate, RunValidator, FinalCheck, Go, PlaceType, CandidateKept, Aware
<1>3. ASSUME NEW f \in Files, Recheck(t, f) \/ RollbackCheck(t, f) PROVE Aware(t)'
  BY <1>3 DEF Recheck, RollbackCheck, StartRollback, Go, NoWrite, PlaceType, MarkType, Aware
<1>4. CASE Replace(t) \/ ReplaceFails(t) \/ RestoreBegin(t) \/ RestoreEnd(t) \/ RollbackEnds(t) \/ WriteReceipt(t)
  BY <1>4 DEF Replace, ReplaceFails, RestoreBegin, RestoreEnd, RollbackEnds, WriteReceipt, Forget,
     StartRollback, Go, txnVars, PlaceType, MarkType, Aware
<1>5. CASE Leaving(t)
  BY <1>5 DEF Leaving, Fail, Interrupt, Unlock, Cleanup, Crash, Forget, Go, txnVars, Critical, Ended,
     PlaceType, MarkType, Aware
<1> QED
  BY <1>1, <1>2, <1>3, <1>4, <1>5 DEF Publication

\* A step of a transaction, as a schematic edit sees it.
LEMMA SchFrame ==
  ASSUME TypeOK, NEW e \in SchEdits, NEW t \in Txns,
         Prepare(t) \/ Judgement(t) \/ Publication(t) \/ Leaving(t)
  PROVE  /\ spc' = spc /\ sbefore' = sbefore
         /\ e \notin late' => e \notin late /\ (spc[e] = "checked" => files'[Schematic] = files[Schematic])
<1> USE TypeParts, ProcessAssumption
<1>0. t # e /\ e \notin Txns /\ Schematic \in Files
  BY DEF Files
<1>1. CASE Prepare(t) \/ Judgement(t)
  BY <1>1 DEF Prepare, Plan, Validate, TakeLock, Revalidate, CopyInputs, Judgement, SaveCandidate,
     RunValidator, FinalCheck, NoWrite, schVars
<1>5. CASE Leaving(t)
  <2>1. spc' = spc /\ sbefore' = sbefore /\ files' = files
    BY <1>5 DEF Leaving, Fail, Interrupt, Unlock, Cleanup, Crash, NoWrite, schVars
  <2>2. late' = late \/ late' = late \ {t}
    BY <1>5 DEF Leaving, Fail, Interrupt, Unlock, Cleanup, Crash, Forget, NoWrite
  <2> QED
    BY <1>0, <2>1, <2>2
<1>2. ASSUME NEW f \in Files, Recheck(t, f) \/ RollbackCheck(t, f)
      PROVE  spc' = spc /\ sbefore' = sbefore /\ late' = late /\ files' = files
  BY <1>2 DEF Recheck, RollbackCheck, NoWrite, schVars
<1>3. CASE ReplaceFails(t) \/ RollbackEnds(t) \/ WriteReceipt(t)
  BY <1>0, <1>3 DEF ReplaceFails, RollbackEnds, WriteReceipt, Forget, NoWrite, schVars
<1>4. CASE Replace(t) \/ RestoreBegin(t) \/ RestoreEnd(t)
  BY <1>0, <1>4 DEF Replace, RestoreBegin, RestoreEnd, Wrote, Holds, schVars, SharedType, Bytes
<1> QED
  BY <1>1, <1>2, <1>3, <1>4, <1>5 DEF Publication

LEMMA SchAwareStep ==
  ASSUME TypeOK, AwareInv, [Next]_vars, NEW e \in SchEdits
  PROVE  SchAware(e)'
<1> USE TypeParts, ProcessAssumption DEF AwareInv
<1>1. ASSUME NEW t \in Txns, Prepare(t) \/ Judgement(t) \/ Publication(t) \/ Leaving(t)
      PROVE  SchAware(e)'
  BY <1>1, SchFrame DEF SchAware
<1>2. ASSUME NEW d \in SchEdits, SchRead(d) \/ SchVerify(d) \/ SchRecheck(d) PROVE SchAware(e)'
  BY <1>2 DEF SchRead, SchVerify, SchRecheck, NoWrite, PlaceType, SchAware
<1>3. ASSUME NEW d \in SchEdits, SchReplace(d) PROVE SchAware(e)'
  BY <1>3 DEF SchReplace, Wrote, Holds, PlaceType, SchAware
<1>4. CASE EditorOpen \/ EditorClose \/ UNCHANGED vars
  BY <1>4 DEF EditorOpen, EditorClose, NoWrite, vars, schVars, SchAware
<1>5. ASSUME NEW f \in Files, NEW c \in Content, OutsideWrite(f, c) PROVE SchAware(e)'
  BY <1>5 DEF OutsideWrite, Wrote, Holds, schVars, SharedType, Bytes, Files, SchAware
<1> QED
  BY <1>1, <1>2, <1>3, <1>4, <1>5, Parts DEF Others, SchNext

LEMMA AwareStep == TypeOK /\ CandidateInv /\ AwareInv /\ [Next]_vars => AwareInv'
<1> SUFFICES ASSUME TypeOK, CandidateInv, AwareInv, [Next]_vars PROVE AwareInv'
  OBVIOUS
<1>1. ASSUME NEW t \in Txns PROVE Aware(t)'
  <2>1. CASE Prepare(t) \/ Judgement(t) \/ Publication(t) \/ Leaving(t)
    BY <2>1, AwareOwn
  <2>2. CASE ~(Prepare(t) \/ Judgement(t) \/ Publication(t) \/ Leaving(t))
    BY <2>2, Frame DEF Same, Noticed, Aware, AwareInv
  <2> QED
    BY <2>1, <2>2
<1>2. ASSUME NEW e \in SchEdits PROVE SchAware(e)'
  BY SchAwareStep
<1> QED
  BY <1>1, <1>2 DEF AwareInv

LEMMA OnlyRestoreTears ==
  ASSUME TypeOK, [Next]_vars, NEW t \in Txns, pc[t] = "rollback", pc'[t] = "restoring"
  PROVE  RestoreBegin(t)
<1> USE TypeParts
<1>1. CASE Prepare(t) \/ Judgement(t)
  BY <1>1 DEF Prepare, Plan, Validate, TakeLock, Revalidate, CopyInputs, Judgement, SaveCandidate,
     RunValidator, FinalCheck
<1>2. CASE Publication(t)
  BY <1>2 DEF Publication, Recheck, RollbackCheck, Replace, ReplaceFails, RestoreEnd,
     RollbackEnds, WriteReceipt, Go, PlaceType
<1>3. CASE Leaving(t)
  BY <1>3 DEF Leaving, Fail, Interrupt, Unlock, Cleanup, Crash, Go, PlaceType
<1>4. CASE ~(Prepare(t) \/ Judgement(t) \/ Publication(t) \/ Leaving(t))
  BY <1>4, Frame DEF Same
<1> QED
  BY <1>1, <1>2, <1>3, <1>4

\* Bytes nobody looked at are only ever replaced when they came between the
\* last comparison of the file and the write (_publish, apply).
THEOREM EditsKept == Spec => NoLostEdit
<1> DEFINE Kept ==
      /\ \A t \in Txns, f \in Files :
            checked[t] = f /\ f \in published'[t] \ published[t] =>
                t \in late \/ files[f] = before[t][f]
      /\ \A t \in Txns : pc[t] = "rollback" /\ pc'[t] = "restoring" =>
                t \in late \/ files[checked[t]] = after[t][checked[t]]
      /\ \A e \in SchEdits : spc[e] = "checked" /\ spc'[e] = "done" =>
                e \in late \/ files[Schematic] = sbefore[e]
<1>1. Init => CandidateInv /\ AwareInv
  BY DEF Init, CandidateInv, CandidateKept, Writing, AwareInv, Aware, SchAware
<1>2. TypeOK /\ CandidateInv /\ AwareInv /\ [Next]_vars => CandidateInv' /\ AwareInv'
  BY CandidateStep, AwareStep
<1>3. TypeOK /\ AwareInv /\ [Next]_vars => [Kept]_vars
  <2> SUFFICES ASSUME TypeOK, AwareInv, [Next]_vars PROVE Kept
    OBVIOUS
  <2>1. ASSUME NEW t \in Txns, NEW f \in Files, checked[t] = f, f \in published'[t] \ published[t]
        PROVE  t \in late \/ files[f] = before[t][f]
    <3>1. Replace(t)
      BY <2>1, OnlyReplacePublishes
    <3> QED
      BY <2>1, <3>1 DEF Replace, AwareInv, Aware
  <2>2. ASSUME NEW t \in Txns, pc[t] = "rollback", pc'[t] = "restoring"
        PROVE  t \in late \/ files[checked[t]] = after[t][checked[t]]
    <3>1. RestoreBegin(t)
      BY <2>2, OnlyRestoreTears
    <3> QED
      BY <2>2, <3>1 DEF RestoreBegin, AwareInv, Aware
  <2>3. ASSUME NEW e \in SchEdits, spc[e] = "checked"
        PROVE  e \in late \/ files[Schematic] = sbefore[e]
    BY <2>3 DEF AwareInv, SchAware
  <2> QED
    BY <2>1, <2>2, <2>3
<1> QED
  BY <1>1, <1>2, <1>3, TypeSafety, PTL DEF Spec, NoLostEdit

-----------------------------------------------------------------------------
(* Editors.                                                                *)

EditorSeen == \A t \in Txns : editor /\ pc[t] \in Writing => t \in opened

LEMMA EditorStep == TypeOK /\ EditorSeen /\ [Next]_vars => EditorSeen'
<1> SUFFICES ASSUME TypeOK, EditorSeen, [Next]_vars, NEW t \in Txns, editor', pc'[t] \in Writing
             PROVE  t \in opened'
  BY DEF EditorSeen, Writing
<1> USE TypeParts DEF EditorSeen, Writing
<1>1. ASSUME NEW u \in Txns, Prepare(u) \/ Judgement(u) \/ Publication(u) \/ Leaving(u)
      PROVE  editor' = editor /\ opened' = opened
  BY <1>1 DEF Prepare, Plan, Validate, TakeLock, Revalidate, CopyInputs, Judgement, SaveCandidate,
     RunValidator, FinalCheck, Publication, Recheck, RollbackCheck, Replace, ReplaceFails, RestoreBegin,
     RestoreEnd, RollbackEnds, WriteReceipt, Leaving, Fail, Interrupt, Unlock, Cleanup, Crash
<1>2. CASE Prepare(t) \/ Judgement(t)
  BY <1>1, <1>2 DEF Prepare, Plan, Validate, TakeLock, Revalidate, CopyInputs, Judgement, SaveCandidate,
     RunValidator, FinalCheck, Fresh, Go, PlaceType
<1>3. CASE Publication(t)
  BY <1>1, <1>3 DEF Publication, Recheck, RollbackCheck, Replace, ReplaceFails, RestoreBegin, RestoreEnd,
     RollbackEnds, WriteReceipt
<1>4. CASE Leaving(t)
  BY <1>1, <1>4 DEF Leaving, Fail, Interrupt, Unlock, Cleanup, Crash, Go, PlaceType
<1>5. CASE ~(Prepare(t) \/ Judgement(t) \/ Publication(t) \/ Leaving(t))
  <2>1. pc[t] \in Writing
    BY <1>5, Frame DEF Same
  <2>2. CASE Others
    BY <2>1, <2>2 DEF Others, SchNext, SchRead, SchVerify, SchRecheck, SchReplace,
       EditorOpen, EditorClose, OutsideWrite
  <2>3. CASE UNCHANGED vars
    BY <2>1, <2>3 DEF vars
  <2> QED
    BY <1>1, <1>5, <2>1, <2>2, <2>3, Parts
<1> QED
  BY <1>2, <1>3, <1>4, <1>5

\* Who writes a file and changes its list of published files at once is in the
\* midst of publishing or of restoring.
LEMMA WritesWhileWriting ==
  ASSUME TypeOK, [Next]_vars, NEW t \in Txns, published'[t] # published[t], files' # files
  PROVE  pc[t] \in Writing
<1> USE TypeParts DEF Writing
<1>1. CASE Prepare(t) \/ Judgement(t)
  BY <1>1 DEF Prepare, Plan, Validate, TakeLock, Revalidate, CopyInputs, Judgement, SaveCandidate,
     RunValidator, FinalCheck, NoWrite
<1>2. CASE Publication(t)
  BY <1>2 DEF Publication, Recheck, RollbackCheck, Replace, ReplaceFails, RestoreBegin, RestoreEnd,
     RollbackEnds, WriteReceipt
<1>3. CASE Leaving(t)
  BY <1>3 DEF Leaving, Fail, Interrupt, Unlock, Cleanup, Crash, NoWrite
<1>4. CASE ~(Prepare(t) \/ Judgement(t) \/ Publication(t) \/ Leaving(t))
  BY <1>4, Frame DEF Same
<1> QED
  BY <1>1, <1>2, <1>3, <1>4

\* An editor that was open at the final check has no file changed under it
\* (_check_editor_locks in _publish).
THEOREM EditorsKept == Spec => EditorUndisturbed
<1>1. Init => EditorSeen
  BY DEF Init, EditorSeen
<1>2. TypeOK /\ EditorSeen /\ [Next]_vars => EditorSeen'
  BY EditorStep
<1>3. TypeOK /\ EditorSeen /\ [Next]_vars =>
        [\A t \in Txns : editor /\ published'[t] # published[t] /\ files' # files => t \in opened]_vars
  BY WritesWhileWriting DEF EditorSeen
<1> QED
  BY <1>1, <1>2, <1>3, TypeSafety, PTL DEF Spec, EditorUndisturbed
-----------------------------------------------------------------------------
(* All or nothing.  While a transaction is alone, each file is as it was   *)
(* or as it is announced, by whether it was published; what is still to be *)
(* done is what is not published yet, or what is not given back yet.       *)

Mixed(t) ==
    \A f \in Files : files[f] = IF f \in published[t] THEN after[t][f] ELSE before[t][f]

Alone(t) ==
    /\ pc[t] \in Early => t \in disturbed
    /\ t \notin disturbed =>
          /\ pc[t] = "publishing" =>
                /\ Mixed(t)
                /\ \A f \in Files : after[t][f] # before[t][f] => f \in todo[t] \cup published[t]
          /\ pc[t] = "rollback" => Mixed(t) /\ published[t] \subseteq todo[t]
          /\ pc[t] = "restoring" =>
                /\ \A f \in Files \ {checked[t]} :
                      files[f] = IF f \in published[t] THEN after[t][f] ELSE before[t][f]
                /\ published[t] \subseteq todo[t]
          /\ pc[t] = "unwind" =>
                /\ files = before[t] \/ files = after[t]
                /\ receipt[t] => files = after[t]

AloneInv == \A t \in Txns : Alone(t)

\* Files that are all of one function are that function.
LEMMA SameBytes ==
  ASSUME NEW g \in Bytes, NEW h \in Bytes, \A f \in Files : g[f] = h[f]
  PROVE  g = h
  BY DEF Bytes

LEMMA AlonePublish ==
  ASSUME TypeOK, CopiesInv, CandidateInv, AloneInv, NEW t \in Txns, Publication(t)
  PROVE  Alone(t)'
<1> USE TypeParts DEF CopiesInv, CandidateInv, AloneInv, Early, Writing
<1>1. ASSUME NEW f \in Files, Recheck(t, f) PROVE Alone(t)'
  BY <1>1 DEF Recheck, StartRollback, Go, NoWrite, PlaceType, MarkType, Mixed, Alone
<1>2. ASSUME NEW f \in Files, RollbackCheck(t, f) PROVE Alone(t)'
  BY <1>2 DEF RollbackCheck, NoWrite, PlaceType, MarkType, Mixed, Alone
<1>3. CASE Replace(t)
  <2> DEFINE f == checked[t]
  <2>1. /\ pc[t] = "publishing" /\ f \in Files /\ f \in todo[t]
        /\ cand[t] = after[t]
        /\ files' = [files EXCEPT ![f] = after[t][f]]
        /\ published' = [published EXCEPT ![t] = @ \cup {f}]
        /\ todo' = [todo EXCEPT ![t] = @ \ {f}]
        /\ pc' = pc /\ after' = after /\ before' = before /\ disturbed' = disturbed \cup (Txns \ {t})
    BY <1>3 DEF Replace, Wrote, MarkType, CandidateKept
  <2> HIDE DEF f
  <2>2. CASE t \in disturbed
    BY <2>1, <2>2 DEF Alone
  <2>3. CASE t \notin disturbed
    <3>1. Mixed(t) /\ \A g \in Files : after[t][g] # before[t][g] => g \in todo[t] \cup published[t]
      BY <2>1, <2>3 DEF Alone
    <3>2. Mixed(t)'
      BY <2>1, <3>1 DEF Mixed, SharedType, MarkType, Bytes
    <3>3. \A g \in Files : after'[t][g] # before'[t][g] => g \in todo'[t] \cup published'[t]
      BY <2>1, <3>1 DEF MarkType
    <3> QED
      BY <2>1, <3>2, <3>3 DEF Alone
  <2> QED
    BY <2>2, <2>3
<1>4. CASE ReplaceFails(t)
  BY <1>4 DEF ReplaceFails, StartRollback, Forget, Go, PlaceType, MarkType, Mixed, Alone
<1>5. CASE RestoreBegin(t)
  BY <1>5 DEF RestoreBegin, Wrote, Go, txnVars, PlaceType, SharedType, MarkType, Bytes, Mixed, Alone
<1>6. CASE RestoreEnd(t)
  <2> DEFINE f == checked[t]
  <2>1. /\ pc[t] = "restoring" /\ pc'[t] = "rollback" /\ recov[t] = before[t]
        /\ files' = [files EXCEPT ![f] = before[t][f]]
        /\ published' = [published EXCEPT ![t] = @ \ {f}]
        /\ todo' = [todo EXCEPT ![t] = @ \ {f}]
        /\ after' = after /\ before' = before /\ disturbed' = disturbed \cup (Txns \ {t})
    BY <1>6 DEF RestoreEnd, Wrote, Go, PlaceType, CopiesKept
  <2> HIDE DEF f
  <2>2. CASE t \in disturbed
    BY <2>1, <2>2 DEF Alone
  <2>3. CASE t \notin disturbed
    <3>1. /\ \A g \in Files \ {f} : files[g] = IF g \in published[t] THEN after[t][g] ELSE before[t][g]
          /\ published[t] \subseteq todo[t]
      BY <2>1, <2>3 DEF Alone, f
    <3>2. Mixed(t)'
      BY <2>1, <3>1 DEF Mixed, SharedType, MarkType, Bytes
    <3>3. published'[t] \subseteq todo'[t]
      BY <2>1, <3>1 DEF MarkType
    <3> QED
      BY <2>1, <3>2, <3>3 DEF Alone
  <2> QED
    BY <2>2, <2>3
<1>7. CASE RollbackEnds(t)
  <2>1. t \notin disturbed => files = before[t]
    BY <1>7, SameBytes DEF RollbackEnds, SharedType, CopyType, MarkType, Mixed, Alone
  <2>2. ~receipt[t]
    BY <1>7 DEF RollbackEnds, CopiesKept
  <2> QED
    BY <1>7, <2>1, <2>2 DEF RollbackEnds, NoWrite, Go, txnVars, PlaceType, Alone
<1>8. CASE WriteReceipt(t)
  <2>1. t \notin disturbed => files = after[t]
    BY <1>8, SameBytes DEF WriteReceipt, SharedType, CopyType, MarkType, Mixed, Alone
  <2> QED
    BY <1>8, <2>1 DEF WriteReceipt, NoWrite, Go, PlaceType, MarkType, Alone
<1> QED
  BY <1>1, <1>2, <1>3, <1>4, <1>5, <1>6, <1>7, <1>8 DEF Publication

LEMMA AloneStep ==
  TypeOK /\ CopiesInv /\ CandidateInv /\ AloneInv /\ [Next]_vars => AloneInv'
<1> SUFFICES ASSUME TypeOK, CopiesInv, CandidateInv, AloneInv, [Next]_vars, NEW t \in Txns
             PROVE  Alone(t)'
  BY DEF AloneInv
<1> USE TypeParts DEF Early, Writing
<1>1. CASE Prepare(t)
  BY <1>1 DEF Prepare, Plan, Validate, TakeLock, Revalidate, CopyInputs, Go, NoWrite, txnVars,
     PlaceType, AloneInv, Alone
<1>2. CASE SaveCandidate(t)
  BY <1>2 DEF SaveCandidate, Go, NoWrite, PlaceType, AloneInv, Alone
<1>3. CASE RunValidator(t)
  BY <1>3 DEF RunValidator, Go, NoWrite, PlaceType, AloneInv, Alone
<1>4. CASE FinalCheck(t)
  BY <1>4 DEF FinalCheck, Fresh, Go, PlaceType, MarkType, CopiesInv, CopiesKept, AloneInv, Mixed, Alone
<1>5. CASE Publication(t)
  BY <1>5, AlonePublish
<1>6. CASE Leaving(t)
  BY <1>6 DEF Leaving, Fail, Interrupt, Unlock, Cleanup, Crash, Forget, Go, NoWrite, txnVars, Critical, Ended,
     PlaceType, AloneInv, Alone
<1>7. CASE ~(Prepare(t) \/ Judgement(t) \/ Publication(t) \/ Leaving(t))
  <2>1. Same(t) /\ Noticed(t) /\ (t \in disturbed => t \in disturbed')
    <3>1. Same(t) /\ Noticed(t)
      BY <1>7, Frame
    <3>2. ASSUME NEW u \in Txns, u # t, Prepare(u) \/ Judgement(u) PROVE disturbed' = disturbed \/ disturbed' = disturbed \ {u}
      BY <3>2 DEF Prepare, Plan, Validate, TakeLock, Revalidate, CopyInputs, Judgement, SaveCandidate,
         RunValidator, FinalCheck, NoWrite
    <3>3. ASSUME NEW u \in Txns, Publication(u) \/ Leaving(u) PROVE disturbed \subseteq disturbed'
      BY <3>3 DEF Publication, Recheck, RollbackCheck, Replace, ReplaceFails, RestoreBegin, RestoreEnd,
         RollbackEnds, WriteReceipt, Leaving, Fail, Interrupt, Unlock, Cleanup, Crash, NoWrite, Wrote
    <3>4. ASSUME Others \/ UNCHANGED vars PROVE disturbed \subseteq disturbed'
      BY <3>4 DEF Others, SchNext, SchRead, SchVerify, SchRecheck, SchReplace, EditorOpen, EditorClose,
         OutsideWrite, NoWrite, Wrote, vars
    <3> QED
      BY <1>7, <3>1, <3>2, <3>3, <3>4, Parts
  <2> QED
    BY <2>1 DEF Same, Noticed, AloneInv, Mixed, Alone
<1> QED
  BY <1>1, <1>2, <1>3, <1>4, <1>5, <1>6, <1>7 DEF Judgement

\* A transaction that nobody disturbs leaves all of the project as it was or all
\* of it as announced, and in the latter way if it has its receipt: file by
\* file, with a rollback, publication is one step (_publish).
THEOREM Atomicity == Spec => []AllOrNothing
<1>1. Init => CopiesInv /\ CandidateInv /\ AloneInv
  BY DEF Init, CopiesInv, CopiesKept, CandidateInv, CandidateKept, AloneInv, Alone, Early, Writing
<1>2. TypeOK /\ CopiesInv /\ CandidateInv /\ AloneInv /\ [Next]_vars
        => CopiesInv' /\ CandidateInv' /\ AloneInv'
  BY CopiesStep, CandidateStep, AloneStep
<1>3. AloneInv => AllOrNothing
  BY DEF AloneInv, Alone, AllOrNothing
<1> QED
  BY <1>1, <1>2, <1>3, TypeSafety, PTL DEF Spec
-----------------------------------------------------------------------------
\* The lock excludes and the recovery copies recover, in a well-typed state.
THEOREM Protection == Spec => []Protected
  BY TypeSafety, MutualExclusion, Recovery, PTL DEF Protected
=============================================================================
