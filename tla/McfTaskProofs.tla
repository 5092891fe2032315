---------------------------- MODULE McfTaskProofs ----------------------------
(***************************************************************************)
(* Theorems about McfTask for any candidates, any registers that ignore    *)
(* writes, any raw writes, ceilings and slices: what the task publishes is *)
(* true of the registers.  They are about a bus on which a write that is   *)
(* reported failed was not performed (FailuresLand is FALSE).              *)
(***************************************************************************)
EXTENDS McfTask, SequenceTheorems, TLAPS

-----------------------------------------------------------------------------
(* The inductive invariant.                                                *)

Changing == {"Put", "Ensure"}

Busy == at \in {"Working", "Verdict"}

JobInStep ==
  /\ job = NoAccess <=> ~Busy
  /\ ~Busy => outcome = "Nothing" /\ ~written /\ todo = <<>>
  /\ at = "Verdict" => todo = <<>> /\ outcome # "Nothing"
  /\ at = "Verdict" /\ outcome = "Tuning" /\ job.op = "Tune" => candidate \in {"-", job.arg}
  /\ outcome = "Tuning" => job.op \in {"Tune", "Check"}
  /\ outcome = "Nothing" => ~Writing(job) \/ (job.op = "Write" /\ ~written /\ todo = <<>>)
  /\ job.op = "Sentinel" => ~Permits(outcome)

TodoInStep ==
  /\ ~Writing(job) => ~written /\ \A i \in DOMAIN todo : todo[i].do \notin Changing
  /\ \A i \in DOMAIN todo : todo[i].do = "Put" => i = 1 /\ ~written /\ job.op = "Write"
  /\ \A i \in DOMAIN todo : todo[i].do \in Changing => todo[i].reg \in Register /\ todo[i].word \in Word

AskedInStep ==
  /\ at \in {"SetLimit", "EndLimit"} =>
       /\ verdict \in {"Provisional", "Unverified"} /\ asked \in CurrentProfile
       /\ profile = "Acquisition" /\ Limit(asked) # "golden" => ~ready
  /\ at = "SetSpeed" => asked \in SpeedWord

Target ==
  CASE outcome = "Provisional" -> BenchImage
    [] outcome = "Tuning" -> CandidateImage(IF job.op = "Tune" THEN job.arg ELSE candidate)
    [] OTHER -> GoldenImage

\* What a register holds has been compared, or will be, after the last write.
Ahead(s, r, word) ==
  \E i \in DOMAIN s :
    /\ s[i] = [do |-> "Compare", reg |-> r, word |-> word]
    /\ \A j \in DOMAIN s : i < j => s[j].do \notin Changing

Behind(s, r, word) == shadow[r] = word /\ \A i \in DOMAIN s : s[i].do \notin Changing

CheckInStep ==
  /\ Busy /\ Permits(outcome) /\ "during" \notin unsure
  /\ outcome = "Tuning" /\ job.op # "Tune" => candidate # "-"
  => \A r \in Register : Ahead(todo, r, Target[r]) \/ Behind(todo, r, Target[r])

Clean == unsure = {} /\ (~Writing(job) \/ (job.op = "Write" /\ ~written))

ImageStands ==
  Permits(verdict) /\ Clean /\ (verdict = "Tuning" => candidate # "-") =>
    \A r \in Register : shadow[r] = Image(verdict)[r] \/ (verdict = "Provisional" /\ r = "limit")

LimitStands ==
  verdict = "Provisional" /\ Clean =>
    /\ shadow["limit"] \in {"golden", "settling"}
    /\ \/ at # "EndLimit" /\ lastProfile # "-" /\ Limit(lastProfile) = "golden"
       \/ at = "EndLimit" /\ Limit(asked) = "golden"
       \/ ready /\ profile = "Acquisition"
       => shadow["limit"] = "golden"

IInv == JobInStep /\ TodoInStep /\ AskedInStep /\ CheckInStep /\ ImageStands /\ LimitStands

\* A loss that stood when the cycle began outlives the sentinel's turn only
\* under a job that ends with a verdict of its own.
LossInStep ==
  /\ slice = 0 => at \notin {"Speed", "SetSpeed", "Sleep"}
  /\ "lost" \in unsure /\ job.op = "Sentinel" /\ outcome = "Nothing" =>
       \/ shadow["ceiling"] = "golden"
       \/ todo # <<>> /\ todo[1] = [do |-> "Compare", reg |-> "ceiling", word |-> "golden"]
  /\ "lost" \in unsure /\ slice # 0 /\ Lost =>
       Busy /\ Writing(job) /\ written /\ outcome # "Nothing"

\* The override is not what the task takes for withdrawn.
SpeedInStep == lastSpeed = "Pin" => override = "Pin"

-----------------------------------------------------------------------------
(* Plans: what the operations leave to do, register access by access.      *)

StepsOf(s) == {s[i] : i \in DOMAIN s}

LEMMA JoinedSteps ==
  ASSUME NEW s \in Seq(BusStep), NEW t \in Seq(BusStep)
  PROVE  s \o t \in Seq(BusStep) /\ StepsOf(s \o t) = StepsOf(s) \cup StepsOf(t)
<1>1. Len(s) \in Nat /\ Len(t) \in Nat /\ DOMAIN s = 1..Len(s) /\ DOMAIN t = 1..Len(t)
  OBVIOUS
<1>2. DOMAIN (s \o t) = 1..(Len(s) + Len(t))
  OBVIOUS
<1>3. \A i \in 1..Len(s) : (s \o t)[i] = s[i]
  OBVIOUS
<1>4. \A i \in 1..Len(t) : (s \o t)[Len(s) + i] = t[i]
  OBVIOUS
<1>5. StepsOf(s \o t) \subseteq StepsOf(s) \cup StepsOf(t)
  <2> SUFFICES ASSUME NEW i \in DOMAIN (s \o t)
               PROVE  (s \o t)[i] \in StepsOf(s) \cup StepsOf(t)
    BY DEF StepsOf
  <2>1. CASE i \in 1..Len(s)
    BY <2>1, <1>1, <1>3 DEF StepsOf
  <2>2. CASE i \notin 1..Len(s)
    <3>1. i - Len(s) \in 1..Len(t) /\ i = Len(s) + (i - Len(s))
      BY <2>2, <1>1, <1>2
    <3> QED
      BY <3>1, <1>1, <1>4 DEF StepsOf
  <2> QED
    BY <2>1, <2>2
<1>6. StepsOf(s) \cup StepsOf(t) \subseteq StepsOf(s \o t)
  <2>1. \A i \in 1..Len(s) : s[i] \in StepsOf(s \o t)
    BY <1>1, <1>2, <1>3 DEF StepsOf
  <2>2. \A i \in 1..Len(t) : t[i] \in StepsOf(s \o t)
    <3> SUFFICES ASSUME NEW i \in 1..Len(t) PROVE t[i] \in StepsOf(s \o t)
      OBVIOUS
    <3>1. Len(s) + i \in DOMAIN (s \o t)
      BY <1>1, <1>2
    <3> QED
      BY <3>1, <1>4 DEF StepsOf
  <2> QED
    BY <2>1, <2>2, <1>1 DEF StepsOf
<1> QED
  BY <1>5, <1>6

LEMMA JoinedAt ==
  ASSUME NEW s \in Seq(BusStep), NEW t \in Seq(BusStep)
  PROVE  /\ Len(s) \in Nat /\ Len(t) \in Nat /\ Len(s \o t) = Len(s) + Len(t)
         /\ \A i \in 1..Len(t) : (s \o t)[Len(s) + i] = t[i]
OBVIOUS

LEMMA OneStep ==
  ASSUME NEW step \in BusStep
  PROVE  <<step>> \in Seq(BusStep) /\ StepsOf(<<step>>) = {step} /\ Len(<<step>>) = 1
BY DEF StepsOf

LEMMA BareStep ==
  ASSUME NEW do \in {"Status", "Commit", "Confirm"}
  PROVE  /\ Bare(do) \in Seq(BusStep) /\ Len(Bare(do)) = 1
         /\ \A step \in StepsOf(Bare(do)) : step.do = do
<1>1. [do |-> do, reg |-> "-", word |-> "-"] \in BusStep
  BY DEF BusStep
<1> QED
  BY <1>1, OneStep DEF Bare

LEMMA EachStep ==
  ASSUME NEW do \in {"Compare", "Ensure"}, NEW image \in [Register -> Word]
  PROVE  /\ Each(do, image) \in Seq(BusStep) /\ Len(Each(do, image)) = 4
         /\ \A i \in 1..4 : Each(do, image)[i] =
              [do |-> do, reg |-> RegisterOrder[i], word |-> image[RegisterOrder[i]]]
         /\ \A step \in StepsOf(Each(do, image)) :
              step.do = do /\ step.reg \in Register /\ step.word \in Word
<1>1. DOMAIN RegisterOrder = 1..4 /\ \A i \in 1..4 : RegisterOrder[i] \in Register
  BY DEF RegisterOrder, Register
<1>2. \A i \in 1..4 : /\ image[RegisterOrder[i]] \in Word
                      /\ [do |-> do, reg |-> RegisterOrder[i], word |-> image[RegisterOrder[i]]] \in BusStep
  BY <1>1 DEF BusStep
<1>3. Each(do, image) = [i \in 1..4 |->
        [do |-> do, reg |-> RegisterOrder[i], word |-> image[RegisterOrder[i]]]]
  BY <1>1 DEF Each
<1>4. Each(do, image) \in [1..4 -> BusStep]
  BY <1>2, <1>3
<1>5. Each(do, image) \in Seq(BusStep) /\ Len(Each(do, image)) = 4
  <2>1. 4 \in Nat /\ Each(do, image) \in UNION {[1..n -> BusStep] : n \in Nat}
    BY <1>4
  <2>2. Each(do, image) \in Seq(BusStep)
    BY <2>1, SeqDef
  <2> QED
    BY <1>4, <2>2, LenProperties
<1> QED
  BY <1>1, <1>2, <1>3, <1>5 DEF StepsOf

LEMMA Images ==
  /\ GoldenImage \in [Register -> Word] /\ BenchImage \in [Register -> Word]
  /\ \A c \in Candidates : CandidateImage(c) \in [Register -> Word]
BY DEF GoldenImage, BenchImage, CandidateImage, Register, Word

LEMMA CheckPlan ==
  ASSUME NEW image \in [Register -> Word]
  PROVE  /\ CheckImage(image) \in Seq(BusStep) /\ Len(CheckImage(image)) = 5
         /\ \A k \in 1..4 : CheckImage(image)[k + 1] =
              [do |-> "Compare", reg |-> RegisterOrder[k], word |-> image[RegisterOrder[k]]]
         /\ \A step \in StepsOf(CheckImage(image)) : step.do \in {"Status", "Compare"}
<1>1. /\ Bare("Status") \in Seq(BusStep) /\ Len(Bare("Status")) = 1
      /\ \A step \in StepsOf(Bare("Status")) : step.do = "Status"
  BY BareStep
<1>2. /\ Each("Compare", image) \in Seq(BusStep) /\ Len(Each("Compare", image)) = 4
      /\ \A i \in 1..4 : Each("Compare", image)[i] =
           [do |-> "Compare", reg |-> RegisterOrder[i], word |-> image[RegisterOrder[i]]]
      /\ \A step \in StepsOf(Each("Compare", image)) : step.do = "Compare"
  BY EachStep
<1>3. /\ CheckImage(image) \in Seq(BusStep)
      /\ StepsOf(CheckImage(image)) = StepsOf(Bare("Status")) \cup StepsOf(Each("Compare", image))
  BY <1>1, <1>2, JoinedSteps DEF CheckImage
<1>4. /\ Len(CheckImage(image)) = 5
      /\ \A k \in 1..4 : CheckImage(image)[k + 1] = Each("Compare", image)[k]
  <2>1. ASSUME NEW s \in Seq(BusStep), Len(s) = 1, NEW t \in Seq(BusStep), Len(t) = 4
        PROVE  Len(s \o t) = 5 /\ \A k \in 1..4 : (s \o t)[k + 1] = t[k]
    <3>1. Len(s \o t) = 5
      <4>1. Len(s \o t) = Len(s) + Len(t)
        BY JoinedAt
      <4>2. Len(s) + Len(t) = 5
        BY <2>1
      <4> QED
        BY <4>1, <4>2
    <3>2. ASSUME NEW k \in 1..4 PROVE (s \o t)[k + 1] = t[k]
      <4>1. k \in 1..Len(t)
        BY <2>1
      <4>3. (s \o t)[Len(s) + k] = t[k]
        BY <4>1, JoinedAt
      <4>2. Len(s) + k = k + 1
        BY <2>1
      <4> QED
        BY <4>2, <4>3
    <3> QED
      BY <3>1, <3>2
  <2> QED
    BY <2>1, <1>1, <1>2 DEF CheckImage
<1> QED
  BY <1>1, <1>2, <1>3, <1>4

\* Whatever comes before it, a closing check compares every register.
LEMMA PlanChecks ==
  ASSUME NEW s \in Seq(BusStep), NEW image \in [Register -> Word]
  PROVE  /\ s \o CheckImage(image) \in Seq(BusStep)
         /\ StepsOf(s \o CheckImage(image)) = StepsOf(s) \cup StepsOf(CheckImage(image))
         /\ \A r \in Register : Ahead(s \o CheckImage(image), r, image[r])
<1> DEFINE plan == s \o CheckImage(image)
<1>1. /\ CheckImage(image) \in Seq(BusStep) /\ Len(CheckImage(image)) = 5
      /\ \A k \in 1..4 : CheckImage(image)[k + 1] =
           [do |-> "Compare", reg |-> RegisterOrder[k], word |-> image[RegisterOrder[k]]]
      /\ \A step \in StepsOf(CheckImage(image)) : step.do \in {"Status", "Compare"}
  BY CheckPlan
<1>2. plan \in Seq(BusStep) /\ StepsOf(plan) = StepsOf(s) \cup StepsOf(CheckImage(image))
  BY <1>1, JoinedSteps
<1>3. Len(s) \in Nat /\ Len(plan) = Len(s) + 5 /\ DOMAIN plan = 1..Len(s) + 5
  <2>1. Len(s) \in Nat /\ Len(plan) = Len(s) + Len(CheckImage(image))
    BY <1>1, JoinedAt
  <2>2. DOMAIN plan = 1..Len(plan)
    BY <1>2
  <2> QED
    BY <2>1, <2>2, <1>1
<1>4. \A i \in 1..Len(s) + 5 : i > Len(s) => plan[i] = CheckImage(image)[i - Len(s)]
  <2>1. ASSUME NEW t \in Seq(BusStep), Len(t) = 5
        PROVE  \A i \in 1..Len(s) + 5 : i > Len(s) => (s \o t)[i] = t[i - Len(s)]
    <3> SUFFICES ASSUME NEW i \in 1..Len(s) + 5, i > Len(s) PROVE (s \o t)[i] = t[i - Len(s)]
      OBVIOUS
    <3>1. i - Len(s) \in 1..Len(t) /\ Len(s) + (i - Len(s)) = i
      BY <2>1
    <3>2. (s \o t)[Len(s) + (i - Len(s))] = t[i - Len(s)]
      BY <3>1
    <3> QED
      BY <3>1, <3>2
  <2> QED
    BY <2>1, <1>1
<1>5. \A i \in 1..5 : CheckImage(image)[i].do \notin Changing
  <2>1. DOMAIN CheckImage(image) = 1..5
    BY <1>1
  <2> QED
    BY <2>1, <1>1 DEF StepsOf, Changing
<1>6. ASSUME NEW r \in Register PROVE Ahead(plan, r, image[r])
  <2>1. PICK k \in 1..4 : RegisterOrder[k] = r
    BY DEF RegisterOrder, Register
  <2>2. Len(s) + k + 1 \in DOMAIN plan /\ Len(s) + k + 1 > Len(s)
    BY <1>3
  <2>3. plan[Len(s) + k + 1] = [do |-> "Compare", reg |-> r, word |-> image[r]]
    <3>1. plan[Len(s) + k + 1] = CheckImage(image)[Len(s) + k + 1 - Len(s)]
      BY <2>2, <1>3, <1>4
    <3>2. Len(s) + k + 1 - Len(s) = k + 1
      BY <1>3
    <3> QED
      BY <3>1, <3>2, <2>1, <1>1
  <2>4. ASSUME NEW j \in DOMAIN plan, Len(s) + k + 1 < j
        PROVE  plan[j].do \notin Changing
    <3>1. j > Len(s) /\ j - Len(s) \in 1..5
      BY <2>4, <1>3
    <3> QED
      BY <3>1, <1>3, <1>4, <1>5
  <2> QED
    BY <2>2, <2>3, <2>4 DEF Ahead
<1> QED
  BY <1>2, <1>6

\* A plan of writes and checks, with nothing put by hand.
Careful(s) ==
  /\ s \in Seq(BusStep)
  /\ \A step \in StepsOf(s) :
       /\ step.do # "Put"
       /\ step.do \in Changing => step.reg \in Register /\ step.word \in Word

LEMMA CarefulParts ==
  /\ Careful(<<>>)
  /\ \A do \in {"Status", "Commit", "Confirm"} : Careful(Bare(do))
  /\ \A do \in {"Compare", "Ensure"}, image \in [Register -> Word] : Careful(Each(do, image))
  /\ \A image \in [Register -> Word] :
       Careful(WriteShadow(image)) /\ Careful(CheckImage(image)) /\ Careful(WriteAndCheck(image))
  /\ \A s, t : Careful(s) /\ Careful(t) => Careful(s \o t)
<1>1. Careful(<<>>)
  BY DEF Careful, StepsOf
<1>2. ASSUME NEW do \in {"Status", "Commit", "Confirm"} PROVE Careful(Bare(do))
  BY BareStep DEF Careful, Changing
<1>3. ASSUME NEW do \in {"Compare", "Ensure"}, NEW image \in [Register -> Word]
      PROVE  Careful(Each(do, image))
  BY EachStep DEF Careful, Changing
<1>4. ASSUME NEW s, NEW t, Careful(s), Careful(t) PROVE Careful(s \o t)
  BY <1>4, JoinedSteps DEF Careful
<1>5. ASSUME NEW image \in [Register -> Word]
      PROVE  Careful(WriteShadow(image)) /\ Careful(CheckImage(image)) /\ Careful(WriteAndCheck(image))
  BY <1>2, <1>3, <1>4 DEF WriteShadow, CheckImage, WriteAndCheck
<1> QED
  BY <1>1, <1>2, <1>3, <1>4, <1>5

\* What the task sets out to do for an access: its words are typed, a raw write
\* is its first step and of nothing else, and a verdict that permits operation
\* comes only after every register was compared with its image.
LEMMA Plans ==
  ASSUME TypeOK, NEW a \in Access, Perform(a), job' = a, UNCHANGED candidate
  PROVE  /\ todo' \in Seq(BusStep)
         /\ outcome' \in {"Provisional", "Tuning", "Verified", "Unverified"}
         /\ a.op \in {"Check", "Stage", "Tune", "Apply", "Write"}
         /\ outcome' = "Tuning" => a.op \in {"Tune", "Check"}
         /\ \A i \in DOMAIN todo' : todo'[i].do = "Put" => i = 1 /\ a.op = "Write"
         /\ \A i \in DOMAIN todo' : todo'[i].do \in Changing =>
              Writing(a) /\ todo'[i].reg \in Register /\ todo'[i].word \in Word
         /\ Permits(outcome') => \A r \in Register : Ahead(todo', r, Target'[r])
<1> USE CarefulParts, Images
<1>0. candidate \in Candidates \cup {"-"} /\ verdict \in ConfigCheck
  BY DEF TypeOK
<1>1. ASSUME NEW s, Careful(s)
      PROVE  /\ s \in Seq(BusStep)
             /\ \A i \in DOMAIN s : /\ s[i].do # "Put"
                                    /\ s[i].do \in Changing => s[i].reg \in Register /\ s[i].word \in Word
  BY <1>1 DEF Careful, StepsOf
<1>2. ASSUME NEW s, Careful(s), NEW image \in [Register -> Word]
      PROVE  /\ Careful(s \o CheckImage(image))
             /\ \A r \in Register : Ahead(s \o CheckImage(image), r, image[r])
  BY <1>2, PlanChecks DEF Careful
<1>3. ASSUME NEW image \in [Register -> Word]
      PROVE  /\ Careful(CheckImage(image))
             /\ \A i \in DOMAIN CheckImage(image) : CheckImage(image)[i].do \notin Changing
             /\ \A r \in Register : Ahead(CheckImage(image), r, image[r])
  <2>1. <<>> \o CheckImage(image) = CheckImage(image)
    BY CheckPlan, ConcatEmptySeq
  <2>2. \A step \in StepsOf(CheckImage(image)) : step.do \notin Changing
    BY CheckPlan DEF Changing
  <2> QED
    BY <2>1, <2>2, <1>2 DEF StepsOf
<1>4. CASE a.op = "Check" /\ CheckStanding
  <2>1. CASE outcome' = "Unverified" /\ todo' = <<>>
    BY <2>1, <1>4 DEF Permits
  <2>2. CASE outcome' = "Provisional" /\ todo' = CheckImage(BenchImage)
    <3>1. Target' = BenchImage
      BY <2>2 DEF Target, BenchImage, GoldenImage, Register
    <3> QED
      BY <2>2, <3>1, <1>4, <1>3, <1>1
  <2>3. CASE outcome' = "Tuning" /\ candidate # "-" /\ todo' = CheckImage(CandidateImage(candidate))
    <3>1. Target' = CandidateImage(candidate)
      BY <2>3, <1>4 DEF Target, CandidateImage, GoldenImage, Register
    <3>2. CandidateImage(candidate) \in [Register -> Word]
      BY <2>3, <1>0
    <3> QED
      BY <2>3, <3>1, <3>2, <1>4, <1>3, <1>1
  <2>4. CASE outcome' = "Verified" /\ todo' = CheckImage(GoldenImage)
    <3>1. Target' = GoldenImage
      BY <2>4 DEF Target, GoldenImage, Register
    <3> QED
      BY <2>4, <3>1, <1>4, <1>3, <1>1
  <2> QED
    BY <1>4, <2>1, <2>2, <2>3, <2>4 DEF CheckStanding
<1>5. CASE a.op = "Stage" /\ Stage
  <2>1. /\ outcome' = "Provisional"
        /\ todo' = WriteShadow(BenchImage) \o CheckImage(BenchImage)
    BY <1>5 DEF Stage, WriteAndCheck
  <2>2. Target' = BenchImage
    BY <2>1 DEF Target, BenchImage, GoldenImage, Register
  <2> QED
    BY <2>1, <2>2, <1>5, <1>2, <1>1 DEF Writing
<1>6. CASE a.op = "Tune" /\ StageCandidate(a.arg)
  <2> DEFINE ensure == <<[do |-> "Ensure", reg |-> "tuned", word |-> a.arg]>>
  <2>1. a.arg \in Candidates
    BY <1>6 DEF Access
  <2>2. Careful(ensure)
    <3>1. [do |-> "Ensure", reg |-> "tuned", word |-> a.arg] \in BusStep
      BY <2>1 DEF BusStep, Register, Word
    <3> QED
      BY <2>1, <3>1, OneStep DEF Careful, Register, Word
  <2>3. /\ outcome' = "Tuning"
        /\ todo' = WriteAndCheck(GoldenImage) \o ensure \o CheckImage(CandidateImage(a.arg))
    BY <1>6 DEF StageCandidate
  <2>4. Target' = CandidateImage(a.arg)
    BY <2>3, <1>6 DEF Target, CandidateImage, GoldenImage, Register
  <2>5. Careful(WriteAndCheck(GoldenImage) \o ensure) /\ CandidateImage(a.arg) \in [Register -> Word]
    BY <2>1, <2>2
  <2> HIDE DEF ensure
  <2> QED
    BY <2>3, <2>4, <2>5, <1>6, <1>2, <1>1 DEF Writing
<1>7. CASE a.op = "Apply" /\ Apply
  <2>1. /\ outcome' = "Verified"
        /\ todo' = WriteShadow(GoldenImage) \o Bare("Commit") \o Bare("Confirm") \o CheckImage(GoldenImage)
    BY <1>7 DEF Apply
  <2>2. Target' = GoldenImage
    BY <2>1 DEF Target, GoldenImage, Register
  <2>3. Careful(WriteShadow(GoldenImage) \o Bare("Commit") \o Bare("Confirm"))
    OBVIOUS
  <2> QED
    BY <2>1, <2>2, <2>3, <1>7, <1>2, <1>1 DEF Writing
<1>8. CASE a.op = "Write" /\ WriteAndRecheck(a.arg)
  <2> DEFINE put == <<[do |-> "Put", reg |-> a.arg, word |-> "factory"]>>
  <2>1. a.arg \in Register
    BY <1>8, McfAssumption DEF Access, Register
  <2>2. put \in Seq(BusStep) /\ Len(put) = 1 /\ put[1] = [do |-> "Put", reg |-> a.arg, word |-> "factory"]
    BY <2>1 DEF BusStep, Word
  <2>3. outcome' = "Verified" /\ todo' = put \o CheckImage(GoldenImage)
    BY <1>8 DEF WriteAndRecheck
  <2>4. Target' = GoldenImage
    BY <2>3 DEF Target, GoldenImage, Register
  <2>5. /\ todo' \in Seq(BusStep)
        /\ \A r \in Register : Ahead(todo', r, Target'[r])
    BY <2>2, <2>3, <2>4, PlanChecks
  <2>6. ASSUME NEW i \in DOMAIN todo', i # 1 PROVE todo'[i].do \notin Changing
    <3>1. CheckImage(GoldenImage) \in Seq(BusStep)
      BY <1>3, <1>1
    <3>2. Len(todo') = Len(put) + Len(CheckImage(GoldenImage)) /\ Len(CheckImage(GoldenImage)) \in Nat
      BY <3>1, <2>2, <2>3, JoinedAt
    <3>3. i \in 1..Len(todo')
      BY <2>5, <2>6
    <3>4. i - 1 \in 1..Len(CheckImage(GoldenImage)) /\ 1 + (i - 1) = i
      BY <3>2, <3>3, <2>6, <2>2
    <3>5. todo'[Len(put) + (i - 1)] = CheckImage(GoldenImage)[i - 1]
      BY <3>1, <3>4, <2>2, <2>3, JoinedAt
    <3>6. i - 1 \in DOMAIN CheckImage(GoldenImage)
      BY <3>1, <3>4, LenProperties
    <3> QED
      BY <3>4, <3>5, <3>6, <1>3, <2>2
  <2>7. todo'[1] = put[1]
    <3>1. put \o CheckImage(GoldenImage) \in Seq(BusStep)
      BY <2>3, <2>5
    <3> QED
      BY <2>2, <2>3, <1>3, <1>1, ConcatProperties
  <2> HIDE DEF put
  <2> QED
    BY <2>1, <2>2, <2>3, <2>5, <2>6, <2>7, <1>8 DEF Changing, Writing, Word
<1> QED
  BY <1>4, <1>5, <1>6, <1>7, <1>8 DEF Perform

-----------------------------------------------------------------------------
(* One access of a plan.                                                    *)

LEMMA FirstStep ==
  ASSUME NEW s \in Seq(BusStep), s # <<>>
  PROVE  /\ 1 \in DOMAIN s /\ s[1] \in BusStep /\ Tail(s) \in Seq(BusStep)
         /\ \A i \in DOMAIN Tail(s) : i \in Nat /\ i + 1 \in DOMAIN s /\ Tail(s)[i] = s[i + 1]
         /\ \A i \in DOMAIN s : i = 1 \/ (i - 1 \in DOMAIN Tail(s) /\ (i - 1) + 1 = i)
<1>1. Len(s) \in Nat \ {0} /\ DOMAIN s = 1..Len(s)
  BY EmptySeq
<1>2. Tail(s) \in Seq(BusStep) /\ Len(Tail(s)) = Len(s) - 1 /\ DOMAIN Tail(s) = 1..Len(s) - 1
  BY <1>1
<1>3. \A i \in 1..Len(s) - 1 : Tail(s)[i] = s[i + 1]
  BY <1>1
<1> QED
  BY <1>1, <1>2, <1>3

\* A register that is to be compared after the last write still is, unless the
\* comparison is the access at hand.
LEMMA AheadStays ==
  ASSUME NEW s \in Seq(BusStep), s # <<>>, NEW r, NEW word, Ahead(s, r, word)
  PROVE  \/ Ahead(Tail(s), r, word)
         \/ /\ s[1] = [do |-> "Compare", reg |-> r, word |-> word]
            /\ \A i \in DOMAIN Tail(s) : Tail(s)[i].do \notin Changing
<1>1. PICK i \in DOMAIN s :
        /\ s[i] = [do |-> "Compare", reg |-> r, word |-> word]
        /\ \A j \in DOMAIN s : i < j => s[j].do \notin Changing
  BY DEF Ahead
<1>2. \A j \in DOMAIN Tail(s) : j \in Nat /\ j + 1 \in DOMAIN s /\ Tail(s)[j] = s[j + 1]
  BY FirstStep
<1>3. CASE i = 1
  <2>1. \A j \in DOMAIN Tail(s) : 1 < j + 1
    <3>1. \A j \in DOMAIN Tail(s) : j \in 1..Len(Tail(s)) /\ Len(Tail(s)) \in Nat
      BY FirstStep
    <3> QED
      BY <3>1
  <2> QED
    BY <1>1, <1>2, <1>3, <2>1
<1>4. CASE i # 1
  <2>1. i \in Nat /\ i - 1 \in DOMAIN Tail(s) /\ (i - 1) + 1 = i
    BY <1>4, FirstStep
  <2>2. Tail(s)[i - 1] = [do |-> "Compare", reg |-> r, word |-> word]
    BY <1>1, <1>2, <2>1
  <2>3. ASSUME NEW j \in DOMAIN Tail(s), i - 1 < j PROVE Tail(s)[j].do \notin Changing
    <3>1. j + 1 \in DOMAIN s /\ i < j + 1
      BY <1>2, <2>1, <2>3
    <3> QED
      BY <3>1, <1>1, <1>2
  <2> QED
    BY <2>1, <2>2, <2>3 DEF Ahead
<1> QED
  BY <1>3, <1>4

-----------------------------------------------------------------------------
(* Initially.                                                              *)

LEMMA InitHolds == Init => TypeOK /\ IInv
<1> SUFFICES ASSUME Init PROVE TypeOK /\ IInv
  OBVIOUS
<1> USE McfAssumption, Images
<1>1. TypeOK
  <2>1. FactoryImage \in [Register -> Word]
    BY DEF FactoryImage, Word
  <2>2. <<>> \in Seq(BusStep)
    OBVIOUS
  <2>3. NoAccess \in Access
    BY DEF NoAccess, Access
  <2>4. eeprom \in [Register -> Word] /\ shadow \in [Register -> Word]
    BY <2>1 DEF Init
  <2>5. 0 \in 0..SLICES
    OBVIOUS
  <2>6. verdict \in ConfigCheck
    BY DEF Init, ConfigCheck
  <2> QED
    BY <2>2, <2>3, <2>4, <2>5, <2>6 DEF Init, TypeOK, CurrentProfile, SpeedWord
<1>2. JobInStep /\ TodoInStep /\ AskedInStep /\ CheckInStep
  BY DEF Init, JobInStep, TodoInStep, AskedInStep, CheckInStep, Busy, NoAccess, Writing, Permits
<1>3. ImageStands /\ LimitStands
  BY DEF Init, ImageStands, LimitStands, Image, Permits, GoldenImage
<1> QED
  BY <1>1, <1>2, <1>3 DEF IInv

-----------------------------------------------------------------------------
(* Types.                                                                  *)

LEMMA TypeKept ==
  ASSUME TypeOK, IInv, ~FailuresLand, [Next]_vars
  PROVE  TypeOK'
<1> USE McfAssumption
<1>1. CASE UNCHANGED vars
  BY <1>1 DEF TypeOK, vars, device, cells, jobVars, locals
<1>2. ASSUME NEW p \in Profiles, NEW d \in {0, 1}, Tick(p, d) PROVE TypeOK'
  <2>1. /\ verdict' \in ConfigCheck /\ candidate' \in Candidates \cup {"-"}
        /\ profile' \in CurrentProfile /\ demand' \in {0, 1}
        /\ ready' \in BOOLEAN /\ pgoodFell' \in BOOLEAN
    BY <1>2 DEF TypeOK, Tick, AfterPgoodLoss, ReadyAfter, ConfigCheck, CurrentProfile
  <2> QED
    BY <1>2, <2>1 DEF TypeOK, Tick, device, jobVars, locals
<1>3. ASSUME NEW a \in Requests, Request(a) PROVE TypeOK'
  BY <1>3 DEF TypeOK, Request, Requests, device, cells, jobVars, locals
<1>4. CASE InternalReset \/ RailDips
  <2>1. shadow' \in [Register -> Word] /\ override' \in SpeedWord /\ pgoodFell' \in BOOLEAN
    BY <1>4 DEF TypeOK, InternalReset, RailDips, Reload, SpeedWord
  <2>2. unsure' \subseteq {"before", "during", "lost"}
    BY <1>4 DEF TypeOK, InternalReset, RailDips, Reload, Moved
  <2> QED
    BY <1>4, <2>1, <2>2 DEF TypeOK, InternalReset, RailDips, Reload, jobVars, locals
<1>5. CASE Extracted
  BY <1>5 DEF TypeOK, Extracted, Moved, cells, jobVars, locals, Word, Register
<1>6. CASE NothingAsked \/ NothingVolatile
  <2>1. at' \in {"Access", "Profile", "Speed"} /\ slice' \in {1, slice} /\ 1 \in 0..SLICES
    BY <1>6 DEF NothingAsked, NothingVolatile, Resume
  <2>2. UNCHANGED <<device, cells, access, jobVars, locals, unsure>>
    BY <1>6 DEF NothingAsked, NothingVolatile
  <2> QED
    BY <2>1, <2>2 DEF TypeOK, device, cells, jobVars, locals
<1>7. CASE ServeAccess
  <2>1. access \in Access
    BY DEF TypeOK
  <2>2. todo' \in Seq(BusStep) /\ outcome' \in ConfigCheck
    BY <1>7, <2>1, Plans DEF ServeAccess, cells, ConfigCheck
  <2>3. /\ UNCHANGED <<device, cells, slice, locals, unsure>>
        /\ at' = "Working" /\ written' = FALSE /\ job' = access /\ access' = NoAccess
    BY <1>7 DEF ServeAccess
  <2>4. NoAccess \in Access
    BY DEF NoAccess, Access
  <2> QED
    BY <2>1, <2>2, <2>3, <2>4 DEF TypeOK, device, cells, locals
<1>8. CASE WatchSentinel
  <2>1. todo' \in Seq(BusStep)
    <3> DEFINE sentinel == [do |-> "Compare", reg |-> "ceiling", word |-> "golden"]
               tuned == [do |-> "Compare", reg |-> "tuned", word |-> candidate]
    <3>1. sentinel \in BusStep /\ (candidate # "-" => tuned \in BusStep)
      BY DEF TypeOK, BusStep, Register, Word
    <3>2. <<>> \in Seq(BusStep) /\ <<sentinel>> \in Seq(BusStep)
      BY <3>1
    <3>3. <<sentinel>> \o <<>> \in Seq(BusStep)
      BY <3>2, JoinedSteps
    <3>4. candidate # "-" => <<sentinel>> \o <<tuned>> \in Seq(BusStep)
      BY <3>1, <3>2, JoinedSteps
    <3> HIDE DEF sentinel, tuned
    <3> QED
      BY <1>8, <3>2, <3>3, <3>4 DEF WatchSentinel, sentinel, tuned
  <2>2. [op |-> "Sentinel", arg |-> "-"] \in Access
    BY DEF Access
  <2>3. /\ UNCHANGED <<device, cells, access, slice, locals, unsure>>
        /\ at' = "Working" /\ written' = FALSE /\ job' \in Access
        /\ outcome' \in ConfigCheck \cup {"Nothing"}
    BY <1>8, <2>2 DEF WatchSentinel, ConfigCheck
  <2> QED
    BY <2>1, <2>3 DEF TypeOK, device, cells, locals
<1>9. CASE StatusClean \/ RegisterMatches \/ NothingToCommit \/ CommitWritten \/ CommitConfirmed
  <2>1. todo \in Seq(BusStep) /\ todo # <<>>
    BY <1>9 DEF TypeOK, StatusClean, RegisterMatches, NothingToCommit, CommitWritten, CommitConfirmed, Doing
  <2>2. todo' \in Seq(BusStep)
    BY <1>9, <2>1, FirstStep DEF StatusClean, RegisterMatches, NothingToCommit, CommitWritten, CommitConfirmed, StepDone
  <2>3. UNCHANGED <<cells, access, at, slice, job, outcome, locals, unsure, override, shadow, written>>
        /\ eeprom' \in {eeprom, shadow}
    BY <1>9 DEF StatusClean, RegisterMatches, NothingToCommit, CommitWritten, CommitConfirmed, StepDone, device
  <2> QED
    BY <2>2, <2>3 DEF TypeOK, cells, locals
<1>10. CASE RegisterWritten
  <2>1. todo \in Seq(BusStep) /\ todo # <<>> /\ todo[1].do \in Changing
    BY <1>10 DEF TypeOK, RegisterWritten, Doing, Changing
  <2>2. todo' \in Seq(BusStep)
    BY <1>10, <2>1, FirstStep DEF RegisterWritten, StepDone
  <2>3. todo[1].reg \in Register /\ todo[1].word \in Word
    BY <2>1, FirstStep DEF IInv, TodoInStep
  <2>4. shadow' \in [Register -> Word]
    BY <1>10, <2>3 DEF RegisterWritten, Put, TypeOK
  <2> QED
    BY <1>10, <2>2, <2>4 DEF TypeOK, RegisterWritten, StepDone, cells, locals
<1>11. CASE StepFails
  <2>1. shadow' = shadow /\ eeprom' \in {eeprom, shadow}
    BY <1>11 DEF StepFails, Landed
  <2>2. todo' = <<>> /\ <<>> \in Seq(BusStep)
    BY <1>11 DEF StepFails
  <2> QED
    BY <1>11, <2>1, <2>2 DEF TypeOK, StepFails, FailedVerdict, ConfigCheck, cells, locals
<1>12. CASE NothingToPublish \/ PublishVerdict
  <2>1. /\ job' = NoAccess /\ outcome' = "Nothing" /\ written' = FALSE /\ UNCHANGED todo
        /\ unsure' \subseteq {"before", "lost"}
        /\ at' \in {"Access", "Profile", "Speed"} /\ slice' \in {1, slice}
    BY <1>12 DEF NothingToPublish, PublishVerdict, EndJob, Resume
  <2>2. /\ UNCHANGED <<device, candidate, profile, ready, demand, pgoodFell, access, locals>>
        /\ verdict' = verdict \/ (verdict' = outcome /\ outcome # "Nothing")
    <3>1. PublishVerdict => outcome # "Nothing"
      BY DEF IInv, JobInStep, PublishVerdict
    <3> QED
      BY <1>12, <3>1 DEF NothingToPublish, PublishVerdict, cells
  <2>3. NoAccess \in Access /\ 1 \in 0..SLICES
    BY DEF NoAccess, Access
  <2>4. verdict' \in ConfigCheck /\ slice' \in 0..SLICES
    BY <2>1, <2>2, <2>3 DEF TypeOK
  <2> QED
    BY <2>1, <2>2, <2>3, <2>4 DEF TypeOK, device, locals
<1>13. CASE PublishCandidate
  <2>1. job.op = "Tune" => job.arg \in Candidates
    BY DEF TypeOK, Access
  <2> QED
    BY <1>13, <2>1 DEF TypeOK, PublishCandidate, device, jobVars, locals
<1>14. CASE NoCeiling \/ ReadProfile \/ EndLimit
  <2>1. UNCHANGED <<shadow, eeprom, override, verdict, candidate, profile, demand, pgoodFell, access,
                    slice, job, todo, outcome, written, lastSpeed, healthy, unsure>>
    BY <1>14 DEF NoCeiling, ReadProfile, EndLimit, device, jobVars
  <2>2. /\ at' \in {"Sentinel", "SetLimit", "EndLimit"} /\ ready' \in BOOLEAN
        /\ asked' \in {asked, profile, "-"} /\ lastProfile' \in CurrentProfile \cup {"-"}
    BY <1>14 DEF NoCeiling, ReadProfile, EndLimit, TypeOK, IInv, AskedInStep
  <2> QED
    BY <2>1, <2>2 DEF TypeOK
<1>15. CASE LimitWritten \/ LimitFails
  <2>1. shadow' = shadow \/ PutLimit
    BY <1>15 DEF LimitWritten, LimitFails
  <2>2. shadow' \in [Register -> Word]
    BY <2>1 DEF TypeOK, PutLimit, Limit, Word, Register
  <2> QED
    BY <1>15, <2>2 DEF TypeOK, LimitWritten, LimitFails, cells, jobVars, locals
<1>16. CASE SpeedStands \/ ReadSpeed \/ SpeedWritten
  <2>1. UNCHANGED <<shadow, eeprom, cells, access, slice, jobVars, lastProfile, unsure>>
    BY <1>16 DEF SpeedStands, ReadSpeed, SpeedWritten, device
  <2>2. /\ at' \in {"Sleep", "SetSpeed"} /\ healthy' \in BOOLEAN
        /\ asked' \in CurrentProfile \cup SpeedWord \cup {"-"}
    BY <1>16 DEF TypeOK, SpeedStands, ReadSpeed, SpeedWritten, WantedSpeed, SpeedWord
  <2>3. override' \in SpeedWord /\ lastSpeed' \in SpeedWord \cup {"-"}
    BY <1>16 DEF TypeOK, IInv, AskedInStep, SpeedStands, ReadSpeed, SpeedWritten, device
  <2> QED
    BY <2>1, <2>2, <2>3 DEF TypeOK, cells, jobVars
<1>17. CASE SpeedFails
  <2>1. /\ UNCHANGED <<shadow, eeprom, override, profile, demand, pgoodFell, access, slice, jobVars, lastProfile,
                       lastSpeed, unsure>>
        /\ at' = "Sleep" /\ asked' = "-" /\ healthy' = FALSE /\ ready' = FALSE
    BY <1>17 DEF SpeedFails, LastSpeedKept
  <2>2. verdict' \in {verdict, "Failed"} /\ candidate' \in {candidate, "-"}
    BY <1>17 DEF SpeedFails
  <2>3. verdict' \in ConfigCheck /\ candidate' \in Candidates \cup {"-"}
    BY <2>2 DEF TypeOK, ConfigCheck
  <2>4. /\ at' \in {"Sleep"} /\ ready' \in BOOLEAN /\ healthy' \in BOOLEAN
        /\ asked' \in {"-"}
    BY <2>1
  <2> QED
    BY <2>1, <2>3, <2>4 DEF TypeOK, jobVars
<1>18. CASE Wake
  <2>1. slice' \in 0..SLICES
    BY <1>18 DEF Wake, NextSlice, TypeOK
  <2>2. /\ UNCHANGED <<device, cells, access, jobVars, locals>>
        /\ at' = "Access" /\ unsure' \subseteq unsure \cup {"lost"}
    BY <1>18 DEF Wake
  <2> QED
    BY <2>1, <2>2 DEF TypeOK, device, cells, jobVars, locals
<1> QED
  BY <1>1, <1>2, <1>3, <1>4, <1>5, <1>6, <1>7, <1>8, <1>9, <1>10, <1>11, <1>12, <1>13, <1>14, <1>15, <1>16,
     <1>17, <1>18 DEF Next, TaskStep, JobStep

-----------------------------------------------------------------------------
(* Steps by what they have to do with the job.                              *)

\* Between two jobs.
Aside ==
  \/ NothingAsked \/ NothingVolatile
  \/ NoCeiling \/ ReadProfile \/ LimitWritten \/ LimitFails \/ EndLimit
  \/ SpeedStands \/ ReadSpeed \/ SpeedWritten \/ SpeedFails \/ Wake

\* One access performed as the plan has it.
Advance ==
  \/ StatusClean \/ RegisterMatches \/ RegisterWritten
  \/ NothingToCommit \/ CommitWritten \/ CommitConfirmed

\* Around the task.
Around ==
  \/ \E p \in Profiles, d \in {0, 1} : Tick(p, d)
  \/ \E a \in Requests : Request(a)
  \/ InternalReset \/ RailDips \/ Extracted

LEMMA Steps ==
  Next <=> \/ Aside \/ Advance \/ Around \/ ServeAccess \/ WatchSentinel \/ StepFails
           \/ NothingToPublish \/ PublishCandidate \/ PublishVerdict
BY DEF Next, TaskStep, JobStep, Aside, Advance, Around

LEMMA AsideSteps == Aside => ~Busy /\ ~Busy' /\ UNCHANGED jobVars
<1> SUFFICES ASSUME Aside PROVE ~Busy /\ ~Busy' /\ UNCHANGED jobVars
  OBVIOUS
<1>1. CASE NothingAsked \/ NothingVolatile
  BY <1>1 DEF NothingAsked, NothingVolatile, Resume, Busy
<1>2. CASE NoCeiling \/ ReadProfile \/ LimitWritten \/ LimitFails \/ EndLimit
  BY <1>2 DEF NoCeiling, ReadProfile, LimitWritten, LimitFails, EndLimit, Busy
<1>3. CASE SpeedStands \/ ReadSpeed \/ SpeedWritten \/ SpeedFails \/ Wake
  BY <1>3 DEF SpeedStands, ReadSpeed, SpeedWritten, SpeedFails, Wake, Busy
<1> QED
  BY <1>1, <1>2, <1>3 DEF Aside

LEMMA AdvanceSteps ==
  Advance => /\ at = "Working" /\ todo # <<>> /\ todo' = Tail(todo)
             /\ UNCHANGED <<cells, access, at, slice, job, outcome, locals, unsure>>
             /\ \/ RegisterWritten /\ todo[1].do \in Changing
                \/ /\ ~RegisterWritten /\ UNCHANGED <<shadow, written>>
                   /\ todo[1].do = "Compare" => shadow[todo[1].reg] = todo[1].word
<1> SUFFICES ASSUME Advance
             PROVE  /\ at = "Working" /\ todo # <<>> /\ todo' = Tail(todo)
                    /\ UNCHANGED <<cells, access, at, slice, job, outcome, locals, unsure>>
                    /\ \/ RegisterWritten /\ todo[1].do \in Changing
                       \/ /\ ~RegisterWritten /\ UNCHANGED <<shadow, written>>
                          /\ todo[1].do = "Compare" => shadow[todo[1].reg] = todo[1].word
  OBVIOUS
<1>1. CASE RegisterWritten
  BY <1>1 DEF RegisterWritten, Doing, StepDone, Changing
<1>2. CASE ~RegisterWritten
  BY <1>2 DEF Advance, StatusClean, RegisterMatches, NothingToCommit, CommitWritten, CommitConfirmed,
              Doing, StepDone, Matches, device
<1> QED
  BY <1>1, <1>2

LEMMA AroundSteps ==
  Around => /\ UNCHANGED <<at, slice, jobVars, locals>> /\ candidate' \in {candidate, "-"}
            /\ verdict' \in {verdict, "Unverified"}
            /\ \/ UNCHANGED <<shadow, unsure>>
               \/ unsure' = (unsure \ {"lost"}) \cup {IF job = NoAccess THEN "before" ELSE "during"}
BY DEF Around, Tick, Request, InternalReset, RailDips, Reload, Extracted, Moved, AfterPgoodLoss,
       device, cells, locals

-----------------------------------------------------------------------------
(* The job and its plan.                                                   *)

LEMMA JobKept ==
  ASSUME TypeOK, IInv, ~FailuresLand, [Next]_vars
  PROVE  JobInStep'
<1> USE DEF IInv
<1>1. CASE UNCHANGED vars
  BY <1>1 DEF JobInStep, vars, cells, jobVars, Busy
<1>2. CASE Aside
  BY <1>2, AsideSteps DEF JobInStep, jobVars, Busy
<1>3. CASE Around
  BY <1>3, AroundSteps DEF JobInStep, jobVars, Busy
<1>4. CASE Advance
  <2>1. /\ at = "Working" /\ at' = "Working" /\ UNCHANGED <<job, outcome, candidate>>
        /\ todo \in Seq(BusStep) /\ todo # <<>>
    BY <1>4, AdvanceSteps DEF cells, TypeOK
  <2>2. CASE UNCHANGED written
    BY <2>1, <2>2 DEF JobInStep, Busy
  <2>3. CASE todo[1].do \in Changing
    <3>1. outcome # "Nothing"
      BY <2>1, <2>3, FirstStep DEF JobInStep, TodoInStep
    <3> QED
      BY <2>1, <3>1 DEF JobInStep, Busy
  <2> QED
    BY <1>4, <2>2, <2>3, AdvanceSteps
<1>5. CASE ServeAccess
  <2>1. access \in Access /\ access # NoAccess
    BY <1>5 DEF TypeOK, ServeAccess
  <2>2. /\ outcome' \in {"Provisional", "Tuning", "Verified", "Unverified"}
        /\ access.op \in {"Check", "Stage", "Tune", "Apply", "Write"}
        /\ outcome' = "Tuning" => access.op \in {"Tune", "Check"}
    BY <1>5, <2>1, Plans DEF ServeAccess, cells
  <2> QED
    BY <1>5, <2>1, <2>2 DEF JobInStep, ServeAccess, Busy
<1>6. CASE WatchSentinel
  BY <1>6 DEF JobInStep, WatchSentinel, Busy, NoAccess, Writing, Permits
<1>7. CASE StepFails
  <2>1. todo[1].do = "Put" => job.op = "Write" /\ ~written
    <3>1. 1 \in DOMAIN todo
      BY <1>7, FirstStep DEF StepFails, TypeOK
    <3> QED
      BY <3>1 DEF TodoInStep
  <2> QED
    BY <1>7, <2>1 DEF JobInStep, StepFails, FailedVerdict, Busy, Permits
<1>8. CASE NothingToPublish \/ PublishVerdict
  <2>1. todo = <<>>
    BY <1>8 DEF NothingToPublish, PublishVerdict, JobInStep
  <2> QED
    BY <1>8, <2>1 DEF JobInStep, NothingToPublish, PublishVerdict, EndJob, Resume, Busy, NoAccess, Writing
<1>9. CASE PublishCandidate
  BY <1>9 DEF JobInStep, PublishCandidate, jobVars, Busy
<1> QED
  BY <1>1, <1>2, <1>3, <1>4, <1>5, <1>6, <1>7, <1>8, <1>9, Steps

LEMMA TodoKept ==
  ASSUME TypeOK, IInv, ~FailuresLand, [Next]_vars
  PROVE  TodoInStep'
<1> USE DEF IInv
<1>1. CASE UNCHANGED vars \/ Aside \/ Around \/ PublishCandidate
  <2>1. UNCHANGED <<job, todo, written>>
    BY <1>1, AsideSteps, AroundSteps DEF vars, PublishCandidate, jobVars
  <2> QED
    BY <2>1 DEF TodoInStep
<1>2. CASE Advance
  <2>1. /\ todo' = Tail(todo) /\ job' = job /\ todo \in Seq(BusStep) /\ todo # <<>>
    BY <1>2, AdvanceSteps DEF TypeOK
  <2>2. ASSUME NEW i \in DOMAIN todo'
        PROVE  i + 1 \in DOMAIN todo /\ todo'[i] = todo[i + 1] /\ i + 1 # 1
    <3>1. i \in Nat /\ i + 1 \in DOMAIN todo /\ todo'[i] = todo[i + 1] /\ i \in 1..Len(todo')
      BY <2>1, FirstStep
    <3> QED
      BY <3>1
  <2>3. todo[1].do \in Changing => Writing(job)
    BY <2>1, FirstStep DEF TodoInStep
  <2>4. ~Writing(job) => written' = written
    BY <1>2, <2>3, AdvanceSteps
  <2> QED
    BY <2>1, <2>2, <2>4 DEF TodoInStep
<1>3. CASE ServeAccess
  <2>1. access \in Access
    BY DEF TypeOK
  <2>2. /\ \A i \in DOMAIN todo' : todo'[i].do = "Put" => i = 1 /\ access.op = "Write"
        /\ \A i \in DOMAIN todo' : todo'[i].do \in Changing =>
             Writing(access) /\ todo'[i].reg \in Register /\ todo'[i].word \in Word
    BY <1>3, <2>1, Plans DEF ServeAccess, cells
  <2> QED
    BY <1>3, <2>2 DEF TodoInStep, ServeAccess
<1>4. CASE WatchSentinel
  <2>1. \A i \in DOMAIN todo' : todo'[i].do = "Compare"
    BY <1>4 DEF WatchSentinel
  <2> QED
    BY <1>4, <2>1 DEF TodoInStep, WatchSentinel, Writing, Changing
<1>5. CASE StepFails \/ NothingToPublish \/ PublishVerdict
  <2>1. todo' = <<>> /\ (written' = written \/ ~written')
    BY <1>5 DEF StepFails, NothingToPublish, PublishVerdict, EndJob, JobInStep
  <2>2. job' = job \/ ~written'
    BY <1>5 DEF StepFails, NothingToPublish, PublishVerdict, EndJob
  <2> QED
    BY <2>1, <2>2 DEF TodoInStep
<1> QED
  BY <1>1, <1>2, <1>3, <1>4, <1>5, Steps

\* What the plan has compared stays compared until the next write.
LEMMA CheckKept ==
  ASSUME TypeOK, IInv, ~FailuresLand, [Next]_vars
  PROVE  CheckInStep'
<1> USE DEF IInv
<1>1. CASE UNCHANGED vars
  BY <1>1 DEF CheckInStep, Ahead, Behind, Target, vars, device, cells, jobVars, Busy
<1>2. CASE Aside
  BY <1>2, AsideSteps DEF CheckInStep
<1>3. CASE Around
  <2>1. /\ UNCHANGED <<at, job, todo, outcome>> /\ candidate' \in {candidate, "-"}
        /\ \/ UNCHANGED <<shadow, unsure>>
           \/ unsure' = (unsure \ {"lost"}) \cup {IF job = NoAccess THEN "before" ELSE "during"}
    BY <1>3, AroundSteps DEF jobVars
  <2>2. SUFFICES ASSUME Busy', Permits(outcome'), "during" \notin unsure',
                        outcome' = "Tuning" /\ job'.op # "Tune" => candidate' # "-"
                 PROVE  \A r \in Register : Ahead(todo', r, Target'[r]) \/ Behind(todo, r, Target[r])'
    BY DEF CheckInStep
  <2>3. UNCHANGED <<shadow, unsure>>
    BY <2>1, <2>2 DEF JobInStep, Busy
  <2>4. Target' = Target
    BY <2>1, <2>2 DEF Target
  <2> QED
    BY <2>1, <2>2, <2>3, <2>4 DEF CheckInStep, Ahead, Behind, Busy, Target
<1>4. CASE Advance
  <2>1. /\ todo \in Seq(BusStep) /\ todo # <<>> /\ todo' = Tail(todo) /\ Target' = Target
        /\ UNCHANGED <<at, job, outcome, candidate, unsure>>
    BY <1>4, AdvanceSteps DEF TypeOK, Target, cells
  <2>2. SUFFICES ASSUME CheckInStep!1, NEW r \in Register
                 PROVE  Ahead(todo', r, Target[r]) \/ Behind(todo, r, Target[r])'
    BY <2>1 DEF CheckInStep, Busy
  <2>3. CASE Ahead(todo, r, Target[r])
    <3>1. CASE Ahead(Tail(todo), r, Target[r])
      BY <3>1, <2>1
    <3>2. CASE /\ todo[1] = [do |-> "Compare", reg |-> r, word |-> Target[r]]
               /\ \A i \in DOMAIN Tail(todo) : Tail(todo)[i].do \notin Changing
      <4>1. shadow' = shadow /\ shadow[r] = Target[r]
        BY <1>4, <3>2, AdvanceSteps DEF Changing
      <4> QED
        BY <4>1, <3>2, <2>1 DEF Behind
    <3> QED
      BY <2>1, <2>3, <3>1, <3>2, AheadStays
  <2>4. CASE Behind(todo, r, Target[r])
    <3>1. todo[1].do \notin Changing /\ \A i \in DOMAIN Tail(todo) : Tail(todo)[i].do \notin Changing
      BY <2>1, <2>4, FirstStep DEF Behind
    <3>2. shadow' = shadow
      BY <1>4, <3>1, AdvanceSteps
    <3> QED
      BY <2>1, <2>4, <3>1, <3>2 DEF Behind
  <2> QED
    BY <2>1, <2>2, <2>3, <2>4 DEF CheckInStep
<1>5. CASE ServeAccess
  <2>1. access \in Access
    BY DEF TypeOK
  <2>2. Permits(outcome') => \A r \in Register : Ahead(todo', r, Target'[r])
    BY <1>5, <2>1, Plans DEF ServeAccess, cells
  <2> QED
    BY <2>2 DEF CheckInStep, Ahead, Target
<1>6. CASE WatchSentinel \/ StepFails \/ NothingToPublish \/ PublishVerdict
  <2>1. ~Permits(outcome')
    BY <1>6 DEF WatchSentinel, StepFails, FailedVerdict, NothingToPublish, PublishVerdict, EndJob, Permits
  <2> QED
    BY <2>1 DEF CheckInStep
<1>7. CASE PublishCandidate
  <2>1. /\ UNCHANGED <<shadow, todo, outcome, job, unsure>> /\ Busy
        /\ outcome = "Tuning" /\ job.op # "Tune" => candidate' = candidate
    BY <1>7 DEF PublishCandidate, device, jobVars, Busy
  <2>2. Target' = Target
    BY <2>1 DEF Target
  <2> QED
    BY <2>1, <2>2 DEF CheckInStep, Ahead, Behind
<1> QED
  BY <1>1, <1>2, <1>3, <1>4, <1>5, <1>6, <1>7, Steps

-----------------------------------------------------------------------------
(* Ceilings and speeds, and what the verdict vouches for.                  *)

LEMMA AskedKept ==
  ASSUME TypeOK, IInv, ~FailuresLand, [Next]_vars
  PROVE  AskedInStep'
<1> USE DEF IInv
<1>1. CASE UNCHANGED vars
  BY <1>1 DEF AskedInStep, vars, cells, locals
<1>2. CASE Around
  <2>1. /\ UNCHANGED <<at, asked>> /\ verdict' \in {verdict, "Unverified"}
    BY <1>2, AroundSteps DEF locals
  <2>2. profile' = "Acquisition" => ready' = ready \/ ~ready'
    BY <1>2 DEF Around, Tick, Request, InternalReset, RailDips, Reload, Extracted, ReadyAfter, cells, TypeOK
  <2>3. profile' = "Acquisition" => profile = "Acquisition" \/ ~ready'
    BY <1>2 DEF Around, Tick, Request, InternalReset, RailDips, Reload, Extracted, ReadyAfter, cells
  <2> QED
    BY <2>1, <2>2, <2>3 DEF AskedInStep, Limit
<1>3. CASE ReadProfile
  BY <1>3 DEF AskedInStep, ReadProfile, TypeOK, Limit
<1>4. CASE LimitWritten \/ ReadSpeed
  BY <1>4 DEF AskedInStep, LimitWritten, ReadSpeed, WantedSpeed, SpeedWord, cells, locals
<1>5. CASE NothingAsked \/ NothingVolatile \/ NoCeiling \/ LimitFails \/ EndLimit \/ SpeedStands
           \/ SpeedWritten \/ SpeedFails \/ Wake
  <2>1. at' \notin {"SetLimit", "EndLimit", "SetSpeed"}
    BY <1>5 DEF NothingAsked, NothingVolatile, Resume, NoCeiling, LimitFails, EndLimit, SpeedStands,
                SpeedWritten, SpeedFails, Wake
  <2> QED
    BY <2>1 DEF AskedInStep
<1>6. CASE Advance \/ ServeAccess \/ WatchSentinel \/ StepFails \/ NothingToPublish
           \/ PublishCandidate \/ PublishVerdict
  <2>1. at' \notin {"SetLimit", "EndLimit", "SetSpeed"}
    BY <1>6, AdvanceSteps DEF ServeAccess, WatchSentinel, StepFails, NothingToPublish, PublishCandidate,
                              PublishVerdict, EndJob, Resume
  <2> QED
    BY <2>1 DEF AskedInStep
<1> QED
  BY <1>1, <1>2, <1>3, <1>4, <1>5, <1>6, Steps DEF Aside

\* How a step that is not the publication of a verdict comes to a state in which
\* the verdict vouches for the registers.
LEMMA StaysClean ==
  ASSUME TypeOK, IInv, ~FailuresLand, Next, ~PublishVerdict, Clean', Permits(verdict')
  PROVE  /\ Clean /\ verdict' = verdict
         /\ candidate' \in {candidate, "-"}
         /\ shadow' = shadow \/ (LimitWritten /\ PutLimit)
<1> USE DEF IInv
<1>1. CASE Aside
  <2>1. UNCHANGED <<job, written>> /\ (unsure' = {} => unsure = {})
    BY <1>1, AsideSteps DEF Aside, NothingAsked, NothingVolatile, NoCeiling, ReadProfile, LimitWritten,
       LimitFails, EndLimit, SpeedStands, ReadSpeed, SpeedWritten, SpeedFails, Wake, jobVars
  <2>2. shadow' = shadow \/ (LimitWritten /\ PutLimit)
    BY <1>1 DEF Aside, NothingAsked, NothingVolatile, NoCeiling, ReadProfile, LimitWritten,
       LimitFails, EndLimit, SpeedStands, ReadSpeed, SpeedWritten, SpeedFails, Wake, device
  <2>3. verdict' = verdict /\ candidate' = candidate
    BY <1>1 DEF Aside, NothingAsked, NothingVolatile, NoCeiling, ReadProfile, LimitWritten,
       LimitFails, EndLimit, SpeedStands, ReadSpeed, SpeedWritten, SpeedFails, Wake, cells, Permits
  <2> QED
    BY <2>1, <2>2, <2>3 DEF Clean
<1>2. CASE Around
  <2>1. /\ UNCHANGED <<job, written>> /\ candidate' \in {candidate, "-"}
        /\ verdict' \in {verdict, "Unverified"}
        /\ \/ UNCHANGED <<shadow, unsure>>
           \/ unsure' = (unsure \ {"lost"}) \cup {IF job = NoAccess THEN "before" ELSE "during"}
    BY <1>2, AroundSteps DEF jobVars
  <2> QED
    BY <2>1 DEF Clean, Permits
<1>3. CASE Advance
  <2>1. todo \in Seq(BusStep) /\ todo # <<>> /\ UNCHANGED <<verdict, candidate, job, unsure>>
    BY <1>3, AdvanceSteps DEF TypeOK, cells
  <2>2. ~RegisterWritten
    <3>1. RegisterWritten => written' /\ todo[1].do \in Changing
      BY <1>3, AdvanceSteps DEF RegisterWritten
    <3> QED
      BY <2>1, <3>1, FirstStep DEF Clean, TodoInStep
  <2> QED
    BY <1>3, <2>1, <2>2, AdvanceSteps DEF Clean
<1>4. CASE ServeAccess \/ WatchSentinel
  <2>1. ~Writing(job) /\ UNCHANGED <<shadow, verdict, candidate, unsure>>
    BY <1>4 DEF ServeAccess, WatchSentinel, JobInStep, Busy, NoAccess, Writing, device, cells
  <2> QED
    BY <2>1 DEF Clean
<1>5. CASE StepFails
  <2>1. shadow' = shadow /\ UNCHANGED <<verdict, candidate, job, written, unsure>>
    BY <1>5 DEF StepFails, Landed, cells
  <2> QED
    BY <2>1 DEF Clean
<1>6. CASE NothingToPublish
  <2>1. UNCHANGED <<shadow, verdict, candidate>> /\ unsure = {} /\ outcome = "Nothing"
    BY <1>6 DEF NothingToPublish, EndJob, device, cells, Clean
  <2> QED
    BY <2>1 DEF Clean, JobInStep
<1>7. CASE PublishCandidate
  <2>1. UNCHANGED <<shadow, verdict, job, written, unsure>>
    BY <1>7 DEF PublishCandidate, device, jobVars
  <2>2. candidate' \in {candidate, "-"}
    BY <1>7, <2>1 DEF PublishCandidate, Clean, Writing
  <2> QED
    BY <2>1, <2>2 DEF Clean
<1> QED
  BY <1>1, <1>2, <1>3, <1>4, <1>5, <1>6, <1>7, Steps

\* A verdict that is published and permits operation is true of every register.
LEMMA PublishedTrue ==
  ASSUME TypeOK, IInv, PublishVerdict, Permits(verdict'), unsure' = {},
         verdict' = "Tuning" => candidate' # "-"
  PROVE  \A r \in Register : shadow'[r] = Image(verdict)'[r]
<1> USE DEF IInv
<1>1. /\ verdict' = outcome /\ UNCHANGED <<shadow, candidate>> /\ at = "Verdict"
      /\ "during" \notin unsure
  BY DEF PublishVerdict, EndJob, device
<1>2. Busy /\ todo = <<>>
  BY <1>1 DEF JobInStep, Busy
<1>3. \A r \in Register : shadow[r] = Target[r]
  BY <1>1, <1>2 DEF CheckInStep, Ahead, Behind
<1>4. Image(verdict)' = Target
  BY <1>1 DEF Image, Target, JobInStep
<1> QED
  BY <1>1, <1>3, <1>4

LEMMA ImageKept ==
  ASSUME TypeOK, IInv, ~FailuresLand, [Next]_vars
  PROVE  ImageStands'
<1> USE DEF IInv
<1>1. CASE UNCHANGED vars
  BY <1>1 DEF ImageStands, Clean, Image, vars, device, cells, jobVars
<1>2. CASE PublishVerdict
  <2>1. Clean' => unsure' = {}
    BY DEF Clean
  <2> QED
    BY <1>2, <2>1, PublishedTrue DEF ImageStands
<1>3. CASE Next /\ ~PublishVerdict
  <2> SUFFICES ASSUME Permits(verdict'), Clean', verdict' = "Tuning" => candidate' # "-",
                      NEW r \in Register
               PROVE  shadow'[r] = Image(verdict)'[r] \/ (verdict' = "Provisional" /\ r = "limit")
    BY DEF ImageStands
  <2>1. /\ Clean /\ verdict' = verdict
        /\ verdict = "Tuning" => candidate # "-" /\ candidate' = candidate
        /\ shadow' = shadow \/ (LimitWritten /\ PutLimit)
    BY <1>3, StaysClean
  <2>2. Image(verdict)' = Image(verdict)
    BY <2>1 DEF Image
  <2>3. shadow[r] = Image(verdict)[r] \/ (verdict = "Provisional" /\ r = "limit")
    BY <2>1 DEF ImageStands
  <2>4. CASE LimitWritten /\ PutLimit
    <3>1. verdict = "Provisional"
      BY <2>1, <2>4 DEF LimitWritten, AskedInStep, Permits
    <3>2. r # "limit" => shadow'[r] = shadow[r]
      BY <2>4 DEF PutLimit, TypeOK
    <3> QED
      BY <2>1, <2>2, <2>3, <3>1, <3>2
  <2> QED
    BY <2>1, <2>2, <2>3, <2>4
<1> QED
  BY <1>1, <1>2, <1>3

LEMMA LimitKept ==
  ASSUME TypeOK, IInv, ~FailuresLand, [Next]_vars
  PROVE  LimitStands'
<1> USE DEF IInv
<1>1. CASE UNCHANGED vars
  BY <1>1 DEF LimitStands, Clean, vars, device, cells, jobVars, locals
<1>2. CASE PublishVerdict
  <2>1. verdict' = "Provisional" /\ Clean' => shadow'["limit"] = "golden"
    BY <1>2, PublishedTrue DEF Clean, Permits, Image, BenchImage, GoldenImage, Register
  <2> QED
    BY <2>1 DEF LimitStands
<1>3. CASE Next /\ ~PublishVerdict
  <2> SUFFICES ASSUME verdict' = "Provisional", Clean'
               PROVE  LimitStands'
    BY DEF LimitStands
  <2>1. Clean /\ verdict = "Provisional" /\ (shadow' = shadow \/ (LimitWritten /\ PutLimit))
    BY <1>3, StaysClean DEF Permits
  <2>2. /\ shadow["limit"] \in {"golden", "settling"}
        /\ \/ at # "EndLimit" /\ lastProfile # "-" /\ Limit(lastProfile) = "golden"
           \/ at = "EndLimit" /\ Limit(asked) = "golden"
           \/ ready /\ profile = "Acquisition"
           => shadow["limit"] = "golden"
    BY <2>1 DEF LimitStands
  <2>3. CASE LimitWritten
    <3>1. /\ shadow'["limit"] = Limit(asked) /\ at' = "EndLimit"
          /\ UNCHANGED <<asked, ready, profile>> /\ at = "SetLimit"
      BY <2>2, <2>3 DEF LimitWritten, PutLimit, TypeOK, Register, cells, locals
    <3> QED
      BY <3>1 DEF LimitStands, AskedInStep, Limit
  <2>4. CASE ReadProfile
    <3>1. /\ UNCHANGED <<shadow, profile, lastProfile>> /\ asked' = profile /\ at = "Profile"
          /\ at' = "EndLimit" => lastProfile = profile
          /\ ready' /\ profile = "Acquisition" => ready
      BY <2>4 DEF ReadProfile, device
    <3>2. profile # "-"
      BY DEF TypeOK, CurrentProfile
    <3>3. at' \in {"SetLimit", "EndLimit"}
      BY <2>4 DEF ReadProfile
    <3> QED
      BY <2>2, <3>1, <3>2, <3>3 DEF LimitStands
  <2>5. CASE EndLimit
    <3>1. /\ UNCHANGED <<shadow, profile>> /\ lastProfile' = asked /\ at = "EndLimit" /\ at' = "Sentinel"
          /\ ready' => ready \/ asked = "Acquisition"
      BY <2>5 DEF EndLimit, device
    <3> QED
      BY <2>2, <3>1 DEF LimitStands, Limit
  <2>6. CASE Around
    <3>1. UNCHANGED <<at, asked, lastProfile>>
      BY <2>6, AroundSteps DEF locals
    <3>2. ready' /\ profile' = "Acquisition" => ready /\ profile = "Acquisition"
      BY <2>6 DEF Around, Tick, Request, InternalReset, RailDips, Reload, Extracted, ReadyAfter, cells
    <3>3. shadow' = shadow
      BY <2>1, <2>6 DEF LimitWritten, Around, Tick, Request, InternalReset, RailDips, Reload, Extracted,
                        Moved, Clean, device
    <3> QED
      BY <2>2, <3>1, <3>2, <3>3 DEF LimitStands
  <2>7. CASE ~(LimitWritten \/ ReadProfile \/ EndLimit \/ Around)
    <3>1. /\ at # "EndLimit" /\ at' # "EndLimit" /\ UNCHANGED <<profile>>
          /\ ready' => ready
          /\ lastProfile' \in {lastProfile, "-"}
      <4>1. CASE Aside
        BY <2>7, <4>1 DEF Aside, NothingAsked, NothingVolatile, Resume, NoCeiling, LimitFails, SpeedStands,
           ReadSpeed, SpeedWritten, SpeedFails, Wake, cells, locals
      <4>2. CASE ~Aside
        BY <1>3, <2>7, <4>2, AdvanceSteps, Steps DEF ServeAccess, WatchSentinel, StepFails, NothingToPublish,
           PublishCandidate, EndJob, Resume, cells, locals
      <4> QED
        BY <4>1, <4>2
    <3>2. shadow' = shadow
      BY <2>1, <2>7
    <3> QED
      BY <2>2, <3>1, <3>2 DEF LimitStands
  <2> QED
    BY <2>3, <2>4, <2>5, <2>6, <2>7
<1> QED
  BY <1>1, <1>2, <1>3

LEMMA InvKept == TypeOK /\ IInv /\ ~FailuresLand /\ [Next]_vars => (TypeOK /\ IInv)'
BY TypeKept, JobKept, TodoKept, AskedKept, CheckKept, ImageKept, LimitKept DEF IInv

LEMMA AlwaysInv == ASSUME ~FailuresLand PROVE Spec => [](TypeOK /\ IInv)
<1>1. Init => TypeOK /\ IInv
  BY InitHolds
<1>2. (TypeOK /\ IInv) /\ [Next]_vars => (TypeOK /\ IInv)'
  BY InvKept
<1> QED
  BY <1>1, <1>2, PTL DEF Spec

\* Whatever fails, is ignored or is lost: a verdict that permits operation speaks
\* of the registers as they are, and a ceiling that is ready is the one asked for.
THEOREM PublicationsHold == ASSUME ~FailuresLand PROVE Spec => []PublishedHolds
<1>1. TypeOK /\ IInv => PublishedHolds
  <2> SUFFICES ASSUME TypeOK, IInv PROVE PublishedHolds
    OBVIOUS
  <2>1. RunnableHolds
    BY DEF IInv, ImageStands, RunnableHolds, Clean
  <2>2. ReadyMeansAcquisition
    BY DEF IInv, LimitStands, ReadyMeansAcquisition, Clean
  <2> QED
    BY <2>1, <2>2 DEF PublishedHolds
<1> QED
  BY <1>1, AlwaysInv, PTL

-----------------------------------------------------------------------------
(* The override.                                                           *)

\* The controller holds no override once the task takes it for withdrawn.
THEOREM SpeedWithdrawn == ASSUME ~FailuresLand PROVE Spec => []OverrideWithdrawn
<1>1. Init => SpeedInStep
  BY DEF Init, SpeedInStep
<1>2. TypeOK /\ SpeedInStep /\ [Next]_vars => SpeedInStep'
  <2> SUFFICES ASSUME TypeOK, SpeedInStep, [Next]_vars PROVE SpeedInStep'
    OBVIOUS
  <2>1. CASE UNCHANGED vars
    BY <2>1 DEF SpeedInStep, vars, device, locals
  <2>2. CASE Around
    <3>1. lastSpeed' = lastSpeed /\ override' \in {override, "Pin"}
      BY <2>2 DEF Around, Tick, Request, InternalReset, RailDips, Reload, Extracted, device, locals
    <3> QED
      BY <3>1 DEF SpeedInStep
  <2>3. CASE Aside
    <3>1. \/ UNCHANGED <<override, lastSpeed>>
          \/ override' = asked /\ lastSpeed' = asked
      BY <2>3 DEF Aside, NothingAsked, NothingVolatile, NoCeiling, ReadProfile, LimitWritten, LimitFails,
         EndLimit, SpeedStands, ReadSpeed, SpeedWritten, SpeedFails, LastSpeedKept, Wake, device, locals
    <3> QED
      BY <3>1 DEF SpeedInStep
  <2>4. CASE ~Around /\ ~Aside /\ Next
    <3>1. UNCHANGED <<override, lastSpeed>>
      BY <2>4, Steps DEF Advance, StatusClean, RegisterMatches, RegisterWritten, NothingToCommit, CommitWritten,
         CommitConfirmed, StepDone, ServeAccess, WatchSentinel, StepFails, NothingToPublish, PublishCandidate,
         PublishVerdict, device, locals
    <3> QED
      BY <3>1 DEF SpeedInStep
  <2> QED
    BY <2>1, <2>2, <2>3, <2>4
<1>3. SpeedInStep => OverrideWithdrawn
  BY DEF SpeedInStep, OverrideWithdrawn
<1>4. Spec => [](TypeOK /\ IInv)
  BY AlwaysInv
<1> QED
  BY <1>1, <1>2, <1>3, <1>4, PTL DEF Spec

-----------------------------------------------------------------------------
(* The sentinel.                                                           *)

LEMMA LossKept ==
  ASSUME TypeOK, IInv, ~FailuresLand, LossInStep, [Next]_vars
  PROVE  LossInStep'
<1> USE DEF IInv
<1>1. CASE UNCHANGED vars
  BY <1>1 DEF LossInStep, Lost, vars, device, cells, jobVars, Busy
<1>2. CASE Around
  <2>1. /\ UNCHANGED <<at, slice, job, todo, outcome, written>> /\ verdict' \in {verdict, "Unverified"}
        /\ \/ UNCHANGED <<shadow, unsure>>
           \/ unsure' = (unsure \ {"lost"}) \cup {IF job = NoAccess THEN "before" ELSE "during"}
    BY <1>2, AroundSteps DEF jobVars
  <2>2. "lost" \in unsure' => UNCHANGED <<shadow, unsure>>
    BY <2>1
  <2> QED
    BY <2>1, <2>2 DEF LossInStep, Lost, Busy
<1>3. CASE Wake
  <2>1. /\ UNCHANGED <<shadow, verdict, job, outcome, todo>> /\ at = "Sleep" /\ at' = "Access"
        /\ slice' # 0 => unsure' = unsure
        /\ job = NoAccess
    BY <1>3 DEF Wake, device, cells, jobVars, JobInStep, Busy
  <2> QED
    BY <2>1 DEF LossInStep, Lost, Busy, NoAccess
<1>4. CASE Aside /\ ~Wake
  <2>1. ~Busy /\ ~Busy' /\ UNCHANGED <<job, todo, outcome, written>> /\ job = NoAccess
    BY <1>4, AsideSteps DEF JobInStep, jobVars
  <2>2. unsure' = unsure /\ verdict' \in {verdict, "Failed"}
    BY <1>4 DEF Aside, NothingAsked, NothingVolatile, NoCeiling, ReadProfile, LimitWritten, LimitFails,
       EndLimit, SpeedStands, ReadSpeed, SpeedWritten, SpeedFails, cells
  <2>3. shadow'["ceiling"] = shadow["ceiling"]
    BY <1>4 DEF Aside, NothingAsked, NothingVolatile, NoCeiling, ReadProfile, LimitWritten, LimitFails, PutLimit,
       EndLimit, SpeedStands, ReadSpeed, SpeedWritten, SpeedFails, device, TypeOK, Register
  <2>4. slice' # 0 => slice # 0 \/ ~Lost
    BY <1>4 DEF Aside, NothingAsked, NothingVolatile, NoCeiling, ReadProfile, LimitWritten, LimitFails,
       EndLimit, SpeedStands, ReadSpeed, SpeedWritten, SpeedFails, Resume, Watched, Lost, JobInStep, Busy, NoAccess
  <2>5. slice' = 0 => at' \notin {"Speed", "SetSpeed", "Sleep"}
    BY <1>4 DEF LossInStep, Aside, NothingAsked, NothingVolatile, NoCeiling, ReadProfile, LimitWritten, LimitFails,
       EndLimit, SpeedStands, ReadSpeed, SpeedWritten, SpeedFails, Resume
  <2>6. Lost' => Lost
    BY <2>2, <2>3 DEF Lost
  <2> QED
    BY <2>1, <2>2, <2>4, <2>5, <2>6 DEF LossInStep, NoAccess
<1>5. CASE Advance
  <2>1. /\ todo \in Seq(BusStep) /\ todo # <<>> /\ todo' = Tail(todo) /\ at = "Working"
        /\ UNCHANGED <<at, slice, job, outcome, verdict, unsure>>
    BY <1>5, AdvanceSteps DEF TypeOK, cells
  <2>2. CASE RegisterWritten
    <3>1. written' /\ todo[1].do \in Changing
      BY <1>5, <2>2, AdvanceSteps DEF RegisterWritten
    <3>2. Writing(job)
      BY <2>1, <3>1, FirstStep DEF TodoInStep
    <3>3. outcome # "Nothing"
      BY <2>1, <3>2 DEF JobInStep
    <3> QED
      BY <2>1, <3>1, <3>2, <3>3 DEF LossInStep, Busy, Writing
  <2>3. CASE ~RegisterWritten
    <3>1. /\ UNCHANGED <<shadow, written>>
          /\ todo[1].do = "Compare" => shadow[todo[1].reg] = todo[1].word
      BY <1>5, <2>3, AdvanceSteps
    <3> QED
      BY <2>1, <3>1 DEF LossInStep, Lost, Busy
  <2> QED
    BY <2>2, <2>3
<1>6. CASE ServeAccess
  <2>1. /\ access.op # "Sentinel" /\ job' = access /\ ~Busy /\ at' = "Working"
        /\ UNCHANGED <<shadow, verdict, unsure, slice>>
    BY <1>6 DEF ServeAccess, Perform, Busy, device, cells
  <2> QED
    BY <2>1 DEF LossInStep, Lost
<1>7. CASE WatchSentinel
  <2>1. /\ ~Busy /\ at' = "Working" /\ UNCHANGED <<shadow, verdict, unsure, slice>>
    BY <1>7 DEF WatchSentinel, Busy, device, cells
  <2>2. outcome' = "Nothing" => todo' # <<>> /\
          todo'[1] = [do |-> "Compare", reg |-> "ceiling", word |-> "golden"]
    BY <1>7 DEF WatchSentinel
  <2> QED
    BY <2>1, <2>2 DEF LossInStep, Lost
<1>8. CASE StepFails
  <2>1. /\ shadow' = shadow /\ UNCHANGED <<at, slice, verdict, job, written, unsure>>
        /\ todo[1].do # "Put" => outcome' = "Failed"
        /\ todo \in Seq(BusStep) /\ todo # <<>>
    BY <1>8 DEF StepFails, Landed, FailedVerdict, cells, TypeOK
  <2>2. todo[1].do = "Put" => job.op = "Write" /\ ~written
    BY <2>1, FirstStep DEF TodoInStep
  <2> QED
    BY <2>1, <2>2 DEF LossInStep, Lost, Busy
<1>9. CASE NothingToPublish
  <2>1. /\ at = "Working" /\ todo = <<>> /\ outcome = "Nothing" /\ UNCHANGED <<shadow, verdict>>
        /\ job' = NoAccess /\ ("lost" \in unsure' => "lost" \in unsure)
        /\ IF job.op = "Sentinel" THEN at' = "Access" /\ slice' = 1
           ELSE at' = (IF slice = 0 THEN "Profile" ELSE "Speed") /\ UNCHANGED slice
    BY <1>9 DEF NothingToPublish, EndJob, Resume, device, cells
  <2> QED
    BY <2>1 DEF LossInStep, Lost, Busy, NoAccess
<1>10. CASE PublishCandidate
  BY <1>10 DEF PublishCandidate, LossInStep, Lost, Busy, device, jobVars
<1>11. CASE PublishVerdict
  <2>1. /\ "lost" \notin unsure'
        /\ IF job.op = "Sentinel" THEN at' = "Access" /\ slice' = 1
           ELSE at' = (IF slice = 0 THEN "Profile" ELSE "Speed") /\ UNCHANGED slice
    BY <1>11 DEF PublishVerdict, EndJob, Resume
  <2> QED
    BY <2>1 DEF LossInStep
<1> QED
  BY <1>1, <1>2, <1>3, <1>4, <1>5, <1>6, <1>7, <1>8, <1>9, <1>10, <1>11, Steps

\* A volatile image whose sentinel word was lost before a cycle has cost the
\* verdict by the next one, for any number of service slices.
THEOREM LossesNoticed == ASSUME ~FailuresLand PROVE Spec => LossNoticed
<1> DEFINE I == TypeOK /\ IInv /\ LossInStep
           Noticed == at = "Sleep" /\ slice' = 0 /\ "lost" \in unsure => ~Lost
<1>1. Init => I
  <2>1. Init => LossInStep
    BY DEF Init, LossInStep, Lost, NoAccess
  <2> QED
    BY <2>1, InitHolds
<1>2. I /\ [Next]_vars => I'
  BY InvKept, LossKept
<1>3. I /\ [Next]_vars => [Noticed]_vars
  <2> SUFFICES ASSUME I, Next, at = "Sleep", slice' = 0, "lost" \in unsure PROVE ~Lost
    OBVIOUS
  <2>1. ~Busy /\ slice # 0
    BY DEF Busy, LossInStep
  <2> QED
    BY <2>1 DEF LossInStep
<1> QED
  BY <1>1, <1>2, <1>3, PTL DEF Spec, LossNoticed

=============================================================================
