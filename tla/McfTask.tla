------------------------------- MODULE McfTask -------------------------------
(***************************************************************************)
(* The MCF task and the configuration it vouches for (firmware/app/src/    *)
(* main.rs mcf_task, mcf.rs, core/src/mcf_config.rs): console operations   *)
(* on the configuration, the current ceiling, the sentinel that watches    *)
(* the volatile image, and the digital speed, against a controller that    *)
(* may lose its registers at any time and a bus that may fail.             *)
(*                                                                         *)
(* One step serves one register, or is the stretch between two of them.    *)
(* The control loop pre-empts the task anywhere (Tick), save between two   *)
(* loads of cells that stand next to each other; thread mode runs only     *)
(* while it sleeps, so that is when requests arrive.  The register         *)
(* block is four registers: one a candidate overrides (tuned), the         *)
(* sentinel (ceiling), the one with ILIMIT (limit) and the only one in     *)
(* which the bench image differs from the golden one (rest).  The status   *)
(* read feeds the supervisor and changes nothing here.                     *)
(***************************************************************************)
EXTENDS Sequences, Integers

CONSTANTS
  Candidates,     \* the words a candidate puts in the tuned register
  Stubborn,       \* the registers that may ignore a write and acknowledge it
  RawWrites,      \* the registers the console writes by hand
  Profiles,       \* the ceilings the supervisor asks for
  FailuresLand,   \* may an access that is reported failed have been performed?
  SLICES          \* service slices between two polls

ASSUME McfAssumption ==
  /\ Candidates # {} /\ "factory" \notin Candidates /\ "-" \notin Candidates
  /\ Stubborn \subseteq {"tuned", "ceiling", "limit", "rest"}
  /\ RawWrites \subseteq {"tuned", "ceiling", "limit", "rest"}
  /\ Profiles \subseteq {"Acquisition", "Settling", "Running"}
  /\ "Acquisition" \in Profiles
  /\ FailuresLand \in BOOLEAN
  /\ SLICES \in Nat \ {0}

VARIABLES
  shadow, eeprom,   \* the controller's registers and what it reloads them from
  override,         \* its ALGO_DEBUG1
  verdict,          \* VERDICT
  candidate,        \* TUNE_CANDIDATE
  profile, ready,   \* CURRENT_PROFILE and CURRENT_PROFILE_READY
  demand,           \* DIGITAL_SPEED_DUTY, zero or not
  pgoodFell,        \* PGOOD_FELL
  access,           \* ACCESS_REQUEST
  at, slice,        \* where the task is in its cycle
  job,              \* the access it serves, or the sentinel
  todo,             \* the bus accesses of the job that are left
  outcome,          \* the verdict the job will publish
  written,          \* applied.written is not zero
  asked,            \* the ceiling or speed word read before a bus access
  lastProfile, lastSpeed, healthy,   \* locals of mcf_task
  unsure            \* history: the registers moved before, or during, this job;
                    \* a volatile image was already lost when the cycle began

device == <<shadow, eeprom, override>>
cells == <<verdict, candidate, profile, ready, demand, pgoodFell>>
jobVars == <<job, todo, outcome, written>>
locals == <<asked, lastProfile, lastSpeed, healthy>>
vars == <<device, cells, access, at, slice, jobVars, locals, unsure>>

RegisterOrder == <<"tuned", "ceiling", "limit", "rest">>
Register == {"tuned", "ceiling", "limit", "rest"}
Word == {"golden", "bench", "settling", "factory"} \cup Candidates

GoldenImage == [r \in Register |-> "golden"]
BenchImage == [GoldenImage EXCEPT !["rest"] = "bench"]
FactoryImage == [r \in Register |-> "factory"]
CandidateImage(c) == [GoldenImage EXCEPT !["tuned"] = c]

ConfigCheck == {"Unverified", "Provisional", "Tuning", "Verified", "Failed"}
Permits(v) == v \in {"Provisional", "Tuning", "Verified"}
CurrentProfile == {"Acquisition", "Settling", "Running"}
SpeedWord == {"Pin", "Zero", "Turn"}

\* The acquisition and the running ceiling are the same word.
Limit(p) == IF p = "Settling" THEN "settling" ELSE "golden"

\* An access with its argument: a candidate, or the register of a raw write.
Access ==
  {[op |-> op, arg |-> "-"] : op \in {"None", "Check", "Stage", "Apply", "Sentinel"}}
  \cup {[op |-> "Tune", arg |-> c] : c \in Candidates}
  \cup {[op |-> "Write", arg |-> r] : r \in RawWrites}

NoAccess == [op |-> "None", arg |-> "-"]
Writing(a) == a.op \in {"Stage", "Tune", "Apply", "Write"}

BusStep == [do : {"Status", "Compare", "Ensure", "Put", "Commit", "Confirm"},
            reg : Register \cup {"-"}, word : Word \cup {"-"}]

TypeOK ==
  /\ shadow \in [Register -> Word] /\ eeprom \in [Register -> Word]
  /\ override \in SpeedWord
  /\ verdict \in ConfigCheck /\ candidate \in Candidates \cup {"-"}
  /\ profile \in CurrentProfile /\ ready \in BOOLEAN
  /\ demand \in {0, 1} /\ pgoodFell \in BOOLEAN
  /\ access \in Access /\ job \in Access
  /\ at \in {"Access", "Profile", "SetLimit", "EndLimit", "Sentinel", "Working",
             "Candidate", "Verdict", "Speed", "SetSpeed", "Sleep"}
  /\ slice \in 0..SLICES
  /\ todo \in Seq(BusStep) /\ outcome \in ConfigCheck \cup {"Nothing"}
  /\ written \in BOOLEAN
  /\ asked \in CurrentProfile \cup SpeedWord \cup {"-"}
  /\ lastProfile \in CurrentProfile \cup {"-"} /\ lastSpeed \in SpeedWord \cup {"-"}
  /\ healthy \in BOOLEAN /\ unsure \subseteq {"before", "during", "lost"}

-----------------------------------------------------------------------------
(* The configuration operations as sequences of register accesses.         *)

Each(do, image) ==
  [i \in DOMAIN RegisterOrder |->
     [do |-> do, reg |-> RegisterOrder[i], word |-> image[RegisterOrder[i]]]]

Bare(do) == <<[do |-> do, reg |-> "-", word |-> "-"]>>

\* check: the device's own word on its EEPROM first, then every setting.
CheckImage(image) == Bare("Status") \o Each("Compare", image)

\* write_shadow: every setting the device does not already satisfy.
WriteShadow(image) == Each("Ensure", image)

WriteAndCheck(image) == WriteShadow(image) \o CheckImage(image)

StageCandidate(c) ==
  /\ outcome' = "Tuning"
  /\ todo' = WriteAndCheck(GoldenImage)
             \o <<[do |-> "Ensure", reg |-> "tuned", word |-> c]>>
             \o CheckImage(CandidateImage(c))

Stage ==
  /\ outcome' = "Provisional"
  /\ todo' = WriteAndCheck(BenchImage)

Apply ==
  /\ outcome' = "Verified"
  /\ todo' = WriteShadow(GoldenImage) \o Bare("Commit") \o Bare("Confirm")
             \o CheckImage(GoldenImage)

WriteAndForget(r) ==   \* a slip: a raw write leaves the verdict standing
  /\ outcome' = "Nothing"
  /\ todo' = <<[do |-> "Put", reg |-> r, word |-> "factory"]>>

WriteAndRecheck(r) ==
  /\ outcome' = "Verified"
  /\ todo' = <<[do |-> "Put", reg |-> r, word |-> "factory"]>> \o CheckImage(GoldenImage)

\* A check is against the image the standing verdict speaks of.
CheckStanding ==
  \/ /\ verdict = "Provisional"
     /\ outcome' = "Provisional" /\ todo' = CheckImage(BenchImage)
  \/ /\ verdict = "Tuning" /\ candidate # "-"
     /\ outcome' = "Tuning" /\ todo' = CheckImage(CandidateImage(candidate))
  \/ /\ verdict = "Tuning" /\ candidate = "-"
     /\ outcome' = "Unverified" /\ todo' = <<>>
  \/ /\ verdict \notin {"Provisional", "Tuning"}
     /\ outcome' = "Verified" /\ todo' = CheckImage(GoldenImage)

Perform(a) ==
  \/ a.op = "Check" /\ CheckStanding
  \/ a.op = "Stage" /\ Stage
  \/ a.op = "Tune" /\ StageCandidate(a.arg)
  \/ a.op = "Apply" /\ Apply
  \/ a.op = "Write" /\ WriteAndRecheck(a.arg)

-----------------------------------------------------------------------------
(* The task's cycle: access, ceiling, sentinel, poll, then the slices.     *)

Init ==
  /\ eeprom \in {FactoryImage, GoldenImage} /\ shadow = eeprom /\ override = "Pin"
  /\ verdict = IF eeprom = GoldenImage THEN "Verified" ELSE "Failed"
  /\ candidate = "-" /\ profile = "Acquisition" /\ ready = FALSE
  /\ demand = 0 /\ pgoodFell = FALSE /\ access = NoAccess
  /\ at = "Access" /\ slice = 0
  /\ job = NoAccess /\ todo = <<>> /\ outcome = "Nothing" /\ written = FALSE
  /\ asked = "-" /\ lastProfile = "-" /\ lastSpeed = "-" /\ healthy = TRUE
  /\ unsure = {}

\* Where the task goes from service_access, and from the sentinel.
Resume ==
  IF at = "Sentinel" \/ job.op = "Sentinel" THEN at' = "Access" /\ slice' = 1
  ELSE at' = (IF slice = 0 THEN "Profile" ELSE "Speed") /\ UNCHANGED slice

NothingAsked ==
  /\ at = "Access" /\ access = NoAccess
  /\ Resume
  /\ UNCHANGED <<device, cells, access, jobVars, locals, unsure>>

ServeAccess ==
  /\ at = "Access" /\ access # NoAccess
  /\ Perform(access)
  /\ job' = access /\ access' = NoAccess /\ written' = FALSE
  /\ at' = "Working"
  /\ UNCHANGED <<device, cells, slice, locals, unsure>>

WatchedTuning == verdict = "Tuning"   \* a slip: the bench image is not watched

Watched == verdict \in {"Provisional", "Tuning"}

\* Between full checks the sentinel watches the images that are only volatile.
WatchSentinel ==
  /\ at = "Sentinel" /\ Watched
  /\ job' = [op |-> "Sentinel", arg |-> "-"] /\ written' = FALSE
  /\ at' = "Working"
  /\ IF verdict = "Tuning" /\ candidate = "-"
     THEN todo' = <<>> /\ outcome' = "Unverified"
     ELSE /\ outcome' = "Nothing"
          /\ todo' = <<[do |-> "Compare", reg |-> "ceiling", word |-> "golden"]>>
               \o (IF verdict = "Tuning"
                   THEN <<[do |-> "Compare", reg |-> "tuned", word |-> candidate]>>
                   ELSE <<>>)
  /\ UNCHANGED <<device, cells, access, slice, locals, unsure>>

NothingVolatile ==
  /\ at = "Sentinel" /\ ~Watched
  /\ Resume
  /\ UNCHANGED <<device, cells, access, jobVars, locals, unsure>>

-----------------------------------------------------------------------------
(* One access of a job.                                                    *)

Doing(do) == at = "Working" /\ todo # <<>> /\ todo[1].do = do

StepDone == todo' = Tail(todo) /\ UNCHANGED <<cells, access, at, slice, job, outcome, locals, unsure>>

StatusClean ==
  /\ Doing("Status")
  /\ StepDone
  /\ UNCHANGED <<device, written>>

Matches(step) == shadow[step.reg] = step.word

RegisterMatches ==
  /\ Doing("Compare") \/ Doing("Ensure")
  /\ Matches(todo[1])
  /\ StepDone
  /\ UNCHANGED <<device, written>>

Put(step) == shadow' = [shadow EXCEPT ![step.reg] = step.word]

\* The write is acknowledged; whether it stuck only a later read will tell.
RegisterWritten ==
  /\ Doing("Put") \/ (Doing("Ensure") /\ ~Matches(todo[1]))
  /\ Put(todo[1]) \/ (todo[1].reg \in Stubborn /\ UNCHANGED shadow)
  /\ written' = TRUE
  /\ StepDone
  /\ UNCHANGED <<eeprom, override>>

\* apply commits only if it wrote something.
CommitNeeded == written

NothingToCommit ==
  /\ Doing("Commit") \/ Doing("Confirm")
  /\ ~CommitNeeded
  /\ StepDone
  /\ UNCHANGED <<device, written>>

CommitWritten ==
  /\ Doing("Commit") /\ CommitNeeded
  /\ StepDone
  /\ UNCHANGED <<device, written>>

\* The command register reads zero: stored, or the device has been reset since.
CommitConfirmed ==
  /\ Doing("Confirm") /\ CommitNeeded
  /\ eeprom' = shadow \/ ("during" \in unsure /\ UNCHANGED eeprom)
  /\ StepDone
  /\ UNCHANGED <<shadow, override, written>>

\* What a failed access may have done to the device all the same.
Landed(step) ==
  \/ UNCHANGED <<shadow, eeprom>>
  \/ FailuresLand /\ step.do \in {"Put", "Ensure"} /\ Put(step) /\ UNCHANGED eeprom
  \/ step.do = "Confirm" /\ eeprom' = shadow /\ UNCHANGED shadow

FailedVerdict == "Failed"

\* A register that is unreadable, differs or refuses its write, a suspect
\* EEPROM, a commit without confirmation: the job ends with a failed verdict,
\* save that a raw write which is refused answers its caller and no more.
StepFails ==
  /\ at = "Working" /\ todo # <<>>
  /\ Landed(todo[1])
  /\ todo' = <<>>
  /\ outcome' = IF todo[1].do = "Put" THEN "Nothing" ELSE FailedVerdict
  /\ UNCHANGED <<override, cells, access, at, slice, job, written, locals, unsure>>

EndJob(moved, kept) ==
  /\ job' = NoAccess /\ outcome' = "Nothing" /\ written' = FALSE
  /\ unsure' = (IF moved THEN {"before"} ELSE {}) \cup kept
  /\ UNCHANGED todo
  /\ Resume

NothingToPublish ==
  /\ at = "Working" /\ todo = <<>> /\ outcome = "Nothing"
  /\ EndJob(unsure # {}, unsure \cap {"lost"})
  /\ UNCHANGED <<device, cells, access, locals>>

\* publish_verdict and publish_tuning: two cells, a critical section each.
PublishCandidate ==
  /\ at = "Working" /\ todo = <<>> /\ outcome # "Nothing"
  /\ at' = "Verdict"
  /\ candidate' = CASE outcome # "Tuning" -> "-"
                    [] job.op = "Tune" -> job.arg
                    [] OTHER -> candidate
  /\ UNCHANGED <<device, verdict, profile, ready, demand, pgoodFell, access, slice,
                 jobVars, locals, unsure>>

PublishVerdict ==
  /\ at = "Verdict"
  /\ verdict' = outcome
  /\ EndJob("during" \in unsure, {})
  /\ UNCHANGED <<device, candidate, profile, ready, demand, pgoodFell, access, locals>>

JobStep ==
  \/ StatusClean \/ RegisterMatches \/ RegisterWritten
  \/ NothingToCommit \/ CommitWritten \/ CommitConfirmed \/ StepFails
  \/ NothingToPublish \/ PublishCandidate \/ PublishVerdict

-----------------------------------------------------------------------------
(* service_current_profile: the ceiling of the bench image.                *)

NoCeiling ==
  /\ at = "Profile" /\ verdict # "Provisional"
  /\ lastProfile' = "-" /\ ready' = FALSE
  /\ at' = "Sentinel"
  /\ UNCHANGED <<device, verdict, candidate, profile, demand, pgoodFell, access, slice,
                 jobVars, asked, lastSpeed, healthy, unsure>>

\* A ceiling that was written before is not written, nor read, again.
ReadProfile ==
  /\ at = "Profile" /\ verdict = "Provisional"
  /\ asked' = profile
  /\ IF lastProfile = profile
     THEN at' = "EndLimit" /\ UNCHANGED ready
     ELSE /\ at' = "SetLimit"
          /\ ready' = (ready /\ profile # "Acquisition")
  /\ UNCHANGED <<device, verdict, candidate, profile, demand, pgoodFell, access, slice,
                 jobVars, lastProfile, lastSpeed, healthy, unsure>>

\* Only ILIMIT changes: a register that is not the image's remains foreign.
PutLimit ==
  shadow' = [shadow EXCEPT !["limit"] = IF @ = "factory" THEN @ ELSE Limit(asked)]

LimitWritten ==
  /\ at = "SetLimit"
  /\ PutLimit
  /\ at' = "EndLimit"
  /\ UNCHANGED <<eeprom, override, cells, access, slice, jobVars, locals, unsure>>

\* The failure is logged, and the write tried again in the next cycle.
LimitFails ==
  /\ at = "SetLimit"
  /\ UNCHANGED shadow \/ (FailuresLand /\ PutLimit)
  /\ at' = "Sentinel" /\ asked' = "-"
  /\ UNCHANGED <<eeprom, override, cells, access, slice, jobVars, lastProfile,
                 lastSpeed, healthy, unsure>>

EndLimit ==
  /\ at = "EndLimit"
  /\ lastProfile' = asked
  /\ ready' = (ready \/ asked = "Acquisition")
  /\ at' = "Sentinel" /\ asked' = "-"
  /\ UNCHANGED <<device, verdict, candidate, profile, demand, pgoodFell, access, slice,
                 jobVars, lastSpeed, healthy, unsure>>

-----------------------------------------------------------------------------
(* service_digital_speed and its caller.                                   *)

WantedSpeed ==
  IF ~Permits(verdict) THEN "Pin" ELSE IF demand = 0 THEN "Zero" ELSE "Turn"

SpeedStands ==
  /\ at = "Speed" /\ lastSpeed = WantedSpeed
  /\ healthy' = TRUE
  /\ at' = "Sleep"
  /\ UNCHANGED <<device, cells, access, slice, jobVars, asked, lastProfile, lastSpeed, unsure>>

ReadSpeed ==
  /\ at = "Speed" /\ lastSpeed # WantedSpeed
  /\ asked' = WantedSpeed
  /\ at' = "SetSpeed"
  /\ UNCHANGED <<device, cells, access, slice, jobVars, lastProfile, lastSpeed, healthy, unsure>>

SpeedWritten ==
  /\ at = "SetSpeed"
  /\ override' = asked /\ lastSpeed' = asked /\ healthy' = TRUE
  /\ at' = "Sleep" /\ asked' = "-"
  /\ UNCHANGED <<shadow, eeprom, cells, access, slice, jobVars, lastProfile, unsure>>

LastSpeedAdvanced == lastSpeed' = asked   \* a slip: advanced before the write

LastSpeedKept == UNCHANGED lastSpeed

\* The first failure in a row fails the verdict; all of them withdraw readiness.
SpeedFails ==
  /\ at = "SetSpeed"
  /\ UNCHANGED override \/ (FailuresLand /\ override' = asked)
  /\ LastSpeedKept
  /\ healthy' = FALSE /\ ready' = FALSE
  /\ IF healthy THEN verdict' = "Failed" /\ candidate' = "-"
                ELSE UNCHANGED <<verdict, candidate>>
  /\ at' = "Sleep" /\ asked' = "-"
  /\ UNCHANGED <<shadow, eeprom, profile, demand, pgoodFell, access, slice, jobVars,
                 lastProfile, unsure>>

\* A volatile image is vouched for that the controller has lost.
Lost == verdict \in {"Provisional", "Tuning"} /\ shadow["ceiling"] # "golden"

NextSlice == (slice + 1) % (SLICES + 1)

Wake ==
  /\ at = "Sleep"
  /\ at' = "Access" /\ slice' = NextSlice
  /\ unsure' = unsure \cup {m \in {"lost"} : slice' = 0 /\ Lost}
  /\ UNCHANGED <<device, cells, access, jobVars, locals>>

TaskStep ==
  \/ NothingAsked \/ ServeAccess \/ WatchSentinel \/ NothingVolatile \/ JobStep
  \/ NoCeiling \/ ReadProfile \/ LimitWritten \/ LimitFails \/ EndLimit
  \/ SpeedStands \/ ReadSpeed \/ SpeedWritten \/ SpeedFails \/ Wake

-----------------------------------------------------------------------------
(* What goes on around the task.                                           *)

Servicing == Writing(access) \/ Writing(job)

AfterPgoodLoss == IF pgoodFell THEN "Unverified" ELSE verdict

\* invalidate_current_profile_readiness and set_current_profile.
ReadyAfter(p) == ready /\ ~pgoodFell /\ (p = "Acquisition" => p = profile)

\* A tick: the invalidation, then what the supervisor asks for.  It asks for
\* nothing under a verdict that does not permit operation or while a write is
\* served, and for a speed only after a hold that outlasts many slices.
Tick(p, d) ==
  /\ verdict' = AfterPgoodLoss /\ pgoodFell' = FALSE
  /\ candidate' = IF pgoodFell /\ verdict # "Unverified" THEN "-" ELSE candidate
  /\ ~Permits(AfterPgoodLoss) \/ Servicing => p = "Acquisition" /\ d = 0
  /\ d = 1 => demand = 1 \/ lastSpeed = "Zero" \/ ~healthy
  /\ p # "Acquisition" => d = 1 \/ p = profile
  /\ profile' = p /\ demand' = d
  /\ ready' = ReadyAfter(p)
  /\ UNCHANGED <<device, access, at, slice, jobVars, locals, unsure>>

\* exchange, from a console that runs while the task sleeps, also in recover.
\* Operations that write wait for the fan to stop (begin_config_service).
Request(a) ==
  /\ at = "Sleep" \/ (at = "Access" /\ slice = 1)
  /\ access = NoAccess
  /\ Writing(a) => demand = 0 /\ profile = "Acquisition"
  /\ access' = a
  /\ UNCHANGED <<device, cells, at, slice, jobVars, locals, unsure>>

Moved == unsure' = (unsure \ {"lost"}) \cup {IF job = NoAccess THEN "before" ELSE "during"}

Reload ==
  /\ shadow' = eeprom /\ override' = "Pin"
  /\ Moved
  /\ UNCHANGED <<eeprom, verdict, candidate, profile, ready, demand, access, at, slice,
                 jobVars, locals>>

\* The controller resets itself and reloads its EEPROM.
InternalReset == Reload /\ UNCHANGED pgoodFell

RailDips == Reload /\ pgoodFell' = TRUE

\* An extraction leaves its estimates in the shadow (MPET_WRITE_SHADOW).
Extracted ==
  /\ Permits(verdict) /\ ~Servicing /\ demand = 0
  /\ shadow' = [shadow EXCEPT !["ceiling"] = "factory"]
  /\ Moved
  /\ UNCHANGED <<eeprom, override, cells, access, at, slice, jobVars, locals>>

Requests == {a \in Access : a.op \notin {"None", "Sentinel"}}

Next ==
  \/ TaskStep
  \/ \E p \in Profiles, d \in {0, 1} : Tick(p, d)
  \/ \E a \in Requests : Request(a)
  \/ InternalReset \/ RailDips \/ Extracted

Spec == Init /\ [][Next]_vars

-----------------------------------------------------------------------------
Image(v) ==
  CASE v = "Provisional" -> BenchImage
    [] v = "Tuning" -> CandidateImage(candidate)
    [] OTHER -> GoldenImage

\* A verdict that permits operation speaks of the registers as they are, from
\* when it is published until the device loses them: no failed, partial or
\* ignored write, no raw write and no ceiling leaves a verdict that is no longer
\* true (write_and_recheck, "a safety gate vouching for a configuration the
\* device is no longer holding").  The ceiling of the bench image is the
\* supervisor's to move.
RunnableHolds ==
  Permits(verdict) /\ ~Writing(job) /\ unsure = {} /\ (verdict = "Tuning" => candidate # "-") =>
    \A r \in Register : shadow[r] = Image(verdict)[r] \/ (verdict = "Provisional" /\ r = "limit")

\* When acquisition is asked for and reported ready, the bench image has the
\* acquisition ceiling, whatever ceilings were requested and withdrawn meanwhile
\* (service_current_profile, "must earn readiness from a fresh readback").
ReadyMeansAcquisition ==
  ready /\ profile = "Acquisition" /\ verdict = "Provisional" /\ ~Writing(job) /\ unsure = {} =>
    shadow["limit"] = "golden"

\* What the task publishes, a verdict that permits or a ceiling that is ready, is
\* true of the registers (publish_verdict, service_current_profile).
PublishedHolds == TypeOK /\ RunnableHolds /\ ReadyMeansAcquisition

\* Once the speed service has had its say under a verdict that does not permit
\* operation, the controller holds no override (service_digital_speed, "A
\* non-runnable verdict writes zero").
OverrideWithdrawn ==
  at = "Sleep" /\ healthy /\ lastSpeed = "Pin" => override = "Pin"

\* A volatile image whose sentinel word is lost is runnable for one status cycle
\* at most: a loss that stands when a cycle begins is gone, or has cost the
\* verdict, when the next one does (mcf_task, "a mismatch revokes operation
\* within the next 200 ms status interval").
LossNoticed ==
  [][at = "Sleep" /\ slice' = 0 /\ "lost" \in unsure => ~Lost]_vars

\* An apply that answers verified, and during which the device kept its
\* registers, has stored the golden image, whatever was staged, applied or
\* interrupted before it (apply, "verify the lot by read-back"; controls.md,
\* "Persistence happens only through the reviewed `config apply` path").
AppliedIsStored ==
  [][job.op = "Apply" /\ job' = NoAccess /\ verdict' = "Verified" /\ "during" \notin unsure =>
       eeprom' = GoldenImage]_vars
=============================================================================
