----------------------------- MODULE ControlLoop -----------------------------
(***************************************************************************)
(* The control loop among the tasks it shares state with                   *)
(* (firmware/app/src/main.rs control_task, console.rs, matter.rs, mcf.rs): *)
(* the bounded command queue, the configuration service that excludes the  *)
(* drive, and the urgent path that aborts a parameter extraction.          *)
(*                                                                         *)
(* The loop runs on the highest-priority executor, so a tick is a run of   *)
(* stages that no other task interrupts.  The console and Matter share the *)
(* thread-mode executor: they interrupt neither each other nor anyone, but *)
(* a tick may fall between any two of their steps.  The telemetry they     *)
(* decide on is the supervisor as the last tick left it.  Before the first *)
(* tick there is none, and every request is refused; the supervisor's      *)
(* initial values refuse the same ones, save a configuration write, which  *)
(* then waits for a tick.                                                  *)
(***************************************************************************)
EXTENDS Supervisor

CONSTANTS
  QUEUE_CAPACITY,     \* of COMMANDS
  SERVICE_POLLS,      \* how often begin_config_service looks before giving up
  ConsoleCommands,    \* the commands typed at the console
  MatterCommands      \* the commands Matter maps its attributes to

ASSUME LoopAssumption ==
  /\ QUEUE_CAPACITY \in Nat \ {0} /\ SERVICE_POLLS \in Nat \ {0}
  /\ ConsoleCommands \cup MatterCommands \subseteq CommandName \ {"AbortMpet", "SetReleasedMin"}

VARIABLES
  stage,          \* where in its tick the loop is
  serviceSeen,    \* the loop's local config_service
  pgoodFell,      \* PGOOD_FELL
  queue,          \* COMMANDS, with the sender and whether it saw a fault
  pending,        \* a command that passed its gate and is about to be sent
  configService,  \* CONFIG_SERVICE_ACTIVE
  console,        \* where the console is in a configuration operation
  newer, looks,   \* telemetry newer than starting_at; the looks it took
  access,         \* ACCESS_REQUEST, the register access that waits
  reply,          \* ACCESS_REPLY answers the request being waited for
  mcf,            \* what the MCF task is doing
  extracting,     \* the MCF holds an extraction command
  abortLost,      \* an abort of it was not written, or not sent
  startRequest, abortRequest,   \* MPET_START_REQUEST and MPET_ABORT_REQUEST
  mpetAbort,      \* MPET_ABORT_CONTROL, raised since it was last taken
  abortedSince    \* no extraction was requested since an abort was last raised

serviceVars == <<configService, console, newer, looks>>
accessVars == <<access, reply, mcf, extracting, abortLost>>
mpetVars == <<startRequest, abortRequest, mpetAbort, abortedSince>>
tickVars == <<stage, serviceSeen, pgoodFell>>
loopVars == <<tickVars, queue, pending, serviceVars, accessVars, mpetVars>>
allVars == <<vars, loopVars>>

Stopped == {"IdleOff", "SafeBoot", "Fault"}

Senders == {"Console", "Matter", "Update"}   \* the last of them in Ota
Sent == [op : CommandName, from : Senders, faulted : BOOLEAN]

\* What is asked of the MCF task, and whether a caller still waits for it: the
\* generation tells its answer from that of a request given up earlier.
Work == [kind : {"None", "Write", "Abort", "Start"}, awaited : BOOLEAN]

Nothing == [kind |-> "None", awaited |-> FALSE]

Ask(kind) == [kind |-> kind, awaited |-> TRUE]
Order(kind) == [kind |-> kind, awaited |-> FALSE]

LoopTypeOK ==
  /\ TypeOK
  /\ stage \in {"Asleep", "Drain", "Abort", "Poll"} /\ serviceSeen \in BOOLEAN
  /\ pgoodFell \in BOOLEAN
  /\ queue \in Seq(Sent) /\ Len(queue) =< QUEUE_CAPACITY
  /\ pending \in Seq([op : CommandName, from : Senders]) /\ Len(pending) =< 1
  /\ configService \in BOOLEAN
  /\ console \in {"Reading", "Permitted", "Beginning", "Writing", "Aborting"}
  /\ newer \in BOOLEAN /\ looks \in 0..SERVICE_POLLS
  /\ access \in Work /\ mcf \in Work /\ reply \in BOOLEAN
  /\ extracting \in BOOLEAN /\ abortLost \in BOOLEAN
  /\ startRequest \in BOOLEAN /\ abortRequest \in BOOLEAN
  /\ mpetAbort \in BOOLEAN /\ abortedSince \in BOOLEAN

LoopInit ==
  /\ Init
  /\ stage = "Asleep" /\ serviceSeen = FALSE /\ pgoodFell = FALSE
  /\ queue = <<>> /\ pending = <<>>
  /\ configService = FALSE /\ console = "Reading" /\ newer = FALSE /\ looks = 0
  /\ access = Nothing /\ reply = FALSE /\ mcf = Nothing
  /\ extracting = FALSE /\ abortLost = FALSE
  /\ startRequest = FALSE /\ abortRequest = FALSE
  /\ mpetAbort = FALSE /\ abortedSince = FALSE

-----------------------------------------------------------------------------
(* A tick of the control loop.                                             *)

BeginTick ==
  /\ stage = "Asleep"
  /\ stage' = "Drain" /\ serviceSeen' = configService
  /\ UNCHANGED <<vars, pgoodFell, queue, pending, serviceVars, accessVars, mpetVars>>

\* SetSpeed(0) does what Off does; a speed is chosen when it is performed.
Perform(op) ==
  \/ op = "Off" /\ Off
  \/ op = "Disarm" /\ Disarm
  \/ op = "On" /\ On
  \/ op = "SetSpeed" /\ \E s \in SpeedRequests \ {0} : SetSpeed(s)
  \/ op = "SetDirection" /\ \E d \in Direction : SetDirection(d)
  \/ op = "StartMpet" /\ StartMpet

Drain ==
  /\ stage = "Drain" /\ queue # <<>>
  /\ queue' = Tail(queue)
  /\ IF serviceSeen THEN UNCHANGED vars ELSE Perform(Head(queue).op)
  /\ UNCHANGED <<tickVars, pending, serviceVars, accessVars, mpetVars>>

DrainedOne == TRUE   \* a slip: the tick may leave commands for the next one

Drained == queue = <<>>

ForceNothing == UNCHANGED vars   \* a slip: dropping commands is thought enough

\* A configuration service forces the fan off, but acknowledges no fault.
ForceOff == IF serviceSeen /\ state # "Fault" THEN Off ELSE UNCHANGED vars

EndDrain ==
  /\ stage = "Drain" /\ Drained
  /\ stage' = "Abort"
  /\ ForceOff
  /\ UNCHANGED <<serviceSeen, pgoodFell, queue, pending, serviceVars, accessVars, mpetVars>>

\* A slip: an abort is meant for an extraction that has begun.
AbortHeardLate == mpetAbort /\ state \in MpetStates

AbortHeard == mpetAbort

TakeAbort ==
  /\ stage = "Abort"
  /\ stage' = "Poll"
  /\ IF AbortHeard THEN AbortMpet ELSE UNCHANGED vars
  /\ mpetAbort' = FALSE
  /\ UNCHANGED <<serviceSeen, pgoodFell, queue, pending, serviceVars, accessVars,
                 startRequest, abortRequest, abortedSince>>

\* The verdict a tick sees: none once the rail has fallen, until a check gives a
\* new one; and a rail that is low has fallen (after_pgood_loss).
Sees(in) ==
  /\ pgoodFell => in.config = "Unverified"
  /\ in.config = "Unverified" => pgoodFell \/ config = "Unverified"
  /\ ~in.pgood => ~Permits(in.config)

\* An extraction that loses its verdict is left without an abort.
Deserted == state = "Mpet" /\ ~Permits(config') /\ state' = "SafeBoot"

\* The poll, what its burst signals to the MCF task, and the new telemetry.
PollSupervisor ==
  /\ stage = "Poll"
  /\ stage' = "Asleep"
  /\ \E dt \in Elapsed, in \in Inputs : Sees(in) /\ Poll(dt, in)
  /\ pgoodFell' = FALSE
  /\ startRequest' = (startRequest \/ "StartMpet" \in Range(actions'))
  /\ abortRequest' = (abortRequest \/ "AbortMpet" \in Range(actions'))
  /\ abortLost' = (abortLost \/ Deserted)
  /\ newer' = TRUE
  /\ UNCHANGED <<serviceSeen, queue, pending, configService, console, looks,
                 access, reply, mcf, extracting, mpetAbort, abortedSince>>

TickStep == BeginTick \/ Drain \/ EndDrain \/ TakeAbort \/ PollSupervisor

-----------------------------------------------------------------------------
(* Sending commands from thread mode.                                      *)

\* Nobody in thread mode is between two of its steps.
ThreadFree == stage = "Asleep" /\ pending = <<>> /\ console # "Permitted"

StartsDrive(op) == op \in {"On", "SetSpeed", "StartMpet"}

\* console::command, and the check in mpet that the fan stands idle.
ConsoleCommand(op) ==
  /\ ThreadFree /\ console = "Reading"
  /\ ~configService
  /\ StartsDrive(op) => Permits(config)
  /\ op = "StartMpet" => state = "IdleOff"
  /\ pending' = <<[op |-> op, from |-> "Console"]>>
  /\ UNCHANGED <<vars, tickVars, queue, serviceVars, accessVars, mpetVars>>

\* FanHandler::command: Matter does not look at the configuration service.
MatterCommand(op) ==
  /\ ThreadFree
  /\ StartsDrive(op) => Permits(config)
  /\ pending' = <<[op |-> op, from |-> "Matter"]>>
  /\ UNCHANGED <<vars, tickVars, queue, serviceVars, accessVars, mpetVars>>

Room == Len(queue) < QUEUE_CAPACITY

\* try_send: a command that finds the queue full is refused.
Send ==
  /\ stage = "Asleep" /\ pending # <<>>
  /\ pending' = <<>>
  /\ IF Room
     THEN /\ queue' = Append(queue, [op |-> pending[1].op, from |-> pending[1].from,
                                     faulted |-> state = "Fault"])
          /\ abortedSince' = (abortedSince /\ pending[1].op # "StartMpet")
     ELSE UNCHANGED <<queue, abortedSince>>
  /\ UNCHANGED <<vars, tickVars, serviceVars, accessVars,
                 startRequest, abortRequest, mpetAbort>>

\* `mpet abort` at the console: the supervisor hears of it outside the queue,
\* and the MCF task is asked to write it as well.
ConsoleAbort ==
  /\ ThreadFree /\ console = "Reading"
  /\ mpetAbort' = TRUE /\ abortedSince' = TRUE
  /\ console' = "Aborting"
  /\ access' = Ask("Abort") /\ reply' = FALSE
  /\ UNCHANGED <<vars, tickVars, queue, pending, configService, newer,
                 looks, mcf, extracting, abortLost, startRequest, abortRequest>>

-----------------------------------------------------------------------------
(* The configuration service.                                              *)

\* refuse_write finds the fan stopped.
PermitWrite ==
  /\ ThreadFree /\ console = "Reading"
  /\ state \in Stopped
  /\ console' = "Permitted"
  /\ UNCHANGED <<vars, tickVars, queue, pending, configService, newer,
                 looks, accessVars, mpetVars>>

\* begin_config_service claims the service, unless another operation has it.
ClaimService ==
  /\ stage = "Asleep" /\ console = "Permitted"
  /\ IF configService
     THEN console' = "Reading" /\ UNCHANGED <<configService, newer, looks>>
     ELSE /\ configService' = TRUE /\ console' = "Beginning"
          /\ newer' = FALSE /\ looks' = 0
  /\ UNCHANGED <<vars, tickVars, queue, pending, accessVars, mpetVars>>

StoppedSince == newer /\ state \in Stopped

\* The fan is seen stopped after the claim: the write is requested (exchange).
BeginWrite ==
  /\ ThreadFree /\ console = "Beginning" /\ StoppedSince
  /\ console' = "Writing"
  /\ access' = Ask("Write") /\ reply' = FALSE
  /\ UNCHANGED <<vars, tickVars, queue, pending, configService, newer,
                 looks, mcf, extracting, abortLost, mpetVars>>

LookAgain ==
  /\ ThreadFree /\ console = "Beginning" /\ ~StoppedSince
  /\ looks < SERVICE_POLLS
  /\ looks' = looks + 1
  /\ UNCHANGED <<vars, tickVars, queue, pending, configService, console,
                 newer, accessVars, mpetVars>>

GiveUpHolding ==   \* a slip: the error path forgets to clear the flag
  /\ ThreadFree /\ console = "Beginning" /\ ~StoppedSince
  /\ looks = SERVICE_POLLS
  /\ console' = "Reading"
  /\ UNCHANGED <<vars, tickVars, queue, pending, configService, newer,
                 looks, accessVars, mpetVars>>

GiveUp ==
  /\ ThreadFree /\ console = "Beginning" /\ ~StoppedSince
  /\ looks = SERVICE_POLLS
  /\ configService' = FALSE /\ console' = "Reading"
  /\ UNCHANGED <<vars, tickVars, queue, pending, newer, looks,
                 accessVars, mpetVars>>

\* The operation is over: a write ends the service, whatever came of it.
EndOperation ==
  /\ console' = "Reading"
  /\ configService' = (configService /\ console # "Writing")

\* exchange returns the answer.
EndExchange ==
  /\ ThreadFree /\ console \in {"Writing", "Aborting"} /\ reply
  /\ EndOperation
  /\ reply' = FALSE
  /\ UNCHANGED <<vars, tickVars, queue, pending, newer, looks, access,
                 mcf, extracting, abortLost, mpetVars>>

\* exchange times out: the operation ends, its transaction does not.
Deadline ==
  /\ ThreadFree /\ console \in {"Writing", "Aborting"} /\ ~reply
  /\ EndOperation
  /\ access' = [access EXCEPT !.awaited = FALSE]
  /\ mcf' = [mcf EXCEPT !.awaited = FALSE]
  /\ UNCHANGED <<vars, tickVars, queue, pending, newer, looks, reply,
                 extracting, abortLost, mpetVars>>

ConsoleStep == ClaimService \/ BeginWrite \/ LookAgain \/ GiveUp \/ EndExchange

-----------------------------------------------------------------------------
(* The MCF task, as far as these channels see it.                          *)

Idle == stage = "Asleep" /\ mcf = Nothing

\* service_access takes the request and goes to the bus.
TakeAccess ==
  /\ Idle /\ access # Nothing
  /\ mcf' = access /\ access' = Nothing
  /\ UNCHANGED <<vars, tickVars, queue, pending, serviceVars, reply,
                 extracting, abortLost, mpetVars>>

WinningSignal == IF abortRequest THEN "Abort" ELSE "Start"

\* mcf_task: an abort wins over a start that was signalled with it.
TakeMpet ==
  /\ Idle /\ (abortRequest \/ startRequest)
  /\ mcf' = Order(WinningSignal)
  /\ abortRequest' = FALSE /\ startRequest' = FALSE
  /\ UNCHANGED <<vars, tickVars, queue, pending, serviceVars, access,
                 reply, extracting, abortLost, mpetAbort, abortedSince>>

\* The work is done; only the answer that is waited for is taken.
Answer ==
  /\ stage = "Asleep"
  /\ mcf' = Nothing /\ reply' = (reply \/ mcf.awaited)
  /\ UNCHANGED <<vars, tickVars, queue, pending, serviceVars, access,
                 startRequest, abortRequest>>

RegistersWritten ==
  /\ mcf.kind = "Write"
  /\ Answer
  /\ UNCHANGED <<extracting, abortLost, mpetAbort, abortedSince>>

StartWritten ==
  /\ mcf.kind = "Start"
  /\ Answer
  /\ extracting' = TRUE
  /\ UNCHANGED <<abortLost, mpetAbort, abortedSince>>

\* A start that fails may have reached the device; the supervisor takes it back.
StartFailed ==
  /\ mcf.kind = "Start"
  /\ Answer
  /\ extracting' \in BOOLEAN
  /\ mpetAbort' = TRUE /\ abortedSince' = TRUE
  /\ UNCHANGED abortLost

AbortWritten ==
  /\ mcf.kind = "Abort"
  /\ Answer
  /\ extracting' = FALSE /\ abortLost' = (abortLost /\ startRequest)
  /\ UNCHANGED <<mpetAbort, abortedSince>>

\* The failure of an abort is logged, or told to the console, and not retried.
AbortFailed ==
  /\ mcf.kind = "Abort"
  /\ Answer
  /\ abortLost' = (extracting \/ (abortLost /\ startRequest))
  /\ UNCHANGED <<extracting, mpetAbort, abortedSince>>

\* The rail falls, however briefly: the MCF loses what it held.
RailDips ==
  /\ stage = "Asleep" /\ ~pgoodFell
  /\ pgoodFell' = TRUE /\ extracting' = FALSE
  /\ UNCHANGED <<vars, stage, serviceSeen, queue, pending, serviceVars, access,
                 reply, mcf, abortLost, mpetVars>>

McfStep ==
  \/ TakeAccess \/ TakeMpet \/ RegistersWritten
  \/ StartWritten \/ StartFailed \/ AbortWritten \/ AbortFailed

-----------------------------------------------------------------------------
UserStep ==
  \/ \E op \in ConsoleCommands : ConsoleCommand(op)
  \/ \E op \in MatterCommands : MatterCommand(op)
  \/ ConsoleAbort
  \/ PermitWrite

LoopNext == TickStep \/ UserStep \/ Send \/ ConsoleStep \/ Deadline \/ McfStep \/ RailDips

LoopSpec == LoopInit /\ [][LoopNext]_allVars

-----------------------------------------------------------------------------
\* Configuration registers are written only while the drive is disarmed, in
\* spite of commands that were queued, or gated on older telemetry, before the
\* service began, for as long as the console waits for the write
\* (begin_config_service, control_task).  A write that outlasts its deadline
\* goes on after the service has ended, and may meet an armed drive.
WriteExcludesDrive ==
  mcf.kind = "Write" /\ mcf.awaited => state \notin Armed

\* The lock-out of normal commands is held only by an operation that will end
\* it: no path out of the service, by an answer, by a deadline or by giving up,
\* leaves the console free and the flag raised (begin_config_service, config).
ServiceOwned == configService => console \in {"Beginning", "Writing"}

\* A fault is acknowledged only by a command sent after it was entered, or by
\* an abort: no command waits in the queue across a poll, and a configuration
\* service that forces the fan off acknowledges nothing (control_task).
AcknowledgedAfresh ==
  [][~faultAck /\ faultAck' =>
       \/ stage = "Drain" /\ queue # <<>> /\ Head(queue).faulted
       \/ stage = "Abort" /\ mpetAbort]_allVars

\* Once the loop has taken an abort, no extraction that was requested before it
\* was raised is under way or still to come, wherever the request was: in the
\* queue, waiting for a poll, or running (take_mpet_abort).
AbortWins ==
  stage = "Asleep" /\ abortedSince /\ ~mpetAbort =>
    ~mpetRequested /\ state \notin MpetStates

\* Once the MCF task has nothing left to do, the device holds an extraction only
\* for a supervisor that times it, unless the bus refused the abort, or the rail
\* took the verdict and none was sent: starts and aborts overtake one another on
\* their way and must not leave one behind (mcf_task, "Abort first if both
\* signals raced").
ExtractionSupervised ==
  mcf = Nothing /\ stage = "Asleep" /\ extracting =>
    state = "Mpet" \/ abortRequest \/ abortLost

\* An extraction neither outlives its abort nor runs unsupervised: in the queue,
\* the supervisor, the signals, on the bus and in the device.
ExtractionContained == AbortWins /\ ExtractionSupervised

\* The tasks' shared cells: the queue within its bound, the types, and the
\* service's flag raised only by a handler that will lower it.
LoopConsistent == LoopTypeOK /\ ServiceOwned
=============================================================================
