--------------------------------- MODULE Ota ---------------------------------
(***************************************************************************)
(* An update over the air among the commands of the other senders          *)
(* (firmware/app/src/ota.rs, core/src/ota.rs): the gate that admits an     *)
(* upload, the task that holds the fan off while it lasts, and the reset   *)
(* into the staged image.  The tasks run in thread mode.  The upload       *)
(* itself belongs to esp-lan-ota, an external library that is updating     *)
(* while it receives and once it has staged an image.                      *)
(***************************************************************************)
EXTENDS ControlLoop

CONSTANT QUIESCE_LOOKS   \* QUIESCE_TIMEOUT, in looks at the fan

ASSUME OtaAssumption == QUIESCE_LOOKS \in Nat

VARIABLES
  accepting,      \* the library's gate, as gate_task last set it
  upload,         \* what the library is doing
  updateActive,   \* UPDATE_ACTIVE
  holding,        \* upload_task has woken for this upload
  resetLooks,     \* looks reset_when_safe has taken, NotReady before it runs
  down            \* the chip is going through its reset

otaVars == <<accepting, upload, updateActive, holding, resetLooks, down>>
updateVars == <<allVars, otaVars>>

OtaInit ==
  /\ LoopInit
  /\ accepting = FALSE /\ upload = "None" /\ updateActive = FALSE
  /\ holding = FALSE /\ resetLooks = NotReady /\ down = FALSE

-----------------------------------------------------------------------------
(* The policy.                                                             *)

ResetSafe == state \in {"SafeBoot", "IdleOff", "Fault"}

AcceptsUpload == state = "Fault" \/ (ResetSafe /\ ~on)

\* quiesce_command: never sent in Fault, where it would acknowledge the fault.
QuiesceCommand == state # "Fault" /\ (on \/ ~ResetSafe)

IsUpdating == upload # "None"

-----------------------------------------------------------------------------
(* The upload.                                                             *)

SetAccepting ==
  /\ ThreadFree
  /\ accepting # AcceptsUpload
  /\ accepting' = AcceptsUpload
  /\ UNCHANGED <<allVars, upload, updateActive, holding, resetLooks, down>>

\* The host's Begin, which erases flash from now on.
BeginUpload ==
  /\ ThreadFree
  /\ accepting /\ upload = "None" /\ resetLooks = NotReady
  /\ upload' = "Receiving"
  /\ UNCHANGED <<allVars, accepting, updateActive, holding, resetLooks, down>>

\* The image is complete, or the transfer is dropped.
FinishUpload ==
  /\ ThreadFree
  /\ upload = "Receiving"
  /\ upload' \in {"Staged", "None"}
  /\ UNCHANGED <<allVars, accepting, updateActive, holding, resetLooks, down>>

-----------------------------------------------------------------------------
(* upload_task and reset_when_safe.                                        *)

UploadStarted ==
  /\ ThreadFree
  /\ IsUpdating /\ ~holding
  /\ updateActive' = TRUE /\ holding' = TRUE
  /\ UNCHANGED <<allVars, accepting, upload, resetLooks, down>>

\* stand_down reads the telemetry and hands its Off to try_send.
StandDown ==
  /\ pending' = <<[op |-> "Off", from |-> "Update"]>>
  /\ UNCHANGED <<vars, tickVars, queue, serviceVars, accessVars, mpetVars>>

HoldOff ==
  /\ ThreadFree
  /\ holding /\ IsUpdating
  /\ QuiesceCommand
  /\ StandDown
  /\ UNCHANGED otaVars

UploadEnded ==
  /\ ThreadFree
  /\ holding /\ ~IsUpdating
  /\ updateActive' = FALSE /\ holding' = FALSE
  /\ UNCHANGED <<allVars, accepting, upload, resetLooks, down>>

\* reboot_task wakes for a staged image.
PrepareReset ==
  /\ ThreadFree
  /\ upload = "Staged" /\ resetLooks = NotReady
  /\ updateActive' = TRUE /\ resetLooks' = 0
  /\ UNCHANGED <<allVars, accepting, upload, holding, down>>

ResettablePatient == ~QuiesceCommand   \* a slip: waits as long as it takes

\* The fan is reset-safe, or has had its time.
Resettable == ~QuiesceCommand \/ resetLooks = QUIESCE_LOOKS

AwaitReset ==
  /\ ThreadFree
  /\ resetLooks # NotReady /\ ~Resettable
  /\ StandDown
  /\ resetLooks' = Older(resetLooks, 1, QUIESCE_LOOKS)
  /\ UNCHANGED <<accepting, upload, updateActive, holding, down>>

\* The supervisor starts over in its initial state, off.
Reset ==
  /\ ThreadFree
  /\ resetLooks # NotReady /\ Resettable
  /\ down' = TRUE
  /\ UNCHANGED <<allVars, accepting, upload, updateActive, holding, resetLooks>>

-----------------------------------------------------------------------------
MatterAdmitsAny(op) == TRUE   \* a slip: Matter does not know of the update

\* FanHandler::command refuses to start the drive during an update.
MatterAdmits(op) == StartsDrive(op) => ~updateActive

GatedMatterCommand == \E op \in MatterCommands : MatterAdmits(op) /\ MatterCommand(op)

LoopStep ==
  /\ \/ TickStep \/ Send \/ McfStep \/ RailDips \/ GatedMatterCommand
     \/ \E op \in ConsoleCommands : ConsoleCommand(op)
  /\ UNCHANGED otaVars

OtaNext ==
  /\ ~down
  /\ \/ LoopStep
     \/ SetAccepting \/ BeginUpload \/ FinishUpload
     \/ UploadStarted \/ HoldOff \/ UploadEnded
     \/ PrepareReset \/ AwaitReset \/ Reset

OtaSpec == OtaInit /\ [][OtaNext]_updateVars

\* The tasks of the update look four times a second between ticks, as in
\* ControlLoop; neither users nor the host are assumed to do anything.
FairOtaSpec ==
  /\ OtaSpec
  /\ WF_updateVars(~down /\ TickStep /\ UNCHANGED otaVars)
  /\ SF_updateVars(~down /\ Send /\ UNCHANGED otaVars)
  /\ SF_updateVars(~down /\ (UploadStarted \/ HoldOff \/ UploadEnded))
  /\ SF_updateVars(~down /\ (PrepareReset \/ AwaitReset \/ Reset))

-----------------------------------------------------------------------------
\* While an upload or a pending reset lasts, Matter cannot keep the fan going
\* or start it again: with a rotor that comes to rest it ends up stopped for as
\* long as the update is active (upload_task, stand_down).
UpdateHoldsOff == <>[](updateActive /\ IsQuiet /\ ~down) => <>[](state \in Stopped)

\* A staged image is booted, even if the fan never comes to rest (QUIESCE_TIMEOUT).
StagedBoots == upload = "Staged" ~> down
=============================================================================
