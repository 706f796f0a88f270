-------------------------- MODULE LiveConversation --------------------------
(***************************************************************************)
(* One live conversation: conversation_start, conversation_send and        *)
(* conversation_stop on their connection threads, Control's observation    *)
(* thread, the durable conversation, operation, turns and session claim,   *)
(* and the live runtime of Target: its handle, input writer and observer.  *)
(*                                                                         *)
(* Each turn is named by its durable position, 1 for the first turn.  A    *)
(* State call is one transaction and one step.  A line of the child is     *)
(* read when it is emitted: what is in the pipe of a child that has exited *)
(* is read before its exit is classified, as drain_ready does.             *)
(***************************************************************************)
EXTENDS Naturals, Sequences

CONSTANTS
  MaxTurns,        (* bound: turns of the conversation                     *)
  MaxFaults,       (* bound: failed State calls and thread creations       *)
  MaxCrashes,      (* bound: daemon crashes                                *)
  UnprovenExit     (* whether a kill or wait on the child may fail         *)

ASSUME LiveBoundsAssumption == /\ MaxTurns \in Nat \ {0}
                               /\ MaxFaults \in Nat
                               /\ MaxCrashes \in Nat
                               /\ UnprovenExit \in BOOLEAN

VARIABLES
  (* SQLite: survives a crash *)
  conv,        (* the conversation's state; "absent" before admission      *)
  closeMode,   (* the conversation's close_mode                            *)
  op,          (* the state of the operation with the same UUID            *)
  turn,        (* the state of the turn at each position                   *)
  claimed,     (* active_sessions has a row of this operation              *)
  (* the operating system *)
  child,       (* the direct Claude child                                  *)
  (* Control's memory *)
  up,          (* the daemon serves requests                               *)
  refusal,     (* the OnceLock that refuses every later request            *)
  starter,     (* the connection thread inside conversation::start         *)
  sender,      (* per position: the thread inside conversation::send       *)
  stopper,     (* per mode: a thread inside conversation::stop             *)
  through,     (* through_position that close_conversation gave the stopper *)
  ctl,         (* the thread inside conversation::observe                  *)
  cause,       (* the error that thread is handling                        *)
  (* Target's memory *)
  handle,      (* LiveRuntimes.handles has this operation                  *)
  admitted,    (* AdmittedTurns.positions                                  *)
  graceful,    (* AdmittedTurns.graceful_through, 0 for none               *)
  cancelled,   (* LiveHandle.cancelled                                     *)
  broken,      (* AdmittedTurns.broken                                     *)
  commands,    (* the channel of WriterCommands                            *)
  permission,  (* the running_permission channel                           *)
  writer,      (* the input writer thread                                  *)
  pending,     (* turns the writer received and has not written            *)
  next,        (* the writer's next_position                               *)
  closeAt,     (* the writer's close_through, 0 for none                   *)
  inputFailed, (* WriterReport::Failed was sent                            *)
  phase,       (* the codec's TurnPhase of each position                   *)
  target,      (* Target's observer thread                                 *)
  verdict,     (* the terminal observation it will publish                 *)
  channel,     (* the channel of TargetLiveObservations                    *)
  (* the environment *)
  failed,      (* kinds of failure this daemon has met                     *)
  faults, crashes

durable  == <<conv, closeMode, op, turn, claimed>>
requests == <<starter, sender, stopper, through>>
observer == <<ctl, cause>>
admission == <<admitted, graceful, broken>>
input    == <<permission, writer, pending, next, closeAt, inputFailed>>
output   == <<handle, phase, target, verdict>>
stopping == <<cancelled, commands, child>>
env      == <<failed, faults, crashes>>
vars     == <<durable, requests, observer, admission, input, output, stopping, channel,
              up, refusal, env>>

----------------------------------------------------------------------------
(* Types *)

Positions  == 1..MaxTurns
Modes      == {"Graceful", "Cancel"}
Admitting  == {"Open", "Closing"}
Terminal   == {"Succeeded", "Failed", "Cancelled", "Indeterminate"}
Unfinished == {"Queued", "Started"}
TurnStates == {"absent"} \cup Unfinished
              \cup {"Completed", "Cancelled", "Discarded", "Failed", "Indeterminate"}

Writing == {"alive", "killed"}        (* exit not yet reached              *)
Exited  == {"exited_ok", "exited_bad"}

Commands     == {"turn", "close", "cancel"} \X Nat
Verdicts     == {"Failed", "Indeterminate", "UnclassifiedWriter", "Cancelled", "Exited"}
TurnEvents   == {"TurnStarted", "TurnCompleted", "TurnFailed"}
Observations == (TurnEvents \X Positions) \cup (Verdicts \X {0})

TypeOK ==
  /\ conv \in {"absent"} \cup Admitting \cup Terminal
  /\ closeMode \in {"none"} \cup Modes
  /\ op \in {"absent", "Accepted", "Running"} \cup Terminal
  /\ turn \in [Positions -> TurnStates]
  /\ child \in {"none"} \cup Writing \cup Exited
  /\ {claimed, up, refusal, handle, cancelled, broken, inputFailed} \subseteq BOOLEAN
  /\ starter \in {"idle", "persisted", "live", "running", "observed", "no_writer",
                  "unproven", "stopping", "settling"}
  /\ sender \in [Positions -> {"idle", "persisted", "admitted", "failed", "closing", "stopping"}]
  /\ stopper \in [Modes -> {"idle", "closed"}]
  /\ through \in 0..MaxTurns
  /\ ctl \in {"none", "receiving", "applied", "failing", "settling", "ending", "done"}
  /\ cause \in {"none", "state", "other"}
  /\ admitted \subseteq Positions
  /\ graceful \in 0..MaxTurns
  /\ commands \in Seq(Commands)
  /\ permission \in {"none", "granted", "dropped"}
  /\ writer \in {"none", "permission", "running", "done"}
  /\ pending \subseteq Positions
  /\ next \in 1..(MaxTurns + 1)
  /\ closeAt \in 0..MaxTurns
  /\ phase \in [Positions -> {"none", "AwaitingQueue", "Queued", "Started",
                              "ResultObserved", "Completed"}]
  /\ target \in {"none", "observing", "terminating", "exited", "done", "leaked"}
  /\ verdict \in {"none"} \cup Verdicts
  /\ channel \in Seq(Observations)
  /\ failed \subseteq {"state", "thread", "observation"}
  /\ faults \in 0..MaxFaults
  /\ crashes \in 0..MaxCrashes

(* The memory of a daemon that has not served this conversation. *)
Fresh ==
  /\ starter = "idle"
  /\ sender = [p \in Positions |-> "idle"]
  /\ stopper = [m \in Modes |-> "idle"]
  /\ through = 0
  /\ ctl = "none" /\ cause = "none"
  /\ handle = FALSE /\ admitted = {} /\ graceful = 0
  /\ cancelled = FALSE /\ broken = FALSE
  /\ commands = <<>> /\ permission = "none"
  /\ writer = "none" /\ pending = {} /\ next = 1 /\ closeAt = 0 /\ inputFailed = FALSE
  /\ phase = [p \in Positions |-> "none"]
  /\ target = "none" /\ verdict = "none" /\ channel = <<>>
  /\ refusal = FALSE /\ failed = {}

Init ==
  /\ conv = "absent" /\ closeMode = "none" /\ op = "absent" /\ claimed = FALSE
  /\ turn = [p \in Positions |-> "absent"]
  /\ child = "none"
  /\ up = TRUE
  /\ Fresh
  /\ faults = 0 /\ crashes = 0

----------------------------------------------------------------------------
(* The State port: one transaction each *)

Fails(kind) ==
  /\ faults < MaxFaults
  /\ faults' = faults + 1
  /\ failed' = failed \cup {kind}
  /\ UNCHANGED crashes

NoFault == UNCHANGED env

Admitted       == {p \in Positions : turn[p] # "absent"}
HighestPosition == CHOOSE p \in Admitted : \A q \in Admitted : q <= p

(* What resolve_unfinished makes of a turn when the conversation ends.     *)
Resolved(state, t) ==
  CASE t \notin Unfinished                      -> t
    [] t \in Unfinished /\ state # "Cancelled"  -> state
    [] t = "Queued" /\ state = "Cancelled"      -> "Discarded"
    [] t = "Started" /\ state = "Cancelled"     -> "Cancelled"

(* Mutant: unfinished turns do not keep a conversation from succeeding. *)
AnyTurns(state)   == TRUE
Resolvable(state) == state = "Succeeded" => \A p \in Positions : turn[p] \notin Unfinished

(* Mutant: the claim is released whatever the disposition. *)
AlwaysReleased(disposition) == FALSE
ClaimAfter(disposition)     == claimed /\ disposition = "Retain"

(* terminalize_conversation commits, once. *)
Terminalize(state, disposition) ==
  /\ conv \in Admitting /\ op \notin Terminal
  /\ Resolvable(state)
  /\ conv' = state /\ op' = state
  /\ turn' = [p \in Positions |-> Resolved(state, turn[p])]
  /\ claimed' = ClaimAfter(disposition)
  /\ NoFault /\ UNCHANGED closeMode

(* It fails: the conversation ends for State, or its turns are unfinished. *)
TerminalizeErr(state, kind) ==
  /\ \/ ~Resolvable(state) /\ NoFault
     \/ Fails(kind)
  /\ UNCHANGED durable

TurnAllowed(from, to) ==
  \/ from = "Queued" /\ to \in {"Started", "Failed"}
  \/ from = "Started" /\ to \in {"Completed", "Failed"}

RecordTurn(p, state) ==
  /\ conv \in Admitting /\ TurnAllowed(turn[p], state)
  /\ turn' = [turn EXCEPT ![p] = state]
  /\ NoFault /\ UNCHANGED <<conv, closeMode, op, claimed>>

----------------------------------------------------------------------------
(* Target: TargetLiveStop::Cancel *)

WriterListening == writer \in {"permission", "running"}

(* A command is lost once the writer has dropped its receiver. *)
Sent(c) == IF WriterListening THEN Append(commands, c) ELSE commands

(* Mutant: the child is left to notice the end of its input. *)
Spared    == {child}
AfterKill == IF child # "alive" THEN {child}
             ELSE {"killed"} \cup (IF UnprovenExit THEN {"alive"} ELSE {})

(* The first cancellation stops the writer and kills the child; a later    *)
(* one finds the flag set.  Without a handle it is an error.               *)
CancelTarget ==
  IF handle /\ ~cancelled
  THEN /\ cancelled' = TRUE
       /\ commands' = Sent(<<"cancel", 0>>)
       /\ child' \in AfterKill
  ELSE UNCHANGED stopping

----------------------------------------------------------------------------
(* conversation_start *)

StarterUnchanged ==
  UNCHANGED <<sender, stopper, through, observer, input, output, stopping, channel,
              admission, up, refusal>>

(* Admission of a new request on an unclaimed session. *)
StartPersist ==
  /\ up /\ ~refusal /\ conv = "absent"
  /\ conv' = "Open" /\ op' = "Accepted" /\ claimed' = TRUE
  /\ turn' = [turn EXCEPT ![1] = "Queued"]
  /\ starter' = "persisted"
  /\ NoFault /\ UNCHANGED closeMode /\ StarterUnchanged

(* The child is spawned, its handle registered with the first turn, and    *)
(* the input writer and the observer run.                                  *)
StartLive ==
  /\ starter = "persisted"
  /\ child' = "alive"
  /\ handle' = TRUE /\ admitted' = {1} /\ pending' = {1}
  /\ writer' = "permission" /\ target' = "observing"
  /\ starter' = "live"
  /\ NoFault
  /\ UNCHANGED <<durable, sender, stopper, through, observer, graceful, broken,
                 permission, next, closeAt, inputFailed, phase, verdict, cancelled,
                 commands, channel, up, refusal>>

(* NoWriter: no child; CleanupProvenExited: the child is gone again;       *)
(* CleanupUnproven: it was killed and its exit could not be observed.      *)
StartLiveFails ==
  /\ starter = "persisted"
  /\ Fails("thread")
  /\ \/ child' \in {"none", "exited_bad"} /\ starter' = "no_writer"
     \/ UnprovenExit /\ child' \in Writing /\ starter' = "unproven"
  /\ UNCHANGED <<durable, sender, stopper, through, observer, input, output, cancelled,
                 commands, channel, admission, up, refusal>>

(* fail_before_live_worker: the caller gets an error when State fails. *)
FinishWithoutWorker ==
  /\ \/ /\ starter = "no_writer"
        /\ Terminalize("Failed", "Release") \/ TerminalizeErr("Failed", "state")
     \/ /\ starter = "unproven"
        /\ Terminalize("Indeterminate", "Retain") \/ TerminalizeErr("Indeterminate", "state")
  /\ starter' = "idle"
  /\ StarterUnchanged

StartRunning ==
  /\ starter = "live"
  /\ \/ /\ op' = "Running" /\ starter' = "running"
        /\ NoFault /\ UNCHANGED <<conv, closeMode, turn, claimed>>
     \/ starter' = "stopping" /\ Fails("state") /\ UNCHANGED durable
  /\ StarterUnchanged

StartObserver ==
  /\ starter = "running"
  /\ \/ starter' = "observed" /\ ctl' = "receiving" /\ NoFault
     \/ starter' = "stopping" /\ Fails("thread") /\ UNCHANGED ctl
  /\ UNCHANGED <<durable, sender, stopper, through, cause, input, output, stopping,
                 channel, admission, up, refusal>>

GrantPermission ==
  /\ starter = "observed"
  /\ permission' = "granted"
  /\ starter' = "idle"
  /\ NoFault
  /\ UNCHANGED <<durable, sender, stopper, through, observer, writer, pending, next,
                 closeAt, inputFailed, output, stopping, channel, admission, up, refusal>>

(* stop_after_live_start; its return drops the permission sender and the   *)
(* observation receiver.                                                   *)
StopAfterLiveStart ==
  /\ starter = "stopping"
  /\ CancelTarget
  /\ starter' = "settling"
  /\ NoFault
  /\ UNCHANGED <<durable, sender, stopper, through, observer, input, output, channel,
                 admission, up, refusal>>

SettleAfterLiveStart ==
  /\ starter = "settling"
  /\ Terminalize("Indeterminate", "Retain") \/ TerminalizeErr("Indeterminate", "state")
  /\ permission' = "dropped"
  /\ channel' = <<>>
  /\ starter' = "idle"
  /\ UNCHANGED <<sender, stopper, through, observer, writer, pending, next, closeAt,
                 inputFailed, output, stopping, admission, up, refusal>>

StarterStep ==
  \/ StartLive \/ StartLiveFails \/ FinishWithoutWorker \/ StartRunning \/ StartObserver
  \/ GrantPermission \/ StopAfterLiveStart \/ SettleAfterLiveStart

----------------------------------------------------------------------------
(* conversation_send *)

SenderAt(p, pc) == sender' = [sender EXCEPT ![p] = pc]

SenderUnchanged ==
  UNCHANGED <<starter, stopper, through, observer, input, output, channel, up, refusal>>

(* Mutant: turns are admitted until the conversation is terminal. *)
AdmitsUntilTerminal == conv \in Admitting
AdmitsTurns         == conv = "Open"

SendPersist(p) ==
  /\ up /\ ~refusal
  /\ AdmitsTurns /\ p = HighestPosition + 1
  /\ turn' = [turn EXCEPT ![p] = "Queued"]
  /\ SenderAt(p, "persisted")
  /\ NoFault
  /\ UNCHANGED <<conv, closeMode, op, claimed, admission, stopping>> /\ SenderUnchanged

(* LiveHandle::admit refuses a turn after broken delivery, cancellation or *)
(* a graceful close below it.                                              *)
TargetAdmits(p) ==
  handle /\ ~broken /\ ~cancelled /\ (graceful # 0 => p <= graceful)

SendAdmit(p) ==
  /\ sender[p] = "persisted"
  /\ IF TargetAdmits(p)
     THEN admitted' = admitted \cup {p} /\ SenderAt(p, "admitted")
     ELSE UNCHANGED admitted /\ SenderAt(p, "failed")
  /\ NoFault
  /\ UNCHANGED <<durable, graceful, broken, stopping>> /\ SenderUnchanged

SendCommand(p) ==
  /\ sender[p] = "admitted"
  /\ commands' = Sent(<<"turn", p>>)
  /\ broken' = (broken \/ ~WriterListening)
  /\ SenderAt(p, IF WriterListening THEN "idle" ELSE "failed")
  /\ NoFault
  /\ UNCHANGED <<durable, admitted, graceful, cancelled, child>> /\ SenderUnchanged

(* Delivery failed: a terminal or cancelling conversation answers for it.  *)
SendReadsFailure(p) ==
  /\ sender[p] = "failed"
  /\ SenderAt(p, IF conv \in Terminal \/ closeMode = "Cancel" THEN "idle" ELSE "closing")
  /\ NoFault
  /\ UNCHANGED <<durable, admission, stopping>> /\ SenderUnchanged

(* What close_conversation writes. *)
CloseWrites(mode) ==
  /\ conv' = IF conv = "Open" THEN "Closing" ELSE conv
  /\ closeMode' = IF conv = "Open" \/ (conv = "Closing" /\ mode = "Cancel")
                  THEN mode ELSE closeMode
  /\ UNCHANGED <<op, turn, claimed>>

SendCloses(p) ==
  /\ sender[p] = "closing"
  /\ CloseWrites("Cancel")
  /\ SenderAt(p, "stopping")
  /\ NoFault
  /\ UNCHANGED <<admission, stopping>> /\ SenderUnchanged

SendStops(p) ==
  /\ sender[p] = "stopping"
  /\ CancelTarget
  /\ SenderAt(p, "idle")
  /\ NoFault
  /\ UNCHANGED <<durable, admission>> /\ SenderUnchanged

(* The snapshot or the close fails: the turn stays queued. *)
SendStateFails(p) ==
  /\ sender[p] \in {"failed", "closing"}
  /\ Fails("state")
  /\ SenderAt(p, "idle")
  /\ UNCHANGED <<durable, admission, stopping>> /\ SenderUnchanged

SenderStep(p) ==
  \/ SendAdmit(p) \/ SendCommand(p) \/ SendReadsFailure(p) \/ SendCloses(p) \/ SendStops(p)
  \/ SendStateFails(p)

----------------------------------------------------------------------------
(* conversation_stop, and operation_cancel of a live conversation *)

StopperAt(mode, pc) == stopper' = [stopper EXCEPT ![mode] = pc]

StopperUnchanged ==
  UNCHANGED <<starter, sender, observer, input, output, channel, up, refusal>>

(* ClosedNow and EscalatedToCancel go on to the target; AlreadyClosing and *)
(* Terminal write nothing and answer.                                      *)
StopClose(mode) ==
  /\ up /\ ~refusal
  /\ stopper[mode] = "idle"
  /\ conv = "Open" \/ (conv = "Closing" /\ closeMode = "Graceful" /\ mode = "Cancel")
  /\ CloseWrites(mode)
  /\ through' = IF mode = "Graceful" THEN HighestPosition ELSE through
  /\ StopperAt(mode, "closed")
  /\ NoFault
  /\ UNCHANGED <<admission, stopping>> /\ StopperUnchanged

(* Without a handle, after broken delivery or a cancellation: an error.    *)
StopGraceful ==
  /\ stopper["Graceful"] = "closed"
  /\ IF handle /\ ~broken /\ ~cancelled /\ graceful = 0
     THEN graceful' = through /\ commands' = Sent(<<"close", through>>)
     ELSE UNCHANGED <<graceful, commands>>
  /\ StopperAt("Graceful", "idle")
  /\ NoFault
  /\ UNCHANGED <<durable, through, admitted, broken, cancelled, child>> /\ StopperUnchanged

StopCancel ==
  /\ stopper["Cancel"] = "closed"
  /\ CancelTarget
  /\ StopperAt("Cancel", "idle")
  /\ NoFault
  /\ UNCHANGED <<durable, through, admission>> /\ StopperUnchanged

----------------------------------------------------------------------------
(* The input writer: conversation_input::run *)

WriterUnchanged ==
  UNCHANGED <<durable, requests, observer, admission, permission, cancelled, child,
              handle, target, verdict, channel, up, refusal>>

(* Mutant: the writer starts without the permission. *)
Unpermitted == permission \in {"none", "granted"}
Permitted   == permission = "granted"

WriterStarts ==
  /\ writer = "permission"
  /\ \/ Permitted /\ writer' = "running" /\ UNCHANGED inputFailed
     \/ permission = "dropped" /\ writer' = "done" /\ inputFailed' = TRUE
  /\ NoFault
  /\ UNCHANGED <<pending, next, closeAt, phase, commands>> /\ WriterUnchanged

(* The turn at the next position is reported, then written.  The child may *)
(* have closed its end of the pipe, and an observer that left does not     *)
(* receive the report.                                                     *)
WriteTurn ==
  /\ writer = "running" /\ next \in pending
  /\ phase' = IF target = "leaked" THEN phase ELSE [phase EXCEPT ![next] = "AwaitingQueue"]
  /\ pending' = pending \ {next}
  /\ \/ target # "leaked" /\ next' = next + 1 /\ UNCHANGED <<writer, inputFailed>>
     \/ writer' = "done" /\ inputFailed' = TRUE /\ UNCHANGED next
  /\ NoFault
  /\ UNCHANGED <<closeAt, commands>> /\ WriterUnchanged

Drained == next \notin pending

(* Mutant: the input is closed one turn early. *)
ClosesAtLast  == closeAt # 0 /\ next >= closeAt
ClosesThrough == closeAt # 0 /\ next > closeAt

CloseInput ==
  /\ writer = "running" /\ Drained /\ ClosesThrough
  /\ writer' = "done"
  /\ NoFault
  /\ UNCHANGED <<pending, next, closeAt, inputFailed, phase, commands>> /\ WriterUnchanged

ReceiveCommand ==
  /\ writer = "running" /\ Drained /\ ~ClosesThrough
  /\ commands # <<>>
  /\ commands' = Tail(commands)
  /\ LET c == Head(commands) IN
       /\ pending' = IF c[1] = "turn" THEN pending \cup {c[2]} ELSE pending
       /\ closeAt' = IF c[1] = "close" THEN c[2] ELSE closeAt
       /\ writer' = IF c[1] = "cancel" THEN "done" ELSE writer
  /\ NoFault
  /\ UNCHANGED <<next, inputFailed, phase>> /\ WriterUnchanged

WriterStep == WriterStarts \/ WriteTurn \/ CloseInput \/ ReceiveCommand

----------------------------------------------------------------------------
(* Target's observer: conversation::observe and the codec *)

(* The receiver lives in the starter, then in Control's observation loop.  *)
ControlListens ==
  \/ starter \in {"live", "running", "stopping", "settling"}
  \/ ctl \in {"receiving", "applied", "failing", "settling"}

Publish(observation) == channel' = Append(channel, observation)

TargetUnchanged ==
  UNCHANGED <<durable, requests, observer, admission, permission, writer, pending, next,
              closeAt, inputFailed, cancelled, up, refusal>>

HasActiveTurn == \E p \in Positions : phase[p] \in {"Started", "ResultObserved"}

(* Lines of a lifecycle: queued and started, the result, completed. *)
Lines(p) ==
  CASE phase[p] = "AwaitingQueue"               -> {"Queued"}
    [] phase[p] = "Queued" /\ ~HasActiveTurn    -> {"Started"}
    [] phase[p] = "Started"                     -> {"ResultObserved"}
    [] phase[p] = "ResultObserved"              -> {"Completed"}
    [] OTHER                                    -> {}

(* Control reads nothing from TurnQueued, and a result waits for its       *)
(* completion.                                                             *)
ReadLine(p) ==
  /\ target = "observing" /\ ~inputFailed
  /\ \E next_phase \in Lines(p) :
       /\ phase' = [phase EXCEPT ![p] = next_phase]
       /\ \/ /\ next_phase \in {"Queued", "ResultObserved"}
             /\ UNCHANGED channel
          \/ /\ next_phase \in {"Started", "Completed"} /\ ControlListens
             /\ Publish(<<IF next_phase = "Started" THEN "TurnStarted" ELSE "TurnCompleted", p>>)
  /\ NoFault
  /\ UNCHANGED <<handle, target, verdict, commands, child>> /\ TargetUnchanged

(* cleanup(Terminate): the writer is told to stop and the child is killed. *)
Terminates(observation) ==
  /\ verdict' = observation
  /\ target' = "terminating"
  /\ commands' = Sent(<<"cancel", 0>>)
  /\ child' \in AfterKill

(* A failed result names its turn.  When Control has stopped listening the *)
(* observer returns before the cleanup.                                    *)
ReadFailure(p) ==
  /\ target = "observing" /\ ~inputFailed
  /\ phase[p] = "Started"
  /\ IF ControlListens
     THEN Publish(<<"TurnFailed", p>>) /\ Terminates("Failed")
     ELSE /\ target' = "leaked"
          /\ UNCHANGED <<channel, verdict, commands, child>>
  /\ NoFault
  /\ UNCHANGED <<handle, phase>> /\ TargetUnchanged

(* Output that contradicts the protocol, a failed report of the writer, an *)
(* I/O error, or an observation that nobody receives.                      *)
ReadError ==
  /\ target = "observing"
  /\ Terminates("Indeterminate")
  /\ NoFault
  /\ UNCHANGED <<handle, phase, channel>> /\ TargetUnchanged

AllCompleted == \A p \in Positions : phase[p] \in {"none", "Completed"}

ExitVerdict ==
  CASE inputFailed -> "Indeterminate"
    [] ~inputFailed /\ cancelled -> "Cancelled"
    [] ~inputFailed /\ ~cancelled /\ child = "exited_ok" /\ graceful # 0 /\ AllCompleted
       -> "Exited"
    [] OTHER -> "Indeterminate"

(* Mutant: cleanup after an observed exit leaves the writer alone. *)
WriterLeft    == commands
WriterStopped == Sent(<<"cancel", 0>>)

(* The exit is seen, the remaining output was read: cleanup(ObservedExit). *)
ObserveExit ==
  /\ target = "observing" /\ child \in Exited
  /\ verdict' = ExitVerdict
  /\ target' = "exited"
  /\ commands' = WriterStopped
  /\ NoFault
  /\ UNCHANGED <<handle, phase, channel, child>> /\ TargetUnchanged

(* Mutant: a failed wait is taken for an exit. *)
Believed == IF target \in {"exited", "terminating"} THEN {verdict} ELSE {}

(* What cleanup makes of the verdict: a failed wait leaves the writer      *)
(* unclassified, a failed kill of a child that exited spoils the verdict.  *)
Cleaned ==
  CASE target = "exited" -> {verdict}
    [] target = "terminating" ->
         (IF child \in Exited THEN {verdict} ELSE {})
         \cup (IF UnprovenExit /\ child \in Exited THEN {"Indeterminate"} ELSE {})
         \cup (IF UnprovenExit THEN {"UnclassifiedWriter"} ELSE {})
    [] OTHER -> {}

(* Mutant: the handle stays until the daemon ends. *)
Kept    == TRUE
Removed == FALSE

(* The writer is joined and the handle removed before the verdict is out.  *)
PublishAfterCleanup ==
  /\ writer = "done"
  /\ \E observation \in Cleaned :
       IF ControlListens THEN Publish(<<observation, 0>>) ELSE UNCHANGED channel
  /\ handle' = Removed
  /\ target' = "done"
  /\ NoFault
  /\ UNCHANGED <<phase, verdict, commands, child>> /\ TargetUnchanged

TargetStep == ObserveExit \/ PublishAfterCleanup \/ (inputFailed /\ ReadError)

(* What the child makes the observer read: never promised. *)
Reads == ReadError \/ \E p \in Positions : ReadLine(p) \/ ReadFailure(p)

ChildUnchanged ==
  UNCHANGED <<durable, requests, observer, admission, input, output, cancelled, commands,
              channel, up, refusal, env>>

ChildExits       == child = "alive" /\ child' \in Exited /\ ChildUnchanged
KilledChildExits == child = "killed" /\ child' = "exited_bad" /\ ChildUnchanged

----------------------------------------------------------------------------
(* Control's observation thread: control/conversation.rs observe *)

ObserverUnchanged ==
  UNCHANGED <<requests, admission, input, output, up>>

EventState(kind) ==
  CASE kind = "TurnStarted" -> "Started"
    [] kind = "TurnCompleted" -> "Completed"
    [] kind = "TurnFailed" -> "Failed"

HasResult == \E p \in Positions : turn[p] = "Completed"

(* The terminal state of a verdict, and what becomes of the claim. *)
Applies(kind) ==
  CASE kind = "Failed" -> Terminalize("Failed", "Release")
    [] kind = "Indeterminate" -> Terminalize("Indeterminate", "Release")
    [] kind = "UnclassifiedWriter" -> Terminalize("Indeterminate", "Retain")
    [] kind = "Cancelled" -> Terminalize("Cancelled", "Release")
    [] kind = "Exited" -> HasResult /\ Terminalize("Succeeded", "Release")

ApplyOk(o) ==
  /\ IF o[1] \in TurnEvents THEN RecordTurn(o[2], EventState(o[1])) ELSE Applies(o[1])
  /\ ctl' = "applied" /\ UNCHANGED cause

(* A turn out of its order is a Conflict; unfinished turns, or none with a *)
(* result, at a clean exit are State errors, like those of State itself.   *)
ApplyErr(o) ==
  /\ \/ /\ o[1] \in TurnEvents /\ ~TurnAllowed(turn[o[2]], EventState(o[1]))
        /\ cause' = "other" /\ NoFault
     \/ /\ o[1] = "Exited" /\ ~(HasResult /\ Resolvable("Succeeded"))
        /\ cause' = "state" /\ NoFault
     \/ cause' = "state" /\ Fails("observation")
  /\ ctl' = "failing" /\ UNCHANGED durable

ObserverApplies ==
  /\ ctl = "receiving" /\ channel # <<>>
  /\ ApplyOk(Head(channel)) \/ ApplyErr(Head(channel))
  /\ channel' = Tail(channel)
  /\ UNCHANGED <<stopping, refusal>> /\ ObserverUnchanged

(* Every read of the conversation that fails latches the refusal and ends  *)
(* the loop.                                                               *)
ObserverReads ==
  /\ ctl = "applied"
  /\ \/ /\ ctl' = IF conv \in Terminal THEN "ending" ELSE "receiving"
        /\ NoFault /\ UNCHANGED refusal
     \/ ctl' = "ending" /\ refusal' = TRUE /\ Fails("observation")
  /\ UNCHANGED <<durable, cause, stopping, channel>> /\ ObserverUnchanged

ObserverReadFails ==
  /\ ctl = "failing" \/ (ctl = "receiving" /\ channel # <<>>)
  /\ ctl' = "ending" /\ refusal' = TRUE /\ Fails("observation")
  /\ UNCHANGED <<durable, cause, stopping, channel>> /\ ObserverUnchanged

(* An observation could not be applied: the child is cancelled; when that  *)
(* fails too the cause is no longer reported as a State error.             *)
ObserverStops ==
  /\ ctl = "failing"
  /\ CancelTarget
  /\ cause' \in (IF handle THEN {cause} ELSE {}) \cup (IF ~handle \/ UnprovenExit THEN {"other"} ELSE {})
  /\ ctl' = "settling"
  /\ NoFault
  /\ UNCHANGED <<durable, channel, refusal>> /\ ObserverUnchanged

ObserverSettles ==
  /\ ctl = "settling"
  /\ \/ Terminalize("Indeterminate", "Retain") /\ refusal' = (refusal \/ cause = "state")
     \/ TerminalizeErr("Indeterminate", "observation") /\ refusal' = TRUE
  /\ ctl' = "ending"
  /\ UNCHANGED <<cause, stopping, channel>> /\ ObserverUnchanged

(* The loop is over, and what is still in the channel is dropped.  It only *)
(* ends by its breaks: Target publishes a verdict before it drops its end. *)
ObserverEnds ==
  /\ ctl = "ending"
  /\ \/ conv \in Terminal /\ NoFault /\ UNCHANGED <<durable, refusal>>
     \/ Terminalize("Indeterminate", "Retain") /\ UNCHANGED refusal
     \/ Fails("observation") /\ refusal' = TRUE /\ UNCHANGED durable
  /\ ctl' = "done" /\ cause' = "none" /\ channel' = <<>>
  /\ UNCHANGED stopping /\ ObserverUnchanged

ObserverStep ==
  \/ ObserverApplies \/ ObserverReads \/ ObserverReadFails \/ ObserverStops
  \/ ObserverSettles \/ ObserverEnds

----------------------------------------------------------------------------
(* The daemon stops, and a later one opens the same State file *)

Crash ==
  /\ up /\ crashes < MaxCrashes
  /\ crashes' = crashes + 1
  /\ up' = FALSE
  /\ starter' = "idle"
  /\ sender' = [p \in Positions |-> "idle"]
  /\ stopper' = [m \in Modes |-> "idle"]
  /\ through' = 0
  /\ ctl' = "none" /\ cause' = "none"
  /\ handle' = FALSE /\ admitted' = {} /\ graceful' = 0
  /\ cancelled' = FALSE /\ broken' = FALSE
  /\ commands' = <<>> /\ permission' = "none"
  /\ writer' = "none" /\ pending' = {} /\ next' = 1 /\ closeAt' = 0 /\ inputFailed' = FALSE
  /\ phase' = [p \in Positions |-> "none"]
  /\ target' = "none" /\ verdict' = "none" /\ channel' = <<>>
  /\ refusal' = FALSE /\ failed' = {}
  /\ UNCHANGED <<durable, child, faults>>

Incomplete == conv \in Admitting

(* Recovery: an incomplete conversation, its operation and its unfinished  *)
(* turns are Indeterminate, and the session stays claimed.                 *)
Restart ==
  /\ ~up
  /\ up' = TRUE
  /\ conv' = IF Incomplete THEN "Indeterminate" ELSE conv
  /\ op' = IF Incomplete THEN "Indeterminate" ELSE op
  /\ turn' = IF Incomplete
             THEN [p \in Positions |-> Resolved("Indeterminate", turn[p])] ELSE turn
  /\ UNCHANGED <<closeMode, claimed, requests, observer, admission, input, output,
                 stopping, channel, refusal, env>>

(* Nothing is left to do but to serve reads and polls. *)
Quiescent ==
  /\ up /\ starter = "idle"
  /\ \A p \in Positions : sender[p] = "idle"
  /\ \A m \in Modes : stopper[m] = "idle"
  /\ ctl \in {"none", "done"} /\ target \in {"none", "done", "leaked"}
  /\ writer \in {"none", "done"} \/ target = "leaked"
  /\ UNCHANGED vars

Next ==
  \/ StartPersist \/ StarterStep
  \/ \E p \in Positions : SendPersist(p) \/ SenderStep(p)
  \/ \E m \in Modes : StopClose(m)
  \/ StopGraceful \/ StopCancel
  \/ WriterStep \/ TargetStep \/ Reads \/ ChildExits \/ KilledChildExits
  \/ ObserverStep
  \/ Crash \/ Restart \/ Quiescent

Spec == Init /\ [][Next]_vars

(* The scheduler runs every thread that can run, and SIGKILL takes effect. *)
(* Requests, output of the child, its own exit, faults and crashes are not *)
(* promised.                                                               *)
Fairness ==
  /\ WF_vars(StarterStep) /\ WF_vars(WriterStep) /\ WF_vars(TargetStep)
  /\ WF_vars(ObserverStep) /\ WF_vars(KilledChildExits)
  /\ \A p \in Positions : WF_vars(SenderStep(p))
  /\ WF_vars(StopGraceful) /\ WF_vars(StopCancel)

FairSpec == Spec /\ Fairness

----------------------------------------------------------------------------
(* Properties *)

(* The conversation, its operation and its turns end together, in states   *)
(* that agree: a succeeded conversation has no turn that was not answered. *)
RecordsAgree ==
  /\ conv = "absent" <=> op = "absent"
  /\ conv \in Terminal \/ op \in Terminal => op = conv
  /\ conv \in Terminal => \A p \in Positions : turn[p] \notin Unfinished
  /\ conv = "Succeeded" => \A p \in Positions : turn[p] \in {"absent", "Completed"}

(* A child that has not exited keeps its session claimed, also when a kill *)
(* or a wait fails, when the daemon crashed, and when Control gave up: no  *)
(* other writer of the session is admitted.                                *)
WriterIsClaimed == child \in Writing => claimed

(* A turn is given to the child only after it, and the Running state of    *)
(* the operation, are durable.                                             *)
InputIsDurable == \A p \in Positions : phase[p] # "none" => turn[p] # "absent" /\ op # "Accepted"

(* A graceful close reaches every admitted turn: no sender persists a turn *)
(* beyond it, so Target refuses none as beyond graceful close.             *)
CloseCoversTurns == graceful # 0 => \A p \in Admitted : p <= graceful

(* The input of a conversation that is neither cancelled nor failing is    *)
(* closed only when every turn of the graceful close was written, in any   *)
(* order of the senders.                                                   *)
CloseDrainsInput ==
  writer = "done" /\ target = "observing" /\ ~cancelled /\ ~inputFailed
    => graceful # 0 /\ \A p \in 1..graceful : phase[p] # "none"

(* The daemon refuses all requests only when State failed the observation  *)
(* thread: an exit with unanswered turns, which Control also reports as a  *)
(* State error, does not refuse, because the runtime is gone by then.      *)
RefusalHasCause == refusal => "observation" \in failed

(* A conversation implements the promise of SessionWriter: when it ends    *)
(* without proof of the exit it keeps its session.                         *)
Phase ==
  IF conv = "absent" THEN "fresh"
  ELSE IF conv \in Admitting THEN "live"
  ELSE IF claimed THEN "unclassified" ELSE "settled"

Promise == INSTANCE SessionWriter
  WITH Operations <- {1}, Sessions <- {1}, None <- 0,
       holder <- [s \in {1} |-> IF claimed THEN 1 ELSE 0],
       phase <- [o \in {1} |-> Phase],
       writing <- {o \in {1} : child \in Writing}

ImplementsSessionWriter == Promise!Spec

(* Unless State or a thread fails, or the daemon stops, a cancellation     *)
(* that reached Target ends the conversation, and so does the exit of the  *)
(* child, for whatever reason and wherever starter, writer and observers   *)
(* are: the writer that waits for its next command keeps nobody waiting.   *)
EndSettles == (cancelled \/ child \in Exited) ~> (conv \in Terminal \/ ~up \/ failed # {})

(* README.md: the child is kept until an explicit graceful close or        *)
(* cancellation.  When a cancellation is durable and its requests have     *)
(* been answered, a conversation still served has been told of it.         *)
CancelReachesTarget ==
  /\ conv = "Closing" /\ closeMode = "Cancel"
  /\ starter = "idle" /\ target = "observing"
  /\ \A p \in Positions : sender[p] = "idle"
  /\ \A m \in Modes : stopper[m] = "idle"
  => cancelled

============================================================================
