-------------------------- MODULE OperationControl --------------------------
(***************************************************************************)
(* One-shot operations of the daemon: durable admission, the starter and   *)
(* worker threads of control/operation.rs, the direct Claude child run by  *)
(* target/execution.rs, the diagnostic recorder, operation_cancel, the     *)
(* refusal latch, and a daemon crash followed by recovery.                 *)
(*                                                                         *)
(* Every State call is one SQLite transaction under one mutex, so it is    *)
(* one step here, and it may fail (StateFails).  A step of a thread is a   *)
(* State call, a channel operation, an access to the runtime gate or to    *)
(* the cancellation flag, or an effect on the child.                       *)
(***************************************************************************)
EXTENDS Naturals

CONSTANTS
  Requests,        (* request UUIDs; a request owns at most one operation  *)
  Sessions,        (* Claude session UUIDs                                 *)
  New,             (* the intent that asks for a fresh session             *)
  None,            (* no operation, no session                             *)
  MaxDiagnostics,  (* bound: diagnostics one child emits                   *)
  MaxFaults,       (* bound: failed State calls and thread creations       *)
  MaxCrashes,      (* bound: daemon crashes                                *)
  UnprovenExit     (* whether an fcntl, kill or wait on a child may fail   *)

ASSUME NamesAssumption == None \notin Requests \cup Sessions /\ New \notin Sessions
ASSUME BoundsAssumption == /\ MaxDiagnostics \in Nat
                           /\ MaxFaults \in Nat
                           /\ MaxCrashes \in Nat
                           /\ UnprovenExit \in BOOLEAN

VARIABLES
  (* SQLite: survives a crash *)
  opState,     (* operations.record_json state; "Absent" before admission  *)
  opSession,   (* operations.session_id                                    *)
  claim,       (* active_sessions: the operation that owns each session    *)
  recorded,    (* operation_diagnostics: number of rows of each operation  *)
  (* the operating system: survives a crash of the daemon *)
  child,       (* the direct Claude child of each operation                *)
  spawns,      (* how many children were ever spawned for an operation     *)
  (* daemon memory: lost by a crash *)
  up,          (* the daemon serves requests                               *)
  gate,        (* operations that hold a slot of RuntimeGate.slots         *)
  cancel,      (* operations whose cancellation flag is set                *)
  refusal,     (* the OnceLock that refuses every later request            *)
  starter,     (* the connection thread inside OperationControl::start     *)
  launch,      (* the launch_report channel                                *)
  permission,  (* the running_permission channel                           *)
  worker,      (* the thread inside OperationControl::execute              *)
  seen,        (* what Target interpreted from the child's output          *)
  outcome,     (* the TargetOutcome execute returned                       *)
  queue,       (* diagnostics sent to the recorder and not yet received    *)
  recorder,    (* the diagnostic recorder thread                           *)
  canceller,   (* a connection thread inside OperationControl::cancel      *)
  failed,      (* kinds of environment failure this daemon has met         *)
  (* bounds of the model *)
  faults, crashes

durable == <<opState, opSession, claim, recorded>>
world   == <<child, spawns>>
threads == <<starter, launch, permission, worker, seen, outcome, queue, recorder>>
daemon  == <<up, gate, cancel, refusal, canceller>>
vars    == <<durable, world, daemon, threads, failed, faults, crashes>>

----------------------------------------------------------------------------
(* Types *)

Terminal    == {"Succeeded", "Failed", "Cancelled", "Indeterminate"}
Nonterminal == {"Accepted", "Running"}
Intents     == Sessions \cup {New}

Writing == {"alive", "killed"}        (* exit not yet reached              *)
Exited  == {"exited_ok", "exited_bad"}

Outcomes == {"none", "SpawnFailed", "CancelledBeforeLaunch", "Succeeded",
             "Failed", "Cancelled", "Indeterminate"}

Facts == {"result", "provider_failure", "terminal_error"}

TypeOK ==
  /\ opState \in [Requests -> {"Absent"} \cup Nonterminal \cup Terminal]
  /\ opSession \in [Requests -> Sessions \cup {None}]
  /\ claim \in [Sessions -> Requests \cup {None}]
  /\ recorded \in [Requests -> Nat]
  /\ child \in [Requests -> {"none"} \cup Writing \cup Exited]
  /\ spawns \in [Requests -> Nat]
  /\ up \in BOOLEAN
  /\ gate \subseteq Requests
  /\ cancel \subseteq Requests
  /\ refusal \in BOOLEAN
  /\ starter \in [Requests -> {"idle", "admitted", "gated", "waiting"}]
  /\ launch \in [Requests -> {"none", "Launched", "SpawnFailed", "Cancelled", "dropped"}]
  /\ permission \in [Requests -> {"none", "granted", "denied"}]
  /\ worker \in [Requests -> {"none", "spawned", "launching", "permission", "observing",
                              "joining", "classify", "acknowledge", "release", "done",
                              "panicked"}]
  /\ seen \in [Requests -> SUBSET Facts]
  /\ outcome \in [Requests -> Outcomes]
  /\ queue \in [Requests -> Nat]
  /\ recorder \in [Requests -> {"none", "running", "failed", "done"}]
  /\ canceller \in [Requests -> {"idle", "routed", "signalled", "absent", "gate_error"}]
  /\ failed \subseteq {"state", "thread"}
  /\ faults \in Nat
  /\ crashes \in Nat

Init ==
  /\ opState = [r \in Requests |-> "Absent"]
  /\ opSession = [r \in Requests |-> None]
  /\ claim = [s \in Sessions |-> None]
  /\ recorded = [r \in Requests |-> 0]
  /\ child = [r \in Requests |-> "none"]
  /\ spawns = [r \in Requests |-> 0]
  /\ up = TRUE
  /\ gate = {}
  /\ cancel = {}
  /\ refusal = FALSE
  /\ starter = [r \in Requests |-> "idle"]
  /\ launch = [r \in Requests |-> "none"]
  /\ permission = [r \in Requests |-> "none"]
  /\ worker = [r \in Requests |-> "none"]
  /\ seen = [r \in Requests |-> {}]
  /\ outcome = [r \in Requests |-> "none"]
  /\ queue = [r \in Requests |-> 0]
  /\ recorder = [r \in Requests |-> "none"]
  /\ canceller = [r \in Requests |-> "idle"]
  /\ failed = {}
  /\ faults = 0
  /\ crashes = 0

----------------------------------------------------------------------------
(* The State port: one transaction each *)

(* The environment makes the present State call, or thread creation, fail. *)
Fails(kind) ==
  /\ faults < MaxFaults
  /\ faults' = faults + 1
  /\ failed' = failed \cup {kind}

NoFault == UNCHANGED <<faults, failed>>

Allowed(from, to) ==
  \/ from = "Accepted" /\ to \in {"Running", "Failed", "Cancelled", "Indeterminate"}
  \/ from = "Running" /\ to \in Terminal

(* DELETE FROM active_sessions WHERE operation_id = r *)
Released(r) == [s \in Sessions |-> IF claim[s] = r THEN None ELSE claim[s]]

(* Mutants: a terminal transition keeps the claim; every one releases it. *)
ClaimKept(r, next) == claim
ClaimDropped(r, next) == Released(r)

ClaimAfter(r, next) == IF next \in Terminal THEN Released(r) ELSE claim

Transition(r, next) ==
  /\ Allowed(opState[r], next)
  /\ opState' = [opState EXCEPT ![r] = next]
  /\ claim' = ClaimAfter(r, next)
  /\ NoFault

(* The transition returns an error: it is not permitted, or State fails. *)
TransitionErr(r, next) ==
  /\ \/ ~Allowed(opState[r], next) /\ NoFault
     \/ Fails("state")
  /\ UNCHANGED <<opState, claim>>

(* Mutants: the claim row is replaced; a finished request is admitted anew. *)
AnySession(s) == s \in Sessions
UnknownOrFinished(r) == opState[r] \in {"Absent"} \cup Terminal

Unclaimed(s) == claim[s] = None
Unknown(r)   == opState[r] = "Absent"

(* The session an admission writes: an exact one, or a UUID nobody holds. *)
SessionFor(intent) ==
  IF intent = New
  THEN {s \in Sessions : \A r \in Requests : opSession[r] # s}
  ELSE {intent}

(* RuntimeGate::cancel raises the flag of an operation that has a slot. *)
(* Mutant: a copy of the flag is raised. *)
SignalLost(r) == cancel
Signal(r)     == cancel \cup ({r} \cap gate)

----------------------------------------------------------------------------
(* The starter: OperationControl::start on a connection thread *)

(* Admission of an unknown request on an unclaimed session.  The other     *)
(* answers (the existing operation, a changed fingerprint, an active or    *)
(* unclassified writer, an unknown project) change no state.               *)
Admit(r, intent) ==
  /\ up /\ ~refusal
  /\ Unknown(r)
  /\ \E s \in SessionFor(intent) :
       /\ Unclaimed(s)
       /\ opSession' = [opSession EXCEPT ![r] = s]
       /\ claim' = [claim EXCEPT ![s] = r]
  /\ opState' = [opState EXCEPT ![r] = "Accepted"]
  /\ starter' = [starter EXCEPT ![r] = "admitted"]
  /\ NoFault
  /\ UNCHANGED <<recorded, world, daemon, launch, permission, worker, seen, outcome,
                 queue, recorder, crashes>>

(* The admission transaction fails: the caller gets the State error. *)
AdmitFails(r) ==
  /\ up /\ ~refusal
  /\ Unknown(r)
  /\ Fails("state")
  /\ UNCHANGED <<durable, world, daemon, threads, crashes>>

AdmitGate(r) ==
  /\ starter[r] = "admitted"
  /\ gate' = gate \cup {r}
  /\ cancel' = cancel \ {r}
  /\ starter' = [starter EXCEPT ![r] = "gated"]
  /\ NoFault
  /\ UNCHANGED <<durable, world, up, refusal, canceller, launch, permission, worker,
                 seen, outcome, queue, recorder, crashes>>

SpawnWorker(r) ==
  /\ starter[r] = "gated"
  /\ starter' = [starter EXCEPT ![r] = "waiting"]
  /\ worker' = [worker EXCEPT ![r] = "spawned"]
  /\ NoFault
  /\ UNCHANGED <<durable, world, daemon, launch, permission, seen, outcome, queue,
                 recorder, crashes>>

(* No worker thread: the starter fails the operation and releases the gate *)
(* whether or not that transition commits.                                 *)
SpawnWorkerFails(r) ==
  /\ starter[r] = "gated"
  /\ \/ /\ Allowed(opState[r], "Failed")
        /\ opState' = [opState EXCEPT ![r] = "Failed"]
        /\ claim' = Released(r)
        /\ Fails("thread")
     \/ /\ faults + 2 <= MaxFaults
        /\ faults' = faults + 2
        /\ failed' = {"state", "thread"}
        /\ UNCHANGED <<opState, claim>>
  /\ gate' = gate \ {r}
  /\ starter' = [starter EXCEPT ![r] = "idle"]
  /\ UNCHANGED <<opSession, recorded, world, up, cancel, refusal, canceller, launch,
                 permission, worker, seen, outcome, queue, recorder, crashes>>

(* The child is launched: Running is made durable before Target may write  *)
(* the prompt; when it cannot be, the worker is told to stop the child.    *)
StarterLaunched(r) ==
  /\ starter[r] = "waiting" /\ launch[r] = "Launched"
  /\ \/ /\ Transition(r, "Running")
        /\ permission' = [permission EXCEPT ![r] = "granted"]
     \/ /\ TransitionErr(r, "Running")
        /\ permission' = [permission EXCEPT ![r] = "denied"]
  /\ starter' = [starter EXCEPT ![r] = "idle"]
  /\ UNCHANGED <<opSession, recorded, world, daemon, launch, worker, seen, outcome,
                 queue, recorder, crashes>>

StarterSpawnFailed(r) ==
  /\ starter[r] = "waiting" /\ launch[r] = "SpawnFailed"
  /\ Transition(r, "Failed") \/ TransitionErr(r, "Failed")
  /\ starter' = [starter EXCEPT ![r] = "idle"]
  /\ UNCHANGED <<opSession, recorded, world, daemon, launch, permission, worker, seen,
                 outcome, queue, recorder, crashes>>

(* A pre-launch cancellation: the starter waits for the worker's result,   *)
(* which the worker sends before it releases the gate.                     *)
StarterCancelled(r) ==
  /\ starter[r] = "waiting" /\ launch[r] = "Cancelled"
  /\ worker[r] \in {"release", "done"}
  /\ starter' = [starter EXCEPT ![r] = "idle"]
  /\ NoFault
  /\ UNCHANGED <<durable, world, daemon, launch, permission, worker, seen, outcome,
                 queue, recorder, crashes>>

(* The worker ended without a launch report. *)
StarterDropped(r) ==
  /\ starter[r] = "waiting" /\ launch[r] = "dropped"
  /\ Transition(r, "Indeterminate") \/ TransitionErr(r, "Indeterminate")
  /\ starter' = [starter EXCEPT ![r] = "idle"]
  /\ UNCHANGED <<opSession, recorded, world, daemon, launch, permission, worker, seen,
                 outcome, queue, recorder, crashes>>

StarterStep(r) ==
  \/ AdmitGate(r) \/ SpawnWorker(r) \/ SpawnWorkerFails(r)
  \/ StarterLaunched(r) \/ StarterSpawnFailed(r)
  \/ StarterCancelled(r) \/ StarterDropped(r)

----------------------------------------------------------------------------
(* The worker: OperationControl::execute, run_target, ClaudeTarget::execute *)

(* A worker that failed reports its error and latches the refusal. *)
WorkerFails(r) ==
  /\ refusal' = TRUE
  /\ worker' = [worker EXCEPT ![r] = "release"]

(* A cancellation seen before Target is called. *)
CancelBeforeTarget(r) ==
  /\ worker[r] = "spawned" /\ r \in cancel
  /\ \/ /\ Transition(r, "Cancelled")
        /\ worker' = [worker EXCEPT ![r] = "acknowledge"]
        /\ UNCHANGED refusal
     \/ TransitionErr(r, "Cancelled") /\ WorkerFails(r)
  /\ UNCHANGED <<opSession, recorded, world, up, gate, cancel, canceller, starter,
                 launch, permission, seen, outcome, queue, recorder, crashes>>

BeginTarget(r) ==
  /\ worker[r] = "spawned" /\ r \notin cancel
  /\ worker' = [worker EXCEPT ![r] = "launching"]
  /\ recorder' = [recorder EXCEPT ![r] = "running"]
  /\ NoFault
  /\ UNCHANGED <<durable, world, daemon, starter, launch, permission, seen, outcome,
                 queue, crashes>>

(* The operation cannot be read back, or there is no recorder thread: the  *)
(* latter drops the launch channel on return from run_target.              *)
BeginTargetFails(r) ==
  /\ worker[r] = "spawned" /\ r \notin cancel
  /\ \/ Fails("state") /\ UNCHANGED launch
     \/ Fails("thread") /\ launch' = [launch EXCEPT ![r] = "dropped"]
  /\ WorkerFails(r)
  /\ UNCHANGED <<durable, world, up, gate, cancel, canceller, starter, permission,
                 seen, outcome, queue, recorder, crashes>>

(* Target returns an outcome, and drops its end of the recorder's channel  *)
(* with the rest of its locals.                                            *)
Returns(r, o) ==
  /\ outcome' = [outcome EXCEPT ![r] = o]
  /\ seen' = [seen EXCEPT ![r] = {}]
  /\ worker' = [worker EXCEPT ![r] = "joining"]

CancelBeforeLaunch(r) ==
  /\ worker[r] = "launching" /\ r \in cancel
  /\ launch' = [launch EXCEPT ![r] = "Cancelled"]
  /\ Returns(r, "CancelledBeforeLaunch")
  /\ NoFault
  /\ UNCHANGED <<durable, world, daemon, starter, permission, queue, recorder, crashes>>

SpawnChild(r) ==
  /\ worker[r] = "launching" /\ r \notin cancel
  /\ child' = [child EXCEPT ![r] = "alive"]
  /\ spawns' = [spawns EXCEPT ![r] = @ + 1]
  /\ launch' = [launch EXCEPT ![r] = "Launched"]
  /\ worker' = [worker EXCEPT ![r] = "permission"]
  /\ NoFault
  /\ UNCHANGED <<durable, daemon, starter, permission, seen, outcome, queue, recorder, crashes>>

SpawnChildFails(r) ==
  /\ worker[r] = "launching" /\ r \notin cancel
  /\ launch' = [launch EXCEPT ![r] = "SpawnFailed"]
  /\ Returns(r, "SpawnFailed")
  /\ NoFault
  /\ UNCHANGED <<durable, world, daemon, starter, permission, queue, recorder, crashes>>

(* Mutant: any answer of the starter permits. *)
Answered(r)  == permission[r] # "none"
Permitted(r) == permission[r] = "granted"

(* Running is durable: the prompt is written and the child observed. *)
BeginObservation(r) ==
  /\ worker[r] = "permission" /\ Permitted(r)
  /\ worker' = [worker EXCEPT ![r] = "observing"]
  /\ NoFault
  /\ UNCHANGED <<durable, world, daemon, starter, launch, permission, seen, outcome,
                 queue, recorder, crashes>>

(* thread::spawn panics when there is no thread for the prompt writer: the *)
(* worker unwinds, without a terminal transition, refusal or gate release. *)
PromptWriterFails(r) ==
  /\ worker[r] = "permission" /\ Permitted(r)
  /\ Fails("thread")
  /\ worker' = [worker EXCEPT ![r] = "panicked"]
  /\ UNCHANGED <<durable, world, daemon, starter, launch, permission, seen, outcome,
                 queue, recorder, crashes>>

(* SIGKILL leaves an exited child alone. *)
AfterKill(r) == IF child[r] = "alive" THEN "killed" ELSE child[r]

(* The states a child may be left in when its exit cannot be proven. *)
Unproven(r) == IF UnprovenExit THEN {child[r], AfterKill(r)} ELSE {}

(* Mutant: the exit is not awaited after the kill. *)
NoWait(r)    == AfterKill(r)
AfterWait(r) == IF child[r] \in Exited THEN child[r] ELSE "exited_bad"

(* stop_before_running: kill, wait for the exit, return Indeterminate; an  *)
(* error of kill or wait returns Indeterminate without the exit.           *)
StopBeforeRunning(r) ==
  /\ worker[r] = "permission" /\ permission[r] = "denied"
  /\ \E c \in Unproven(r) \cup {AfterWait(r)} :
       child' = [child EXCEPT ![r] = c]
  /\ Returns(r, "Indeterminate")
  /\ NoFault
  /\ UNCHANGED <<durable, spawns, daemon, starter, launch, permission, queue,
                 recorder, crashes>>

(* OutputPump::new fails: the child is killed but its exit not awaited. *)
PumpFails(r) ==
  /\ worker[r] = "permission" /\ Permitted(r)
  /\ \E c \in Unproven(r) : child' = [child EXCEPT ![r] = c]
  /\ Returns(r, "Indeterminate")
  /\ NoFault
  /\ UNCHANGED <<durable, spawns, daemon, starter, launch, permission, queue,
                 recorder, crashes>>

(* A line of the child's output: a diagnostic goes to the recorder, which  *)
(* may have ended already.                                                 *)
EmitDiagnostic(r) ==
  /\ worker[r] = "observing" /\ recorder[r] = "running"
  /\ queue[r] + recorded[r] < MaxDiagnostics
  /\ queue' = [queue EXCEPT ![r] = @ + 1]
  /\ NoFault
  /\ UNCHANGED <<durable, world, daemon, starter, launch, permission, worker, seen,
                 outcome, recorder, crashes>>

EmitResult(r) ==
  /\ worker[r] = "observing"
  /\ seen' = [seen EXCEPT ![r] = @ \cup {"result"}]
  /\ NoFault
  /\ UNCHANGED <<durable, world, daemon, starter, launch, permission, worker, outcome,
                 queue, recorder, crashes>>

(* A failure result, or output that cannot be interpreted: the child is    *)
(* killed, and observation goes on until its exit is seen.                 *)
EmitError(r, fact) ==
  /\ worker[r] = "observing"
  /\ \/ /\ child' = [child EXCEPT ![r] = AfterKill(r)]
        /\ seen' = [seen EXCEPT ![r] = @ \cup {fact}]
     \/ /\ UnprovenExit
        /\ seen' = [seen EXCEPT ![r] = @ \cup {fact, "terminal_error"}]
        /\ UNCHANGED child
  /\ NoFault
  /\ UNCHANGED <<durable, spawns, daemon, starter, launch, permission, worker, outcome,
                 queue, recorder, crashes>>

ObserveCancellation(r) ==
  /\ worker[r] = "observing" /\ r \in cancel /\ child[r] = "alive"
  /\ child' = [child EXCEPT ![r] = "killed"]
  /\ NoFault
  /\ UNCHANGED <<durable, spawns, daemon, threads, crashes>>

(* What observe returns once the exit is seen; with a result and a clean   *)
(* exit the prompt writer or missing init evidence may still spoil it.     *)
ExitOutcomes(r) ==
  CASE r \in cancel -> {"Cancelled"}
    [] r \notin cancel /\ "provider_failure" \in seen[r] -> {"Failed"}
    [] r \notin cancel /\ "provider_failure" \notin seen[r]
         /\ "terminal_error" \in seen[r] -> {"Indeterminate"}
    [] OTHER -> IF child[r] = "exited_bad" THEN {"Failed"}
                ELSE {"Indeterminate"} \cup (IF "result" \in seen[r] THEN {"Succeeded"} ELSE {})

(* Mutant: a delivered SIGKILL is taken for the exit. *)
KillSeen(r) == child[r] \in Exited \cup {"killed"}
ExitSeen(r) == child[r] \in Exited

ObserveExit(r) ==
  /\ worker[r] = "observing" /\ ExitSeen(r)
  /\ \E o \in ExitOutcomes(r) : Returns(r, o)
  /\ NoFault
  /\ UNCHANGED <<durable, world, daemon, starter, launch, permission, queue,
                 recorder, crashes>>

(* Mutants: the recorder is not joined; the worker classifies a failed      *)
(* spawn too.                                                              *)
NotFailed(r)  == recorder[r] # "failed"
Joined(r)     == recorder[r] = "done"
Always(r)     == "classify"
AfterJoin(r)  == IF outcome[r] = "SpawnFailed" THEN "release" ELSE "classify"

(* The terminal transition waits for every diagnostic; a recorder failure  *)
(* replaces it by the refusal.                                             *)
JoinRecorder(r) ==
  /\ worker[r] = "joining"
  /\ \/ /\ Joined(r)
        /\ worker' = [worker EXCEPT ![r] = AfterJoin(r)]
        /\ UNCHANGED refusal
     \/ recorder[r] = "failed" /\ WorkerFails(r)
  /\ NoFault
  /\ UNCHANGED <<durable, world, up, gate, cancel, canceller, starter, launch,
                 permission, seen, outcome, queue, recorder, crashes>>

Classified(r) == IF outcome[r] = "CancelledBeforeLaunch" THEN "Cancelled" ELSE outcome[r]

Classify(r) ==
  /\ worker[r] = "classify"
  /\ \/ /\ Transition(r, Classified(r))
        /\ worker' = [worker EXCEPT ![r] =
             IF outcome[r] = "CancelledBeforeLaunch" THEN "acknowledge" ELSE "release"]
        /\ UNCHANGED refusal
     \/ TransitionErr(r, Classified(r)) /\ WorkerFails(r)
  /\ UNCHANGED <<opSession, recorded, world, up, gate, cancel, canceller, starter,
                 launch, permission, seen, outcome, queue, recorder, crashes>>

(* The durable cancellation is read back and sent to the starter. *)
Acknowledge(r) ==
  /\ worker[r] = "acknowledge"
  /\ \/ /\ launch' = [launch EXCEPT ![r] = "Cancelled"]
        /\ worker' = [worker EXCEPT ![r] = "release"]
        /\ NoFault /\ UNCHANGED refusal
     \/ Fails("state") /\ WorkerFails(r) /\ UNCHANGED launch
  /\ UNCHANGED <<durable, world, up, gate, cancel, canceller, starter, permission,
                 seen, outcome, queue, recorder, crashes>>

(* Mutant: another clone of the launch sender outlives the worker. *)
LaunchOpen(r) == launch[r]
LaunchLeft(r) == IF launch[r] = "none" THEN "dropped" ELSE launch[r]

(* The worker ends, and its locals and channel ends with it: a launch      *)
(* channel it never used is dropped.                                       *)
ReleaseGate(r) ==
  /\ worker[r] = "release"
  /\ gate' = gate \ {r}
  /\ refusal' = (refusal \/ r \notin gate)
  /\ launch' = [launch EXCEPT ![r] = LaunchLeft(r)]
  /\ worker' = [worker EXCEPT ![r] = "done"]
  /\ cancel' = cancel \ {r}
  /\ permission' = [permission EXCEPT ![r] = "none"]
  /\ outcome' = [outcome EXCEPT ![r] = "none"]
  /\ NoFault
  /\ UNCHANGED <<durable, world, up, canceller, starter, seen, queue, recorder, crashes>>

(* What the child makes Target see: never promised by the scheduler. *)
Emits(r) ==
  \/ EmitDiagnostic(r) \/ EmitResult(r)
  \/ \E fact \in {"provider_failure", "terminal_error"} : EmitError(r, fact)

WorkerStep(r) ==
  \/ CancelBeforeTarget(r) \/ BeginTarget(r) \/ BeginTargetFails(r)
  \/ CancelBeforeLaunch(r) \/ SpawnChild(r) \/ SpawnChildFails(r)
  \/ BeginObservation(r) \/ PromptWriterFails(r) \/ StopBeforeRunning(r) \/ PumpFails(r)
  \/ ObserveCancellation(r) \/ ObserveExit(r)
  \/ JoinRecorder(r) \/ Classify(r) \/ Acknowledge(r) \/ ReleaseGate(r)

----------------------------------------------------------------------------
(* The diagnostic recorder thread, and the direct child *)

(* Mutant: an empty channel is read as a diagnostic. *)
Polled(r)   == queue[r] >= 0
Received(r) == queue[r] > 0

Record(r) ==
  /\ recorder[r] = "running" /\ Received(r)
  /\ opState[r] = "Running"
  /\ recorded' = [recorded EXCEPT ![r] = @ + 1]
  /\ queue' = [queue EXCEPT ![r] = @ - 1]
  /\ NoFault
  /\ UNCHANGED <<opState, opSession, claim, world, daemon, starter, launch, permission,
                 worker, seen, outcome, recorder, crashes>>

(* The row is refused or State fails: the recorder raises the cancellation *)
(* flag, if the gate still has one, and ends; what is queued is dropped.   *)
RecordFails(r) ==
  /\ recorder[r] = "running" /\ Received(r)
  /\ (opState[r] # "Running" /\ NoFault) \/ Fails("state")
  /\ cancel' = Signal(r)
  /\ recorder' = [recorder EXCEPT ![r] = "failed"]
  /\ queue' = [queue EXCEPT ![r] = 0]
  /\ UNCHANGED <<durable, world, up, gate, refusal, canceller, starter, launch,
                 permission, worker, seen, outcome, crashes>>

(* Target has dropped the sender, and every diagnostic was received. *)
RecorderEnds(r) ==
  /\ recorder[r] = "running" /\ queue[r] = 0
  /\ worker[r] \in {"joining", "panicked"}
  /\ recorder' = [recorder EXCEPT ![r] = "done"]
  /\ NoFault
  /\ UNCHANGED <<durable, world, daemon, starter, launch, permission, worker, seen,
                 outcome, queue, crashes>>

RecorderStep(r) == Record(r) \/ RecordFails(r) \/ RecorderEnds(r)

ExitBy(r, status) ==
  /\ child' = [child EXCEPT ![r] = status]
  /\ UNCHANGED <<durable, spawns, daemon, threads, failed, faults, crashes>>

(* The child leaves when it likes, whether or not the daemon is there. *)
ChildExits(r)       == child[r] = "alive" /\ \E status \in Exited : ExitBy(r, status)
KilledChildExits(r) == child[r] = "killed" /\ ExitBy(r, "exited_bad")

----------------------------------------------------------------------------
(* operation_cancel, for a one-shot operation *)

CancellerAt(r, pc) == canceller' = [canceller EXCEPT ![r] = pc]

CancelUnchanged == UNCHANGED <<durable, world, up, gate, refusal, threads, crashes>>

(* The operation is read, is not terminal, and is not a conversation. *)
CancelRequest(r) ==
  /\ up /\ ~refusal
  /\ canceller[r] \in {"idle", "gate_error"} /\ opState[r] \in Nonterminal
  /\ CancellerAt(r, "routed")
  /\ NoFault /\ UNCHANGED cancel /\ CancelUnchanged

CancelSignal(r) ==
  /\ canceller[r] = "routed"
  /\ CancellerAt(r, IF r \in gate THEN "signalled" ELSE "absent")
  /\ cancel' = Signal(r)
  /\ NoFault /\ CancelUnchanged

(* No gate: the answer is the terminal operation, or an error. *)
CancelAbsent(r) ==
  /\ canceller[r] = "absent"
  /\ CancellerAt(r, IF opState[r] \in Terminal THEN "idle" ELSE "gate_error")
  /\ NoFault /\ UNCHANGED cancel /\ CancelUnchanged

(* wait_for_terminal_cancellation polls the refusal, then the operation. *)
CancelAnswer(r) ==
  /\ canceller[r] = "signalled"
  /\ refusal \/ opState[r] \in Terminal
  /\ CancellerAt(r, "idle")
  /\ NoFault /\ UNCHANGED cancel /\ CancelUnchanged

CancelReadFails(r) ==
  /\ canceller[r] \in {"signalled", "absent"}
  /\ CancellerAt(r, "idle")
  /\ Fails("state") /\ UNCHANGED cancel /\ CancelUnchanged

CancellerStep(r) ==
  CancelSignal(r) \/ CancelAbsent(r) \/ CancelAnswer(r) \/ CancelReadFails(r)

----------------------------------------------------------------------------
(* The daemon stops, and a later one opens the same State file *)

Crash ==
  /\ up /\ crashes < MaxCrashes
  /\ crashes' = crashes + 1
  /\ up' = FALSE
  /\ gate' = {} /\ cancel' = {} /\ refusal' = FALSE /\ failed' = {}
  /\ starter' = [r \in Requests |-> "idle"]
  /\ launch' = [r \in Requests |-> "none"]
  /\ permission' = [r \in Requests |-> "none"]
  /\ worker' = [r \in Requests |-> "none"]
  /\ seen' = [r \in Requests |-> {}]
  /\ outcome' = [r \in Requests |-> "none"]
  /\ queue' = [r \in Requests |-> 0]
  /\ recorder' = [r \in Requests |-> "none"]
  /\ canceller' = [r \in Requests |-> "idle"]
  /\ UNCHANGED <<durable, world, faults>>

Unfinished(r) == opState[r] \in Nonterminal

(* Recovery: what was not terminal is Indeterminate and keeps its claim. *)
Restart ==
  /\ ~up
  /\ up' = TRUE
  /\ opState' = [r \in Requests |->
                   IF Unfinished(r) THEN "Indeterminate" ELSE opState[r]]
  /\ UNCHANGED <<opSession, claim, recorded, world, gate, cancel, refusal, canceller,
                 threads, failed, faults, crashes>>

(* Nothing is left to do but to serve reads and poll: the only way to stop. *)
Quiescent ==
  /\ up
  /\ \A r \in Requests : /\ starter[r] = "idle"
                         /\ worker[r] \in {"none", "done", "panicked"}
                         /\ recorder[r] # "running"
  /\ UNCHANGED vars

Next ==
  \/ \E r \in Requests :
       \/ \E intent \in Intents : Admit(r, intent)
       \/ AdmitFails(r) \/ StarterStep(r)
       \/ WorkerStep(r) \/ Emits(r) \/ RecorderStep(r)
       \/ ChildExits(r) \/ KilledChildExits(r)
       \/ CancelRequest(r) \/ CancellerStep(r)
  \/ Crash \/ Restart \/ Quiescent

Spec == Init /\ [][Next]_vars

(* The scheduler runs every thread that can run, and SIGKILL takes effect. *)
(* Requests, output of a child, its own exit, faults and crashes are not   *)
(* promised.                                                               *)
Fairness ==
  \A r \in Requests :
    /\ WF_vars(StarterStep(r)) /\ WF_vars(WorkerStep(r)) /\ WF_vars(RecorderStep(r))
    /\ WF_vars(CancellerStep(r)) /\ WF_vars(KilledChildExits(r))

FairSpec == Spec /\ Fairness

----------------------------------------------------------------------------
(* Properties *)

(* Two children that have not exited never share a Claude session, also    *)
(* when one of them outlived a crash of the daemon that started it.        *)
SingleWriter ==
  \A p, q \in Requests :
    child[p] \in Writing /\ child[q] \in Writing /\ opSession[p] = opSession[q] => p = q

(* While a child has not exited its session is claimed by its operation,   *)
(* so that persist_admission refuses every other writer of the session.    *)
ClaimCoversChild ==
  \A r \in Requests : child[r] \in Writing => claim[opSession[r]] = r

(* active_sessions and operations agree: a live operation holds its claim, *)
(* and no finished one does but those left unclassified by a restart: the  *)
(* last arm of active_writer_error is unreachable.                         *)
WriterClaimAgreement ==
  /\ \A r \in Requests : opState[r] \in Nonterminal => claim[opSession[r]] = r
  /\ \A s \in Sessions : claim[s] # None =>
       /\ opSession[claim[s]] = s
       /\ opState[claim[s]] \in Nonterminal \cup {"Indeterminate"}

(* A claim is given up by the step that makes its owner terminal, and only *)
(* when the owner's child has exited; it is never handed over directly.    *)
ClaimHandover ==
  [][\A s \in Sessions : claim[s] # None /\ claim'[s] # claim[s] =>
       /\ claim'[s] = None
       /\ opState[claim[s]] \in Nonterminal /\ opState'[claim[s]] \in Terminal
       /\ child[claim[s]] \notin Writing]_vars

(* The one-shot operations implement the promise of SessionWriter: a       *)
(* terminal operation that still holds its session is unclassified.        *)
Writers == {r \in Requests : child[r] \in Writing}

Phase == [r \in Requests |->
  IF opState[r] = "Absent" THEN "fresh"
  ELSE IF opState[r] \in Nonterminal THEN "live"
  ELSE IF claim[opSession[r]] = r THEN "unclassified" ELSE "settled"]

Promise == INSTANCE SessionWriter
  WITH Operations <- Requests, holder <- claim, phase <- Phase, writing <- Writers

ImplementsSessionWriter == Promise!Spec

(* What the position of each thread of an operation says about its durable *)
(* state, its channels and its child: no thread writes a terminal state    *)
(* past a child that may still write, and none acts on a stale launch.     *)
Handshake(r) ==
  /\ opState[r] = "Absent" => /\ starter[r] = "idle" /\ worker[r] = "none"
                              /\ launch[r] = "none" /\ permission[r] = "none"
                              /\ child[r] = "none"
  /\ opState[r] # "Absent" => opSession[r] \in Sessions
  /\ starter[r] \in {"admitted", "gated"} => worker[r] = "none"
  /\ starter[r] \in {"admitted", "gated"} \/ worker[r] \in {"spawned", "launching"}
     => /\ opState[r] = "Accepted" /\ launch[r] = "none"
        /\ permission[r] = "none" /\ child[r] = "none"
  /\ worker[r] # "none" /\ launch[r] = "none" => child[r] = "none"
  /\ launch[r] \in {"SpawnFailed", "Cancelled", "dropped"} => child[r] = "none"
  /\ worker[r] \in {"permission", "observing"} => launch[r] = "Launched"
  /\ worker[r] = "observing" \/ (worker[r] = "permission" /\ permission[r] = "granted")
     => opState[r] = "Running"
  /\ worker[r] \in {"joining", "classify"} => child[r] \notin Writing
  /\ worker[r] \in {"joining", "classify"} /\ outcome[r] = "CancelledBeforeLaunch"
     => launch[r] = "Cancelled"
  /\ worker[r] = "acknowledge" => launch[r] \in {"none", "Cancelled"}
  /\ child[r] = "none" => spawns[r] = 0
  /\ spawns[r] <= 1

HandshakeHolds ==
  /\ \A r \in Requests : Handshake(r)
  /\ ~up => \A r \in Requests :
              starter[r] = "idle" /\ worker[r] = "none" /\ launch[r] = "none"

(* A request launches at most one child in all, over retries of the same   *)
(* request, failures and restarts of the daemon.                           *)
AtMostOneLaunch == \A r \in Requests : spawns[r] <= 1

(* Target writes the prompt and observes the child only while Running is   *)
(* durable, so a restart never finds an Accepted operation that was given  *)
(* its prompt.                                                             *)
PromptAfterDurableRunning ==
  \A r \in Requests : worker[r] = "observing" => opState[r] = "Running"

(* When an operation becomes terminal under the daemon that ran it, no     *)
(* diagnostic of it is still on its way: a reader that sees the terminal   *)
(* state has the complete stream.                                          *)
DiagnosticsBeforeTerminal ==
  \A r \in Requests : opState[r] \in Terminal => queue[r] = 0

(* The daemon refuses all requests only after a State call or a thread     *)
(* creation failed: no order of starter, worker, recorder and canceller    *)
(* steps alone makes a transition conflict and latch the refusal.          *)
RefusalHasCause == refusal => failed # {}

(* A start request is answered, whatever fails and whoever cancels: none   *)
(* of the starter's channel receives blocks for ever.                      *)
StartAnswered == \A r \in Requests : starter[r] # "idle" ~> starter[r] = "idle"

(* Unless State or a thread fails, or the daemon stops, a cancellation     *)
(* that reached the gate ends in a terminal operation: wherever starter,   *)
(* worker and recorder then are, one of them sees the flag.                *)
CancelSettles ==
  \A r \in Requests :
    canceller[r] = "signalled" ~> (opState[r] \in Terminal \/ ~up \/ failed # {})

============================================================================
