----------------------- MODULE OperationControl_proofs -----------------------
(***************************************************************************)
(* Proofs about OperationControl, for every set of requests and sessions   *)
(* and every bound.                                                        *)
(***************************************************************************)
EXTENDS OperationControl, TLAPS

(* The definitions that group or type variables, and those that name one   *)
(* condition or one new value.                                             *)
USE DEF vars, durable, world, daemon, threads, Terminal, Nonterminal, Writing, Exited,
        Outcomes, Facts, NoFault, ClaimAfter, Unclaimed, Unknown, Signal, Permitted, AfterWait,
        ExitSeen, Joined, AfterJoin, LaunchLeft, Received, Unfinished

----------------------------------------------------------------------------
(* Type correctness *)

(* A fault keeps the types of the fault counter and of the failure kinds. *)
LEMMA FailsType ==
  ASSUME TypeOK, Fails("state") \/ Fails("thread")
  PROVE  faults' \in Nat /\ failed' \subseteq {"state", "thread"}
<1>1. CASE Fails("state")
  BY <1>1 DEF TypeOK, Fails
<1>2. CASE Fails("thread")
  BY <1>2 DEF TypeOK, Fails
<1>3. QED BY <1>1, <1>2

(* So does the absence of a fault. *)
LEMMA NoFaultType ==
  ASSUME TypeOK, NoFault
  PROVE  faults' \in Nat /\ failed' \subseteq {"state", "thread"}
  BY DEF TypeOK

(* A State call returns with well-typed state, claims and fault counter. *)
LEMMA TransitionType ==
  ASSUME TypeOK, NEW r \in Requests,
         NEW next \in Nonterminal \cup Terminal,
         Transition(r, next) \/ TransitionErr(r, next)
  PROVE  /\ opState' \in [Requests -> {"Absent"} \cup Nonterminal \cup Terminal]
         /\ claim' \in [Sessions -> Requests \cup {None}]
         /\ faults' \in Nat /\ failed' \subseteq {"state", "thread"}
<1>1. CASE Transition(r, next)
  BY <1>1 DEF TypeOK, Transition, Released
<1>2. CASE TransitionErr(r, next)
  <2>1. NoFault \/ Fails("state")
    BY <1>2 DEF TransitionErr
  <2>2. faults' \in Nat /\ failed' \subseteq {"state", "thread"}
    BY <2>1, FailsType, NoFaultType
  <2>3. QED BY <1>2, <2>2 DEF TypeOK, TransitionErr
<1>3. QED BY <1>1, <1>2

(* Every step of the starter thread keeps every variable in its type. *)
LEMMA StarterType ==
  ASSUME TypeOK, NEW r \in Requests, StarterStep(r)
  PROVE  TypeOK'
<1>1. CASE AdmitGate(r)
  BY <1>1 DEF TypeOK, AdmitGate
<1>2. CASE SpawnWorker(r)
  BY <1>2 DEF TypeOK, SpawnWorker
<1>3. CASE SpawnWorkerFails(r)
  <2>1. faults' \in Nat /\ failed' \subseteq {"state", "thread"}
    <3>1. CASE Fails("thread")
      BY <3>1, FailsType
    <3>2. CASE faults' = faults + 2 /\ failed' = {"state", "thread"}
      BY <3>2 DEF TypeOK
    <3>3. QED BY <1>3, <3>1, <3>2 DEF SpawnWorkerFails
  <2>2. QED BY <1>3, <2>1 DEF TypeOK, SpawnWorkerFails, Released
<1>4. CASE StarterLaunched(r)
  BY <1>4, TransitionType DEF TypeOK, StarterLaunched
<1>5. CASE StarterSpawnFailed(r)
  BY <1>5, TransitionType DEF TypeOK, StarterSpawnFailed
<1>6. CASE StarterCancelled(r)
  BY <1>6 DEF TypeOK, StarterCancelled
<1>7. CASE StarterDropped(r)
  BY <1>7, TransitionType DEF TypeOK, StarterDropped
<1>8. QED
  BY <1>1, <1>2, <1>3, <1>4, <1>5, <1>6, <1>7 DEF StarterStep

(* Every step of the worker thread keeps every variable in its type. *)
LEMMA WorkerType ==
  ASSUME TypeOK, NEW r \in Requests, WorkerStep(r)
  PROVE  TypeOK'
<1>1. CASE CancelBeforeTarget(r)
  BY <1>1, TransitionType DEF TypeOK, CancelBeforeTarget, WorkerFails
<1>2. CASE BeginTarget(r)
  BY <1>2 DEF TypeOK, BeginTarget
<1>3. CASE BeginTargetFails(r)
  BY <1>3, FailsType DEF TypeOK, BeginTargetFails, WorkerFails
<1>4. CASE CancelBeforeLaunch(r)
  BY <1>4 DEF TypeOK, CancelBeforeLaunch, Returns
<1>5. CASE SpawnChild(r)
  BY <1>5 DEF TypeOK, SpawnChild
<1>6. CASE SpawnChildFails(r)
  BY <1>6 DEF TypeOK, SpawnChildFails, Returns
<1>7. CASE BeginObservation(r)
  BY <1>7 DEF TypeOK, BeginObservation
<1>8. CASE PromptWriterFails(r)
  BY <1>8, FailsType DEF TypeOK, PromptWriterFails
<1>9. CASE StopBeforeRunning(r)
  BY <1>9 DEF TypeOK, StopBeforeRunning, Returns, Unproven, AfterKill
<1>10. CASE PumpFails(r)
  BY <1>10 DEF TypeOK, PumpFails, Returns, Unproven, AfterKill
<1>11. CASE ObserveCancellation(r)
  BY <1>11 DEF TypeOK, ObserveCancellation
<1>12. CASE ObserveExit(r)
  BY <1>12 DEF TypeOK, ObserveExit, Returns, ExitOutcomes
<1>13. CASE JoinRecorder(r)
  BY <1>13 DEF TypeOK, JoinRecorder, WorkerFails
<1>14. CASE Classify(r)
  <2>1. Classified(r) \in {"Succeeded", "Failed", "Cancelled", "Indeterminate"}
        \/ Classified(r) \in {"none", "SpawnFailed"}
    BY DEF TypeOK, Classified
  <2>2. CASE Classified(r) \in {"none", "SpawnFailed"}
    <3>1. ~Transition(r, Classified(r))
      BY <2>2 DEF Transition, Allowed
    <3>2. TransitionErr(r, Classified(r)) /\ WorkerFails(r)
      BY <1>14, <3>1 DEF Classify
    <3>3. NoFault \/ Fails("state")
      BY <3>2 DEF TransitionErr
    <3>4. faults' \in Nat /\ failed' \subseteq {"state", "thread"}
      BY <3>3, FailsType, NoFaultType
    <3>5. UNCHANGED <<opState, claim>>
      BY <3>2 DEF TransitionErr
    <3>6. worker' = [worker EXCEPT ![r] = "release"] /\ refusal' = TRUE
      BY <3>2 DEF WorkerFails
    <3>7. UNCHANGED <<opSession, recorded, world, up, gate, cancel, canceller, starter,
                      launch, permission, seen, outcome, queue, recorder, crashes>>
      BY <1>14 DEF Classify
    <3>8. QED BY <3>4, <3>5, <3>6, <3>7 DEF TypeOK
  <2>3. CASE Classified(r) \in {"Succeeded", "Failed", "Cancelled", "Indeterminate"}
    BY <1>14, <2>3, TransitionType DEF TypeOK, Classify, WorkerFails
  <2>4. QED BY <2>1, <2>2, <2>3
<1>15. CASE Acknowledge(r)
  <2>1. NoFault \/ Fails("state")
    BY <1>15 DEF Acknowledge
  <2>2. faults' \in Nat /\ failed' \subseteq {"state", "thread"}
    BY <2>1, FailsType, NoFaultType
  <2>3. CASE /\ launch' = [launch EXCEPT ![r] = "Cancelled"]
             /\ worker' = [worker EXCEPT ![r] = "release"]
             /\ UNCHANGED refusal
    BY <1>15, <2>2, <2>3 DEF TypeOK, Acknowledge
  <2>4. CASE WorkerFails(r) /\ UNCHANGED launch
    <3>1. UNCHANGED <<durable, world, up, gate, cancel, canceller, starter, permission,
                      seen, outcome, queue, recorder, crashes>>
      BY <1>15 DEF Acknowledge
    <3>2. QED BY <2>2, <2>4, <3>1 DEF TypeOK, WorkerFails
  <2>5. QED BY <1>15, <2>3, <2>4 DEF Acknowledge
<1>16. CASE ReleaseGate(r)
  BY <1>16 DEF TypeOK, ReleaseGate
<1>17. QED
  BY <1>1, <1>2, <1>3, <1>4, <1>5, <1>6, <1>7, <1>8, <1>9, <1>10, <1>11, <1>12, <1>13,
     <1>14, <1>15, <1>16
     DEF WorkerStep

(* Every line of the child's output keeps every variable in its type. *)
LEMMA EmitsType ==
  ASSUME TypeOK, NEW r \in Requests, Emits(r)
  PROVE  TypeOK'
<1>1. CASE EmitDiagnostic(r)
  BY <1>1 DEF TypeOK, EmitDiagnostic
<1>2. CASE EmitResult(r)
  BY <1>2 DEF TypeOK, EmitResult
<1>3. ASSUME NEW fact \in {"provider_failure", "terminal_error"}, EmitError(r, fact)
      PROVE  TypeOK'
  BY <1>3 DEF TypeOK, EmitError, AfterKill
<1>4. QED
  BY <1>1, <1>2, <1>3 DEF Emits

(* Every step of the diagnostic recorder keeps every variable in its type. *)
LEMMA RecorderType ==
  ASSUME TypeOK, NEW r \in Requests, RecorderStep(r)
  PROVE  TypeOK'
<1>1. CASE Record(r)
  BY <1>1 DEF TypeOK, Record
<1>2. CASE RecordFails(r)
  <2>1. NoFault \/ Fails("state")
    BY <1>2 DEF RecordFails
  <2>2. faults' \in Nat /\ failed' \subseteq {"state", "thread"}
    BY <2>1, FailsType, NoFaultType
  <2>3. QED BY <1>2, <2>2 DEF TypeOK, RecordFails
<1>3. CASE RecorderEnds(r)
  BY <1>3 DEF TypeOK, RecorderEnds
<1>4. QED
  BY <1>1, <1>2, <1>3 DEF RecorderStep

(* Every step of operation_cancel keeps every variable in its type. *)
LEMMA CancellerType ==
  ASSUME TypeOK, NEW r \in Requests, CancellerStep(r)
  PROVE  TypeOK'
<1>1. CASE CancelSignal(r)
  BY <1>1 DEF TypeOK, CancelSignal, CancellerAt, CancelUnchanged
<1>2. CASE CancelAbsent(r)
  BY <1>2 DEF TypeOK, CancelAbsent, CancellerAt, CancelUnchanged
<1>3. CASE CancelAnswer(r)
  BY <1>3 DEF TypeOK, CancelAnswer, CancellerAt, CancelUnchanged
<1>4. CASE CancelReadFails(r)
  BY <1>4, FailsType DEF TypeOK, CancelReadFails, CancellerAt, CancelUnchanged
<1>5. QED
  BY <1>1, <1>2, <1>3, <1>4 DEF CancellerStep

(* The daemon that opens an empty State file is well typed. *)
LEMMA InitType == Init => TypeOK
<1>1. SUFFICES ASSUME Init PROVE TypeOK
  OBVIOUS
<1>2. /\ opState \in [Requests -> {"Absent"} \cup Nonterminal \cup Terminal]
      /\ opSession \in [Requests -> Sessions \cup {None}]
      /\ claim \in [Sessions -> Requests \cup {None}]
      /\ recorded \in [Requests -> Nat]
      /\ child \in [Requests -> {"none"} \cup Writing \cup Exited]
      /\ spawns \in [Requests -> Nat]
  BY <1>1 DEF Init
<1>3. QED BY <1>1, <1>2 DEF Init, TypeOK

(* Every step of the daemon, its children and its restarts is well typed. *)
LEMMA NextType == TypeOK /\ [Next]_vars => TypeOK'
<1>1. SUFFICES ASSUME TypeOK, [Next]_vars PROVE TypeOK'
  OBVIOUS
<1>2. CASE UNCHANGED vars
  BY <1>1, <1>2 DEF TypeOK
<1>3. ASSUME NEW r \in Requests, NEW intent \in Intents, Admit(r, intent)
      PROVE  TypeOK'
  <2>1. PICK s \in Sessions : /\ opSession' = [opSession EXCEPT ![r] = s]
                             /\ claim' = [claim EXCEPT ![s] = r]
    BY <1>3 DEF Admit, SessionFor, Intents
  <2>2. QED BY <1>1, <1>3, <2>1 DEF TypeOK, Admit
<1>4. ASSUME NEW r \in Requests, AdmitFails(r)
      PROVE  TypeOK'
  BY <1>1, <1>4, FailsType DEF TypeOK, AdmitFails
<1>5. ASSUME NEW r \in Requests,
             ChildExits(r) \/ KilledChildExits(r) \/ CancelRequest(r)
      PROVE  TypeOK'
  <2>1. CASE ChildExits(r)
    BY <1>1, <2>1 DEF TypeOK, ChildExits, ExitBy
  <2>2. CASE KilledChildExits(r)
    BY <1>1, <2>2 DEF TypeOK, KilledChildExits, ExitBy
  <2>3. CASE CancelRequest(r)
    BY <1>1, <2>3 DEF TypeOK, CancelRequest, CancellerAt, CancelUnchanged
  <2>4. QED BY <1>5, <2>1, <2>2, <2>3
<1>6. ASSUME NEW r \in Requests,
             StarterStep(r) \/ WorkerStep(r) \/ Emits(r) \/ RecorderStep(r) \/ CancellerStep(r)
      PROVE  TypeOK'
  BY <1>1, <1>6, StarterType, WorkerType, EmitsType, RecorderType, CancellerType
<1>7. CASE Crash
  <2>1. /\ UNCHANGED <<opState, opSession, claim, recorded, child, spawns, faults>>
        /\ up' = FALSE /\ refusal' = FALSE /\ crashes' = crashes + 1
        /\ gate' = {} /\ cancel' = {} /\ failed' = {}
    BY <1>7 DEF Crash
  <2>2. /\ starter' \in [Requests -> {"idle", "admitted", "gated", "waiting"}]
        /\ launch' \in [Requests -> {"none", "Launched", "SpawnFailed", "Cancelled", "dropped"}]
        /\ permission' \in [Requests -> {"none", "granted", "denied"}]
    BY <1>7 DEF Crash
  <2>3. /\ worker' \in [Requests -> {"none", "spawned", "launching", "permission", "observing",
                                     "joining", "classify", "acknowledge", "release", "done",
                                     "panicked"}]
        /\ seen' \in [Requests -> SUBSET Facts]
        /\ outcome' \in [Requests -> Outcomes]
    BY <1>7 DEF Crash
  <2>4. /\ queue' \in [Requests -> Nat]
        /\ recorder' \in [Requests -> {"none", "running", "failed", "done"}]
        /\ canceller' \in [Requests -> {"idle", "routed", "signalled", "absent", "gate_error"}]
    BY <1>7 DEF Crash
  <2>5. gate' \subseteq Requests /\ cancel' \subseteq Requests
        /\ failed' \subseteq {"state", "thread"}
    BY <2>1
  <2>6. /\ up' \in BOOLEAN /\ refusal' \in BOOLEAN
        /\ crashes' \in Nat /\ faults' \in Nat
    <3>1. up' \in BOOLEAN /\ refusal' \in BOOLEAN
      BY <2>1
    <3>2. crashes' \in Nat /\ faults' \in Nat
      BY <1>1, <2>1 DEF TypeOK
    <3>3. QED BY <3>1, <3>2
  <2>7. /\ opState' \in [Requests -> {"Absent"} \cup Nonterminal \cup Terminal]
        /\ opSession' \in [Requests -> Sessions \cup {None}]
        /\ claim' \in [Sessions -> Requests \cup {None}]
        /\ recorded' \in [Requests -> Nat]
        /\ child' \in [Requests -> {"none"} \cup Writing \cup Exited]
        /\ spawns' \in [Requests -> Nat]
    BY <1>1, <2>1 DEF TypeOK
  <2>8. QED BY <2>2, <2>3, <2>4, <2>5, <2>6, <2>7 DEF TypeOK
<1>8. CASE Restart
  BY <1>1, <1>8 DEF TypeOK, Restart
<1>9. QED
  BY <1>1, <1>2, <1>3, <1>4, <1>5, <1>6, <1>7, <1>8 DEF Next, Quiescent

(* Every variable keeps its type. *)
THEOREM TypeCorrect == Spec => []TypeOK
  BY InitType, NextType, PTL DEF Spec

----------------------------------------------------------------------------
(* One writer for each session *)

(* The inductive invariant: SingleWriter needs that a writing child's      *)
(* session is claimed; that needs that no thread writes a terminal state   *)
(* past a writing child, which is what Handshake says of each thread; and  *)
(* a child is spawned under a claim because its operation is Accepted.     *)
IInv == TypeOK /\ HandshakeHolds /\ WriterClaimAgreement /\ ClaimCoversChild

(* A step that leaves the State tables and the children alone. *)
LEMMA ClaimsStay ==
  ASSUME WriterClaimAgreement, ClaimCoversChild, UNCHANGED <<opState, opSession, claim, child>>
  PROVE  WriterClaimAgreement' /\ ClaimCoversChild'
  BY DEF WriterClaimAgreement, ClaimCoversChild

(* A transition that is not terminal, or whose child does not write. *)
LEMMA ClaimsSettle ==
  ASSUME IInv, NEW r \in Requests, NEW next,
         Transition(r, next) \/ TransitionErr(r, next),
         next \in Terminal => child[r] \notin Writing,
         UNCHANGED <<opSession, child>>
  PROVE  WriterClaimAgreement' /\ ClaimCoversChild'
<1>1. CASE TransitionErr(r, next)
  BY <1>1, ClaimsStay DEF IInv, TransitionErr
<1>2. CASE Transition(r, next)
  <2>1. \A q \in Requests : opState[q] \in Nonterminal \/ child[q] \in Writing
                            => opSession[q] \in Sessions
    BY DEF IInv, HandshakeHolds, Handshake
  <2>2. WriterClaimAgreement'
    BY <1>2, <2>1, NamesAssumption
       DEF IInv, TypeOK, WriterClaimAgreement, Transition, Allowed, Released
  <2>3. ClaimCoversChild'
    BY <1>2, <2>1 DEF IInv, TypeOK, ClaimCoversChild, Transition, Allowed, Released
  <2>4. QED BY <2>2, <2>3
<1>3. QED BY <1>1, <1>2

(* A step that leaves the State tables alone and starts no child. *)
LEMMA ChildrenStop ==
  ASSUME WriterClaimAgreement, ClaimCoversChild, UNCHANGED <<opState, opSession, claim>>,
         \A q \in Requests : child'[q] \in Writing => child[q] \in Writing
  PROVE  WriterClaimAgreement' /\ ClaimCoversChild'
  BY DEF WriterClaimAgreement, ClaimCoversChild

(* The starter keeps the inductive invariant. *)
LEMMA StarterKeeps ==
  ASSUME IInv, NEW r \in Requests, StarterStep(r)
  PROVE  HandshakeHolds' /\ WriterClaimAgreement' /\ ClaimCoversChild'
<1>1. CASE AdmitGate(r)
  <2>1. HandshakeHolds'
    BY <1>1 DEF IInv, TypeOK, HandshakeHolds, Handshake, AdmitGate
  <2>2. QED BY <1>1, <2>1, ClaimsStay DEF IInv, AdmitGate
<1>2. CASE SpawnWorker(r)
  <2>1. HandshakeHolds'
    BY <1>2 DEF IInv, TypeOK, HandshakeHolds, Handshake, SpawnWorker
  <2>2. QED BY <1>2, <2>1, ClaimsStay DEF IInv, SpawnWorker
<1>3. CASE SpawnWorkerFails(r)
  <2>1. HandshakeHolds'
    BY <1>3 DEF IInv, TypeOK, HandshakeHolds, Handshake, SpawnWorkerFails
  <2>2. child[r] \notin Writing /\ opState[r] = "Accepted"
    BY <1>3 DEF IInv, HandshakeHolds, Handshake, SpawnWorkerFails
  <2>3. \A q \in Requests : opState[q] \in Nonterminal \/ child[q] \in Writing
                            => opSession[q] \in Sessions
    BY DEF IInv, HandshakeHolds, Handshake
  <2>4. WriterClaimAgreement'
    BY <1>3, <2>2, <2>3, NamesAssumption
       DEF IInv, TypeOK, WriterClaimAgreement, SpawnWorkerFails, Released
  <2>5. ClaimCoversChild'
    BY <1>3, <2>2, <2>3 DEF IInv, TypeOK, ClaimCoversChild, SpawnWorkerFails, Released
  <2>6. QED BY <2>1, <2>4, <2>5
<1>4. CASE StarterLaunched(r)
  <2>1. HandshakeHolds'
    BY <1>4 DEF IInv, TypeOK, HandshakeHolds, Handshake, StarterLaunched, Transition,
                TransitionErr, Allowed
  <2>2. QED BY <1>4, <2>1, ClaimsSettle DEF IInv, StarterLaunched
<1>5. CASE StarterSpawnFailed(r)
  <2>1. HandshakeHolds'
    BY <1>5 DEF IInv, TypeOK, HandshakeHolds, Handshake, StarterSpawnFailed, Transition,
                TransitionErr, Allowed
  <2>2. child[r] \notin Writing
    BY <1>5 DEF IInv, HandshakeHolds, Handshake, StarterSpawnFailed
  <2>3. QED BY <1>5, <2>1, <2>2, ClaimsSettle DEF StarterSpawnFailed
<1>6. CASE StarterCancelled(r)
  <2>1. HandshakeHolds'
    BY <1>6 DEF IInv, TypeOK, HandshakeHolds, Handshake, StarterCancelled
  <2>2. QED BY <1>6, <2>1, ClaimsStay DEF IInv, StarterCancelled
<1>7. CASE StarterDropped(r)
  <2>1. HandshakeHolds'
    BY <1>7 DEF IInv, TypeOK, HandshakeHolds, Handshake, StarterDropped, Transition,
                TransitionErr, Allowed
  <2>2. child[r] \notin Writing
    BY <1>7 DEF IInv, HandshakeHolds, Handshake, StarterDropped
  <2>3. QED BY <1>7, <2>1, <2>2, ClaimsSettle DEF StarterDropped
<1>8. QED
  BY <1>1, <1>2, <1>3, <1>4, <1>5, <1>6, <1>7 DEF StarterStep

(* The worker keeps the inductive invariant: it ends an operation only after the
   exit of its child. *)
LEMMA WorkerKeeps ==
  ASSUME IInv, ~UnprovenExit, NEW r \in Requests, WorkerStep(r)
  PROVE  HandshakeHolds' /\ WriterClaimAgreement' /\ ClaimCoversChild'
<1>0. Unproven(r) = {}
  BY DEF Unproven
<1>1. CASE CancelBeforeTarget(r)
  <2>1. HandshakeHolds'
    BY <1>1 DEF IInv, TypeOK, HandshakeHolds, Handshake, CancelBeforeTarget, WorkerFails,
       Transition,
                TransitionErr, Allowed
  <2>2. child[r] \notin Writing
    BY <1>1 DEF IInv, HandshakeHolds, Handshake, CancelBeforeTarget
  <2>3. QED BY <1>1, <2>1, <2>2, ClaimsSettle DEF CancelBeforeTarget
<1>2. CASE BeginTarget(r)
  <2>1. HandshakeHolds'
    BY <1>2 DEF IInv, TypeOK, HandshakeHolds, Handshake, BeginTarget
  <2>2. QED BY <1>2, <2>1, ClaimsStay DEF IInv, BeginTarget
<1>3. CASE BeginTargetFails(r)
  <2>1. HandshakeHolds'
    BY <1>3 DEF IInv, TypeOK, HandshakeHolds, Handshake, BeginTargetFails, WorkerFails
  <2>2. QED BY <1>3, <2>1, ClaimsStay DEF IInv, BeginTargetFails
<1>4. CASE CancelBeforeLaunch(r)
  <2>1. HandshakeHolds'
    BY <1>4 DEF IInv, TypeOK, HandshakeHolds, Handshake, CancelBeforeLaunch, Returns
  <2>2. QED BY <1>4, <2>1, ClaimsStay DEF IInv, CancelBeforeLaunch
<1>5. CASE SpawnChild(r)
  <2>1. HandshakeHolds'
    BY <1>5 DEF IInv, TypeOK, HandshakeHolds, Handshake, SpawnChild
  <2>2. opState[r] = "Accepted"
    BY <1>5 DEF IInv, HandshakeHolds, Handshake, SpawnChild
  <2>3. claim[opSession[r]] = r
    BY <2>2 DEF IInv, WriterClaimAgreement
  <2>4. QED BY <1>5, <2>1, <2>3 DEF IInv, WriterClaimAgreement, ClaimCoversChild, SpawnChild
<1>6. CASE SpawnChildFails(r)
  <2>1. HandshakeHolds'
    BY <1>6 DEF IInv, TypeOK, HandshakeHolds, Handshake, SpawnChildFails, Returns
  <2>2. QED BY <1>6, <2>1, ClaimsStay DEF IInv, SpawnChildFails
<1>7. CASE BeginObservation(r)
  <2>1. HandshakeHolds'
    BY <1>7 DEF IInv, TypeOK, HandshakeHolds, Handshake, BeginObservation
  <2>2. QED BY <1>7, <2>1, ClaimsStay DEF IInv, BeginObservation
<1>8. CASE PromptWriterFails(r)
  <2>1. HandshakeHolds'
    BY <1>8 DEF IInv, TypeOK, HandshakeHolds, Handshake, PromptWriterFails
  <2>2. QED BY <1>8, <2>1, ClaimsStay DEF IInv, PromptWriterFails
<1>9. CASE StopBeforeRunning(r)
  <2>1. HandshakeHolds'
    BY <1>9, <1>0 DEF IInv, TypeOK, HandshakeHolds, Handshake, StopBeforeRunning, Returns
  <2>2. \A q \in Requests : child'[q] \in Writing => child[q] \in Writing
    BY <1>9, <1>0 DEF IInv, TypeOK, StopBeforeRunning, Returns
  <2>3. QED BY <1>9, <2>1, <2>2, ChildrenStop DEF IInv, StopBeforeRunning
<1>10. CASE PumpFails(r)
  BY <1>10, <1>0 DEF PumpFails
<1>11. CASE ObserveCancellation(r)
  <2>1. HandshakeHolds'
    BY <1>11 DEF IInv, TypeOK, HandshakeHolds, Handshake, ObserveCancellation
  <2>2. \A q \in Requests : child'[q] \in Writing => child[q] \in Writing
    BY <1>11 DEF IInv, TypeOK, ObserveCancellation
  <2>3. QED BY <1>11, <2>1, <2>2, ChildrenStop DEF IInv, ObserveCancellation
<1>12. CASE ObserveExit(r)
  <2>1. HandshakeHolds'
    BY <1>12 DEF IInv, TypeOK, HandshakeHolds, Handshake, ObserveExit, Returns, ExitOutcomes
  <2>2. QED BY <1>12, <2>1, ClaimsStay DEF IInv, ObserveExit
<1>13. CASE JoinRecorder(r)
  <2>1. HandshakeHolds'
    BY <1>13 DEF IInv, TypeOK, HandshakeHolds, Handshake, JoinRecorder, WorkerFails
  <2>2. QED BY <1>13, <2>1, ClaimsStay DEF IInv, JoinRecorder
<1>14. CASE Classify(r)
  <2>1. HandshakeHolds'
    BY <1>14 DEF IInv, TypeOK, HandshakeHolds, Handshake, Classify, Classified, WorkerFails,
                 Transition, TransitionErr, Allowed
  <2>2. child[r] \notin Writing
    BY <1>14 DEF IInv, HandshakeHolds, Handshake, Classify
  <2>3. QED BY <1>14, <2>1, <2>2, ClaimsSettle DEF Classify
<1>15. CASE Acknowledge(r)
  <2>1. HandshakeHolds'
    BY <1>15 DEF IInv, TypeOK, HandshakeHolds, Handshake, Acknowledge, WorkerFails
  <2>2. QED BY <1>15, <2>1, ClaimsStay DEF IInv, Acknowledge
<1>16. CASE ReleaseGate(r)
  <2>1. HandshakeHolds'
    BY <1>16 DEF IInv, TypeOK, HandshakeHolds, Handshake, ReleaseGate
  <2>2. QED BY <1>16, <2>1, ClaimsStay DEF IInv, ReleaseGate
<1>17. QED
  BY <1>1, <1>2, <1>3, <1>4, <1>5, <1>6, <1>7, <1>8, <1>9, <1>10, <1>11, <1>12, <1>13,
     <1>14, <1>15, <1>16
     DEF WorkerStep

(* Lines of the child's output keep the inductive invariant. *)
LEMMA EmitsKeeps ==
  ASSUME IInv, ~UnprovenExit, NEW r \in Requests, Emits(r)
  PROVE  HandshakeHolds' /\ WriterClaimAgreement' /\ ClaimCoversChild'
<1>1. CASE EmitDiagnostic(r) \/ EmitResult(r)
  <2>1. HandshakeHolds'
    BY <1>1 DEF IInv, TypeOK, HandshakeHolds, Handshake, EmitDiagnostic, EmitResult
  <2>2. QED BY <1>1, <2>1, ClaimsStay DEF IInv, EmitDiagnostic, EmitResult
<1>2. ASSUME NEW fact \in {"provider_failure", "terminal_error"}, EmitError(r, fact)
      PROVE  HandshakeHolds' /\ WriterClaimAgreement' /\ ClaimCoversChild'
  <2>1. HandshakeHolds'
    BY <1>2 DEF IInv, TypeOK, HandshakeHolds, Handshake, EmitError, AfterKill
  <2>2. \A q \in Requests : child'[q] \in Writing => child[q] \in Writing
    BY <1>2 DEF IInv, TypeOK, EmitError, AfterKill
  <2>3. QED BY <1>2, <2>1, <2>2, ChildrenStop DEF IInv, EmitError
<1>3. QED BY <1>1, <1>2 DEF Emits

(* The recorder, the canceller and a failed admission touch none of the    *)
(* variables of the invariant.                                             *)
LEMMA OthersKeep ==
  ASSUME IInv, NEW r \in Requests,
         RecorderStep(r) \/ CancellerStep(r) \/ CancelRequest(r) \/ AdmitFails(r)
  PROVE  HandshakeHolds' /\ WriterClaimAgreement' /\ ClaimCoversChild'
<1>1. UNCHANGED <<opState, opSession, claim, child, spawns, up>>
  BY DEF RecorderStep, Record, RecordFails, RecorderEnds, CancellerStep, CancelSignal,
         CancelAbsent, CancelAnswer, CancelReadFails, CancelRequest, AdmitFails, CancelUnchanged
<1>2. UNCHANGED <<starter, launch, permission, worker, outcome>>
  BY DEF RecorderStep, Record, RecordFails, RecorderEnds, CancellerStep, CancelSignal,
         CancelAbsent, CancelAnswer, CancelReadFails, CancelRequest, AdmitFails, CancelUnchanged
<1>3. HandshakeHolds'
  BY <1>1, <1>2 DEF IInv, HandshakeHolds, Handshake
<1>4. QED BY <1>1, <1>3, ClaimsStay DEF IInv

(* Admission keeps the inductive invariant: the session was unclaimed. *)
LEMMA AdmitKeeps ==
  ASSUME IInv, NEW r \in Requests, NEW intent \in Intents, Admit(r, intent)
  PROVE  HandshakeHolds' /\ WriterClaimAgreement' /\ ClaimCoversChild'
<1>1. PICK s \in Sessions : /\ claim[s] = None
                           /\ opSession' = [opSession EXCEPT ![r] = s]
                           /\ claim' = [claim EXCEPT ![s] = r]
  BY DEF Admit, SessionFor, Intents
<1>2. HandshakeHolds'
  BY <1>1 DEF IInv, TypeOK, HandshakeHolds, Handshake, Admit
<1>3. \A q \in Requests : opState[q] \in Nonterminal \/ child[q] \in Writing
                          => opSession[q] \in Sessions \ {s} /\ q # r
  BY <1>1, NamesAssumption
     DEF IInv, TypeOK, HandshakeHolds, Handshake, WriterClaimAgreement, ClaimCoversChild, Admit
<1>4. WriterClaimAgreement'
  <2>1. \A t \in Sessions : claim[t] # r
    BY NamesAssumption DEF IInv, WriterClaimAgreement, Admit
  <2>2. QED BY <1>1, <1>3, <2>1, NamesAssumption DEF IInv, TypeOK, WriterClaimAgreement, Admit
<1>5. ClaimCoversChild'
  BY <1>1, <1>3 DEF IInv, TypeOK, ClaimCoversChild, Admit
<1>6. QED BY <1>2, <1>4, <1>5

(* While kill and wait do not fail, the position of the threads of an operation
   fixes its durable state, a live operation holds its claim, and the claim
   covers every child that may write: IInv is an invariant. *)
THEOREM Inductive == ASSUME ~UnprovenExit PROVE Spec => []IInv
<1>1. Init => IInv
  <2>1. SUFFICES ASSUME Init PROVE HandshakeHolds /\ WriterClaimAgreement /\ ClaimCoversChild
    BY InitType DEF IInv
  <2>2. HandshakeHolds
    BY <2>1 DEF Init, HandshakeHolds, Handshake
  <2>3. QED BY <2>1, <2>2 DEF Init, WriterClaimAgreement, ClaimCoversChild
<1>2. IInv /\ [Next]_vars => IInv'
  <2>1. SUFFICES ASSUME IInv, [Next]_vars
                 PROVE  HandshakeHolds' /\ WriterClaimAgreement' /\ ClaimCoversChild'
    BY NextType DEF IInv
  <2>2. CASE UNCHANGED vars
    BY <2>1, <2>2, ClaimsStay DEF IInv, HandshakeHolds, Handshake
  <2>3. ASSUME NEW r \in Requests, ChildExits(r) \/ KilledChildExits(r)
        PROVE  HandshakeHolds' /\ WriterClaimAgreement' /\ ClaimCoversChild'
    <3>1. HandshakeHolds'
      BY <2>1, <2>3 DEF IInv, TypeOK, HandshakeHolds, Handshake, ChildExits,
                        KilledChildExits, ExitBy
    <3>2. \A q \in Requests : child'[q] \in Writing => child[q] \in Writing
      BY <2>1, <2>3 DEF IInv, TypeOK, ChildExits, KilledChildExits, ExitBy
    <3>3. UNCHANGED <<opState, opSession, claim>>
      BY <2>3 DEF ChildExits, KilledChildExits, ExitBy
    <3>4. QED BY <2>1, <3>1, <3>2, <3>3, ChildrenStop DEF IInv
  <2>4. CASE Crash
    <3>1. HandshakeHolds'
      BY <2>1, <2>4 DEF IInv, TypeOK, HandshakeHolds, Handshake, Crash
    <3>2. QED BY <2>1, <2>4, <3>1, ClaimsStay DEF IInv, Crash
  <2>5. CASE Restart
    <3>1. HandshakeHolds'
      BY <2>1, <2>5 DEF IInv, TypeOK, HandshakeHolds, Handshake, Restart
    <3>2. WriterClaimAgreement'
      BY <2>1, <2>5 DEF IInv, TypeOK, WriterClaimAgreement, Restart
    <3>3. ClaimCoversChild'
      BY <2>1, <2>5 DEF IInv, ClaimCoversChild, Restart
    <3>4. QED BY <3>1, <3>2, <3>3
  <2>6. QED
    BY <2>1, <2>2, <2>3, <2>4, <2>5, StarterKeeps, WorkerKeeps, EmitsKeeps, OthersKeep,
       AdmitKeeps DEF Next, Quiescent
<1>3. QED
  BY <1>1, <1>2, PTL DEF Spec

(* Two children that write never share a session. *)
THEOREM OneWriterPerSession == ASSUME ~UnprovenExit PROVE Spec => []SingleWriter
<1>1. IInv => SingleWriter
  BY DEF IInv, ClaimCoversChild, SingleWriter
<1>2. QED
  BY <1>1, Inductive, PTL

(* The last arm of active_writer_error is unreachable. *)
THEOREM ClaimsAgree == ASSUME ~UnprovenExit PROVE Spec => []WriterClaimAgreement
<1>1. IInv => WriterClaimAgreement
  BY DEF IInv
<1>2. QED
  BY <1>1, Inductive, PTL

----------------------------------------------------------------------------
(* The one-shot operations implement SessionWriter *)

(* A step that leaves the State tables and the set of writers alone. *)
LEMMA MapStutters ==
  ASSUME UNCHANGED <<opState, opSession, claim>>, UNCHANGED Writers
  PROVE  UNCHANGED Promise!vars
  BY DEF Promise!vars, Phase

(* A step that leaves the State tables and the children alone. *)
LEMMA MapStays ==
  ASSUME UNCHANGED <<opState, opSession, claim, child>>
  PROVE  UNCHANGED Promise!vars
  BY MapStutters DEF Writers

(* A child that exits, if it was writing, is the abstract StopWriting. *)
LEMMA MapExit ==
  ASSUME IInv, NEW r \in Requests, NEW c \in Writing \cup Exited \cup {child[r]},
         UNCHANGED <<opState, opSession, claim>>,
         child' = [child EXCEPT ![r] = c],
         c \in Writing => child[r] \in Writing
  PROVE  [Promise!Next]_(Promise!vars)
<1>1. CASE r \in Writers /\ c \notin Writing
  <2>1. Writers' = Writers \ {r}
    BY <1>1 DEF IInv, TypeOK, Writers
  <2>2. Phase' = Phase
    BY DEF Phase
  <2>3. Promise!StopWriting(r)
    BY <1>1, <2>1, <2>2 DEF Promise!StopWriting
  <2>4. QED BY <2>3 DEF Promise!Next
<1>2. CASE ~(r \in Writers /\ c \notin Writing)
  <2>1. Writers' = Writers
    BY <1>2 DEF IInv, TypeOK, Writers
  <2>2. QED BY <2>1, MapStutters
<1>3. QED BY <1>1, <1>2

(* A committed terminal transition of an operation whose child does not    *)
(* write is the abstract Settle.                                           *)
LEMMA MapSettle ==
  ASSUME IInv, NEW r \in Requests, NEW next \in Terminal,
         opState[r] \in Nonterminal, child[r] \notin Writing,
         opState' = [opState EXCEPT ![r] = next], claim' = Released(r),
         UNCHANGED <<opSession, child>>
  PROVE  [Promise!Next]_(Promise!vars)
<1>1. \A q \in Requests : opState[q] # "Absent" => opSession[q] \in Sessions
  BY DEF IInv, HandshakeHolds, Handshake
<1>2. Phase' = [Phase EXCEPT ![r] = "settled"]
  <2>1. Phase'[r] = "settled"
    BY <1>1, NamesAssumption DEF IInv, TypeOK, Phase, Released
  <2>2. \A q \in Requests \ {r} : Phase'[q] = Phase[q]
    BY <1>1, NamesAssumption DEF IInv, TypeOK, Phase, Released
  <2>3. /\ Phase = [q \in Requests |-> Phase[q]]
        /\ Phase' = [q \in Requests |-> Phase'[q]]
    BY DEF Phase
  <2>4. QED BY <2>1, <2>2, <2>3
<1>3. Writers' = Writers /\ r \notin Writers
  BY DEF Writers
<1>4. Phase[r] = "live"
  BY DEF Phase
<1>5. Promise!Settle(r)
  BY <1>2, <1>3, <1>4 DEF Promise!Settle, Released
<1>6. QED BY <1>5 DEF Promise!Next

(* A State call of an operation whose child does not write settles it or
   changes nothing that SessionWriter sees. *)
LEMMA MapTransition ==
  ASSUME IInv, NEW r \in Requests, NEW next,
         Transition(r, next) \/ TransitionErr(r, next),
         next \in Terminal => child[r] \notin Writing,
         UNCHANGED <<opSession, child>>
  PROVE  [Promise!Next]_(Promise!vars)
<1>1. CASE TransitionErr(r, next)
  BY <1>1, MapStays DEF TransitionErr
<1>2. CASE Transition(r, next) /\ next \in Terminal
  BY <1>2, MapSettle DEF Transition, Allowed
<1>3. CASE Transition(r, next) /\ next \notin Terminal
  <2>1. opState[r] = "Accepted" /\ opState' = [opState EXCEPT ![r] = "Running"] /\ claim' = claim
    BY <1>3 DEF Transition, Allowed
  <2>2. Phase' = Phase /\ Writers' = Writers
    BY <2>1 DEF IInv, TypeOK, Phase, Writers
  <2>3. QED BY <2>1, <2>2 DEF Promise!vars
<1>4. QED BY <1>1, <1>2, <1>3

(* A committed admission is the abstract Acquire. *)
LEMMA MapAdmit ==
  ASSUME IInv, NEW r \in Requests, NEW intent \in Intents, Admit(r, intent)
  PROVE  [Promise!Next]_(Promise!vars)
<1>1. PICK s \in Sessions : /\ claim[s] = None
                           /\ opSession' = [opSession EXCEPT ![r] = s]
                           /\ claim' = [claim EXCEPT ![s] = r]
  BY DEF Admit, SessionFor, Intents
<1>2. /\ opState[r] = "Absent" /\ opState' = [opState EXCEPT ![r] = "Accepted"]
      /\ child' = child
  BY DEF Admit
<1>3. \A q \in Requests : opState[q] # "Absent" => opSession[q] \in Sessions
  BY DEF IInv, HandshakeHolds, Handshake
<1>4. Phase' = [Phase EXCEPT ![r] = "live"]
  <2>1. Phase'[r] = "live"
    BY <1>2 DEF IInv, TypeOK, Phase
  <2>2. \A q \in Requests \ {r} : Phase'[q] = Phase[q]
    BY <1>1, <1>2, <1>3, NamesAssumption DEF IInv, TypeOK, Phase
  <2>3. /\ Phase = [q \in Requests |-> Phase[q]]
        /\ Phase' = [q \in Requests |-> Phase'[q]]
    BY DEF Phase
  <2>4. QED BY <2>1, <2>2, <2>3
<1>5. Writers' = Writers
  BY <1>2 DEF Writers
<1>6. Promise!Acquire(r, s)
  BY <1>1, <1>2, <1>4, <1>5 DEF Promise!Acquire, Phase
<1>7. QED BY <1>6 DEF Promise!Next

(* The spawn of the child is the abstract BeginWriting. *)
LEMMA MapSpawn ==
  ASSUME IInv, NEW r \in Requests, SpawnChild(r)
  PROVE  [Promise!Next]_(Promise!vars)
<1>1. opState[r] = "Accepted" /\ child[r] = "none"
  BY DEF IInv, HandshakeHolds, Handshake, SpawnChild
<1>2. Phase' = Phase /\ claim' = claim
  BY DEF SpawnChild, Phase
<1>3. Writers' = Writers \cup {r} /\ r \notin Writers
  BY <1>1 DEF IInv, TypeOK, SpawnChild, Writers
<1>4. Promise!BeginWriting(r)
  BY <1>1, <1>2, <1>3 DEF Promise!BeginWriting, Phase
<1>5. QED BY <1>4 DEF Promise!Next

(* Recovery abandons every live operation at once. *)
LEMMA MapRestart ==
  ASSUME IInv, Restart
  PROVE  [Promise!Next]_(Promise!vars)
<1> DEFINE lost == {r \in Requests : opState[r] \in Nonterminal}
<1>1. UNCHANGED <<claim, Writers>>
  BY DEF Restart, Writers
<1>2. Phase' = [r \in Requests |-> IF r \in lost THEN "unclassified" ELSE Phase[r]]
  BY DEF IInv, TypeOK, WriterClaimAgreement, Restart, Phase
<1>3. \A r \in lost : Phase[r] = "live"
  BY DEF Phase
<1>4. Promise!Abandon(lost)
  BY <1>1, <1>2, <1>3 DEF Promise!Abandon
<1>5. QED BY <1>4 DEF Promise!Next

(* Every step of the starter maps to Settle or to a stutter. *)
LEMMA MapStarter ==
  ASSUME IInv, NEW r \in Requests, StarterStep(r)
  PROVE  [Promise!Next]_(Promise!vars)
<1>1. CASE AdmitGate(r) \/ SpawnWorker(r) \/ StarterCancelled(r)
  BY <1>1, MapStays DEF AdmitGate, SpawnWorker, StarterCancelled
<1>2. CASE SpawnWorkerFails(r)
  <2>1. child[r] \notin Writing /\ opState[r] = "Accepted"
    BY <1>2 DEF IInv, HandshakeHolds, Handshake, SpawnWorkerFails
  <2>2. CASE UNCHANGED <<opState, claim>>
    BY <1>2, <2>2, MapStays DEF SpawnWorkerFails
  <2>3. CASE opState' = [opState EXCEPT ![r] = "Failed"] /\ claim' = Released(r)
    BY <1>2, <2>1, <2>3, MapSettle DEF SpawnWorkerFails
  <2>4. QED BY <1>2, <2>2, <2>3 DEF SpawnWorkerFails
<1>3. CASE StarterLaunched(r)
  BY <1>3, MapTransition DEF StarterLaunched
<1>4. CASE StarterSpawnFailed(r)
  <2>1. child[r] \notin Writing
    BY <1>4 DEF IInv, HandshakeHolds, Handshake, StarterSpawnFailed
  <2>2. QED BY <1>4, <2>1, MapTransition DEF StarterSpawnFailed
<1>5. CASE StarterDropped(r)
  <2>1. child[r] \notin Writing
    BY <1>5 DEF IInv, HandshakeHolds, Handshake, StarterDropped
  <2>2. QED BY <1>5, <2>1, MapTransition DEF StarterDropped
<1>6. QED BY <1>1, <1>2, <1>3, <1>4, <1>5 DEF StarterStep

(* Every step of the worker maps to BeginWriting, StopWriting, Settle or a stutter. *)
LEMMA MapWorker ==
  ASSUME IInv, ~UnprovenExit, NEW r \in Requests, WorkerStep(r)
  PROVE  [Promise!Next]_(Promise!vars)
<1>1. CASE BeginTarget(r) \/ BeginTargetFails(r) \/ CancelBeforeLaunch(r) \/ SpawnChildFails(r)
           \/ BeginObservation(r) \/ PromptWriterFails(r)
  BY <1>1, MapStays DEF BeginTarget, BeginTargetFails, CancelBeforeLaunch, SpawnChildFails,
                        BeginObservation, PromptWriterFails
<1>2. CASE ObserveExit(r) \/ JoinRecorder(r) \/ Acknowledge(r) \/ ReleaseGate(r)
  BY <1>2, MapStays DEF ObserveExit, JoinRecorder, Acknowledge, ReleaseGate
<1>3. CASE SpawnChild(r)
  BY <1>3, MapSpawn
<1>4. CASE CancelBeforeTarget(r)
  <2>1. child[r] \notin Writing
    BY <1>4 DEF IInv, HandshakeHolds, Handshake, CancelBeforeTarget
  <2>2. QED BY <1>4, <2>1, MapTransition DEF CancelBeforeTarget
<1>5. CASE Classify(r)
  <2>1. child[r] \notin Writing
    BY <1>5 DEF IInv, HandshakeHolds, Handshake, Classify
  <2>2. QED BY <1>5, <2>1, MapTransition DEF Classify
<1>6. CASE StopBeforeRunning(r)
  <2>1. child' = [child EXCEPT ![r] = AfterWait(r)]
    BY <1>6 DEF StopBeforeRunning, Unproven
  <2>2. UNCHANGED <<opState, opSession, claim>>
    BY <1>6 DEF StopBeforeRunning
  <2>3. QED BY <2>1, <2>2, MapExit
<1>7. CASE PumpFails(r)
  BY <1>7 DEF PumpFails, Unproven
<1>8. CASE ObserveCancellation(r)
  BY <1>8, MapExit DEF ObserveCancellation
<1>9. QED BY <1>1, <1>2, <1>3, <1>4, <1>5, <1>6, <1>7, <1>8 DEF WorkerStep

(* Every step is a step of SessionWriter or leaves it unchanged. *)
LEMMA StepMaps ==
  ASSUME ~UnprovenExit, IInv, [Next]_vars
  PROVE  [Promise!Next]_(Promise!vars)
<1>1. CASE UNCHANGED vars
  BY <1>1, MapStays
<1>2. ASSUME NEW r \in Requests, Emits(r)
      PROVE  [Promise!Next]_(Promise!vars)
  <2>1. CASE EmitDiagnostic(r) \/ EmitResult(r)
    BY <2>1, MapStays DEF EmitDiagnostic, EmitResult
  <2>2. ASSUME NEW fact, EmitError(r, fact)
        PROVE  [Promise!Next]_(Promise!vars)
    <3>1. PICK c \in {AfterKill(r), child[r]} : child' = [child EXCEPT ![r] = c]
      BY <2>2 DEF IInv, TypeOK, EmitError
    <3>2. UNCHANGED <<opState, opSession, claim>>
      BY <2>2 DEF EmitError
    <3>3. QED BY <3>1, <3>2, MapExit DEF AfterKill
  <2>3. QED BY <1>2, <2>1, <2>2 DEF Emits
<1>3. ASSUME NEW r \in Requests,
             RecorderStep(r) \/ CancellerStep(r) \/ CancelRequest(r) \/ AdmitFails(r)
      PROVE  [Promise!Next]_(Promise!vars)
  <2>1. UNCHANGED <<opState, opSession, claim, child>>
    BY <1>3 DEF RecorderStep, Record, RecordFails, RecorderEnds, CancellerStep, CancelSignal,
                CancelAbsent, CancelAnswer, CancelReadFails, CancelRequest, AdmitFails,
                CancelUnchanged
  <2>2. QED BY <2>1, MapStays
<1>4. ASSUME NEW r \in Requests, ChildExits(r) \/ KilledChildExits(r)
      PROVE  [Promise!Next]_(Promise!vars)
  <2>1. PICK c \in Exited : child' = [child EXCEPT ![r] = c]
    BY <1>4 DEF ChildExits, KilledChildExits, ExitBy
  <2>2. UNCHANGED <<opState, opSession, claim>>
    BY <1>4 DEF ChildExits, KilledChildExits, ExitBy
  <2>3. QED BY <2>1, <2>2, MapExit
<1>5. CASE Crash
  BY <1>5, MapStays DEF Crash
<1>6. QED
  BY <1>1, <1>2, <1>3, <1>4, <1>5, MapAdmit, MapRestart, MapStarter, MapWorker
     DEF Next, Quiescent

(* One-shot operations keep the promise of SessionWriter. *)
THEOREM Implements == ASSUME ~UnprovenExit PROVE Spec => ImplementsSessionWriter
<1>1. Init => Promise!Init
  BY DEF Init, Promise!Init, Phase, Writers
<1>2. IInv /\ [Next]_vars => [Promise!Next]_(Promise!vars)
  BY StepMaps
<1>3. QED
  BY <1>1, <1>2, Inductive, PTL DEF Spec, ImplementsSessionWriter, Promise!Spec

(* A claim is given up only by the step that makes its owner terminal, when  *)
(* the owner's child has exited: of the steps of SessionWriter only Settle   *)
(* takes a session from its holder.                                          *)
THEOREM HandoverIsSafe == ASSUME ~UnprovenExit PROVE Spec => ClaimHandover
<1>1. IInv /\ IInv' /\ [Next]_vars =>
        \A s \in Sessions : claim[s] # None /\ claim'[s] # claim[s] =>
          /\ claim'[s] = None
          /\ opState[claim[s]] \in Nonterminal /\ opState'[claim[s]] \in Terminal
          /\ child[claim[s]] \notin Writing
  <2>1. SUFFICES ASSUME IInv, IInv', [Next]_vars,
                        NEW s \in Sessions, claim[s] # None, claim'[s] # claim[s]
                 PROVE  /\ claim'[s] = None
                        /\ opState[claim[s]] \in Nonterminal /\ opState'[claim[s]] \in Terminal
                        /\ child[claim[s]] \notin Writing
    OBVIOUS
  <2>2. Promise!Next
    BY <2>1, StepMaps DEF Promise!vars
  <2>3. PICK o \in Requests : Promise!Settle(o)
    <3>1. ASSUME NEW o \in Requests, NEW x \in Sessions, Promise!Acquire(o, x)
          PROVE  FALSE
      BY <2>1, <3>1 DEF Promise!Acquire, IInv, TypeOK
    <3>2. ASSUME NEW o \in Requests, Promise!BeginWriting(o) \/ Promise!StopWriting(o)
          PROVE  FALSE
      BY <2>1, <3>2 DEF Promise!BeginWriting, Promise!StopWriting
    <3>3. ASSUME NEW lost \in SUBSET Requests, Promise!Abandon(lost)
          PROVE  FALSE
      BY <2>1, <3>3 DEF Promise!Abandon
    <3>4. QED BY <2>2, <3>1, <3>2, <3>3 DEF Promise!Next
  <2>4. claim[s] = o /\ claim'[s] = None
    BY <2>1, <2>3 DEF Promise!Settle
  <2>5. opState[o] \in Nonterminal /\ child[o] \notin Writing
    BY <2>3 DEF Promise!Settle, Phase, Writers
  <2>6. Phase'[o] = "settled"
    BY <2>1, <2>3 DEF Promise!Settle, Phase
  <2>7. opState'[o] \in Terminal
    BY <2>1, <2>6 DEF Phase, IInv, TypeOK
  <2>8. QED BY <2>4, <2>5, <2>7
<1>2. QED
  BY <1>1, Inductive, PTL DEF Spec, ClaimHandover

(* While a child may write, the request that launched it has the claim on   *)
(* its session: over crashes, and until its exit is proven.                 *)
THEOREM ChildIsCovered == ASSUME ~UnprovenExit PROVE Spec => []ClaimCoversChild
<1>1. IInv => ClaimCoversChild
  BY DEF IInv
<1>2. QED
  BY <1>1, Inductive, PTL

----------------------------------------------------------------------------
(* Order of the threads, with exits that cannot be proven *)

(* What the position of each thread says of the operation whatever fails,  *)
(* exits that cannot be proven included: a diagnostic is queued only while *)
(* the operation runs and its worker has yet to join the recorder, and no  *)
(* thread asks for a transition that another one has made impossible.      *)
Progress(r) ==
  /\ opState[r] = "Absent" => /\ starter[r] = "idle" /\ worker[r] = "none"
                              /\ launch[r] = "none" /\ permission[r] = "none"
                              /\ child[r] = "none"
  /\ starter[r] \in {"admitted", "gated"} => worker[r] = "none"
  /\ starter[r] \in {"admitted", "gated"} \/ worker[r] \in {"spawned", "launching"}
     => /\ opState[r] = "Accepted" /\ launch[r] = "none"
        /\ permission[r] = "none" /\ child[r] = "none"
  /\ starter[r] = "waiting" /\ launch[r] = "Launched"
     => worker[r] = "permission" /\ permission[r] = "none" /\ opState[r] = "Accepted"
  /\ worker[r] = "permission"
     => /\ launch[r] = "Launched"
        /\ permission[r] = "granted" => opState[r] = "Running"
        /\ permission[r] = "denied" => opState[r] = "Accepted"
  /\ worker[r] = "observing" => launch[r] = "Launched" /\ opState[r] = "Running"
  /\ worker[r] \in {"joining", "classify"} =>
       \/ worker[r] = "joining" /\ outcome[r] = "SpawnFailed" /\ launch[r] = "SpawnFailed"
       \/ outcome[r] = "CancelledBeforeLaunch" /\ launch[r] = "Cancelled" /\ opState[r] = "Accepted"
       \/ outcome[r] = "Indeterminate" /\ launch[r] = "Launched" /\ opState[r] = "Accepted"
       \/ outcome[r] \in Terminal /\ launch[r] = "Launched" /\ opState[r] = "Running"
  /\ queue[r] > 0 => /\ opState[r] = "Running" /\ launch[r] = "Launched"
                     /\ worker[r] \in {"observing", "joining"} /\ recorder[r] = "running"
  /\ starter[r] = "gated" \/ worker[r] \notin {"none", "done", "panicked"} => r \in gate
  /\ recorder[r] = "failed" => failed # {}
  /\ child[r] = "none" => spawns[r] = 0
  /\ spawns[r] <= 1

ProgressHolds ==
  /\ \A r \in Requests : Progress(r)
  /\ refusal => failed # {}
  /\ ~up => \A r \in Requests : /\ starter[r] = "idle" /\ worker[r] = "none"
                                /\ launch[r] = "none" /\ permission[r] = "none"
                                /\ queue[r] = 0

PInv == TypeOK /\ ProgressHolds

(* The starter keeps the second invariant. *)
LEMMA StarterProgress ==
  ASSUME PInv, NEW r \in Requests, StarterStep(r)
  PROVE  ProgressHolds'
<1>1. CASE AdmitGate(r)
  BY <1>1 DEF PInv, TypeOK, ProgressHolds, Progress, AdmitGate
<1>2. CASE SpawnWorker(r)
  BY <1>2 DEF PInv, TypeOK, ProgressHolds, Progress, SpawnWorker
<1>3. CASE SpawnWorkerFails(r)
  <2>1. failed' # {}
    BY <1>3 DEF PInv, TypeOK, ProgressHolds, Progress, SpawnWorkerFails, Fails
  <2>2. \A q \in Requests : Progress(q)'
    BY <1>3, <2>1 DEF PInv, TypeOK, ProgressHolds, Progress, SpawnWorkerFails, Allowed, Fails
  <2>3. refusal' => failed' # {}
    BY <1>3, <2>1 DEF PInv, TypeOK, ProgressHolds, Progress, SpawnWorkerFails
  <2>4. up' = up /\ up
    BY <1>3 DEF PInv, TypeOK, ProgressHolds, Progress, SpawnWorkerFails
  <2>5. QED BY <2>2, <2>3, <2>4 DEF ProgressHolds
<1>4. CASE StarterLaunched(r)
  BY <1>4 DEF PInv, TypeOK, ProgressHolds, Progress, StarterLaunched, Transition,
     TransitionErr, Allowed, Fails
<1>5. CASE StarterSpawnFailed(r)
  BY <1>5 DEF PInv, TypeOK, ProgressHolds, Progress, StarterSpawnFailed, Transition,
     TransitionErr, Allowed, Fails
<1>6. CASE StarterCancelled(r)
  BY <1>6 DEF PInv, TypeOK, ProgressHolds, Progress, StarterCancelled
<1>7. CASE StarterDropped(r)
  BY <1>7 DEF PInv, TypeOK, ProgressHolds, Progress, StarterDropped, Transition,
     TransitionErr, Allowed, Fails
<1>8. QED
  BY <1>1, <1>2, <1>3, <1>4, <1>5, <1>6, <1>7 DEF StarterStep

(* So does the worker, also when a kill or a wait fails. *)
LEMMA WorkerProgress ==
  ASSUME PInv, NEW r \in Requests, WorkerStep(r)
  PROVE  ProgressHolds'
<1>1. CASE CancelBeforeTarget(r)
  <2>1. \/ failed' = failed /\ refusal' = refusal
        \/ failed' # {}
    <3>1. Allowed(opState[r], "Cancelled")
      BY <1>1 DEF PInv, TypeOK, ProgressHolds, Progress, CancelBeforeTarget, Allowed
    <3>2. CASE TransitionErr(r, "Cancelled")
      BY <3>1, <3>2 DEF TransitionErr, Fails
    <3>3. CASE Transition(r, "Cancelled") /\ UNCHANGED refusal
      BY <3>3 DEF Transition
    <3>4. QED BY <1>1, <3>2, <3>3 DEF CancelBeforeTarget
  <2>2. \A q \in Requests : Progress(q)'
    BY <1>1, <2>1 DEF PInv, TypeOK, ProgressHolds, Progress, CancelBeforeTarget,
       Transition, TransitionErr, Allowed, Fails, WorkerFails
  <2>3. refusal' => failed' # {}
    BY <1>1, <2>1 DEF PInv, TypeOK, ProgressHolds, Progress, CancelBeforeTarget
  <2>4. up' = up /\ up
    BY <1>1 DEF PInv, TypeOK, ProgressHolds, Progress, CancelBeforeTarget
  <2>5. QED BY <2>2, <2>3, <2>4 DEF ProgressHolds
<1>2. CASE BeginTarget(r)
  BY <1>2 DEF PInv, TypeOK, ProgressHolds, Progress, BeginTarget
<1>3. CASE BeginTargetFails(r)
  <2>1. failed' # {}
    BY <1>3 DEF PInv, TypeOK, ProgressHolds, Progress, BeginTargetFails, Fails
  <2>2. \A q \in Requests : Progress(q)'
    BY <1>3, <2>1 DEF PInv, TypeOK, ProgressHolds, Progress, BeginTargetFails, WorkerFails,
       Fails
  <2>3. refusal' => failed' # {}
    BY <1>3, <2>1 DEF PInv, TypeOK, ProgressHolds, Progress, BeginTargetFails
  <2>4. up' = up /\ up
    BY <1>3 DEF PInv, TypeOK, ProgressHolds, Progress, BeginTargetFails
  <2>5. QED BY <2>2, <2>3, <2>4 DEF ProgressHolds
<1>4. CASE CancelBeforeLaunch(r)
  BY <1>4 DEF PInv, TypeOK, ProgressHolds, Progress, CancelBeforeLaunch, Returns
<1>5. CASE SpawnChild(r)
  BY <1>5 DEF PInv, TypeOK, ProgressHolds, Progress, SpawnChild
<1>6. CASE SpawnChildFails(r)
  BY <1>6 DEF PInv, TypeOK, ProgressHolds, Progress, SpawnChildFails, Returns
<1>7. CASE BeginObservation(r)
  BY <1>7 DEF PInv, TypeOK, ProgressHolds, Progress, BeginObservation
<1>8. CASE PromptWriterFails(r)
  BY <1>8 DEF PInv, TypeOK, ProgressHolds, Progress, PromptWriterFails, Fails
<1>9. CASE StopBeforeRunning(r)
  BY <1>9 DEF PInv, TypeOK, ProgressHolds, Progress, StopBeforeRunning, Returns, Unproven,
     AfterKill
<1>10. CASE PumpFails(r)
  BY <1>10 DEF PInv, TypeOK, ProgressHolds, Progress, PumpFails, Returns, Unproven, AfterKill
<1>11. CASE ObserveCancellation(r)
  BY <1>11 DEF PInv, TypeOK, ProgressHolds, Progress, ObserveCancellation
<1>12. CASE ObserveExit(r)
  BY <1>12 DEF PInv, TypeOK, ProgressHolds, Progress, ObserveExit, Returns, ExitOutcomes
<1>13. CASE JoinRecorder(r)
  BY <1>13 DEF PInv, TypeOK, ProgressHolds, Progress, JoinRecorder, WorkerFails
<1>14. CASE Classify(r)
  <2>1. \/ failed' = failed /\ refusal' = refusal
        \/ failed' # {}
    <3>1. Allowed(opState[r], Classified(r))
      BY <1>14 DEF PInv, TypeOK, ProgressHolds, Progress, Classify, Allowed, Classified
    <3>2. CASE TransitionErr(r, Classified(r))
      BY <3>1, <3>2 DEF TransitionErr, Fails
    <3>3. CASE Transition(r, Classified(r)) /\ UNCHANGED refusal
      BY <3>3 DEF Transition
    <3>4. QED BY <1>14, <3>2, <3>3 DEF Classify
  <2>2. \A q \in Requests : Progress(q)'
    BY <1>14, <2>1 DEF PInv, TypeOK, ProgressHolds, Progress, Classify, Classified,
       WorkerFails, Transition, TransitionErr, Allowed, Fails
  <2>3. refusal' => failed' # {}
    BY <1>14, <2>1 DEF PInv, TypeOK, ProgressHolds, Progress, Classify
  <2>4. up' = up /\ up
    BY <1>14 DEF PInv, TypeOK, ProgressHolds, Progress, Classify
  <2>5. QED BY <2>2, <2>3, <2>4 DEF ProgressHolds
<1>15. CASE Acknowledge(r)
  <2>1. \/ failed' = failed /\ refusal' = refusal
        \/ failed' # {}
    <3>1. CASE Fails("state")
      BY <3>1 DEF Fails
    <3>2. QED BY <1>15, <3>1 DEF Acknowledge
  <2>2. \A q \in Requests : Progress(q)'
    BY <1>15, <2>1 DEF PInv, TypeOK, ProgressHolds, Progress, Acknowledge, WorkerFails, Fails
  <2>3. refusal' => failed' # {}
    BY <1>15, <2>1 DEF PInv, TypeOK, ProgressHolds, Progress, Acknowledge
  <2>4. up' = up /\ up
    BY <1>15 DEF PInv, TypeOK, ProgressHolds, Progress, Acknowledge
  <2>5. QED BY <2>2, <2>3, <2>4 DEF ProgressHolds
<1>16. CASE ReleaseGate(r)
  BY <1>16 DEF PInv, TypeOK, ProgressHolds, Progress, ReleaseGate
<1>17. QED
  BY <1>1, <1>2, <1>3, <1>4, <1>5, <1>6, <1>7, <1>8, <1>9, <1>10, <1>11, <1>12, <1>13,
     <1>14, <1>15, <1>16
     DEF WorkerStep

(* The recorder fails only after an environment failure. *)
LEMMA RecorderProgress ==
  ASSUME PInv, NEW r \in Requests, RecorderStep(r)
  PROVE  ProgressHolds'
<1>1. CASE Record(r)
  BY <1>1 DEF PInv, TypeOK, ProgressHolds, Progress, Record
<1>2. CASE RecordFails(r)
  <2>1. failed' # {}
    BY <1>2 DEF PInv, TypeOK, ProgressHolds, Progress, RecordFails, Fails
  <2>2. \A q \in Requests : Progress(q)'
    BY <1>2, <2>1 DEF PInv, TypeOK, ProgressHolds, Progress, RecordFails, Fails
  <2>3. refusal' => failed' # {}
    BY <1>2, <2>1 DEF PInv, TypeOK, ProgressHolds, Progress, RecordFails
  <2>4. up' = up /\ up
    BY <1>2 DEF PInv, TypeOK, ProgressHolds, Progress, RecordFails
  <2>5. QED BY <2>2, <2>3, <2>4 DEF ProgressHolds
<1>3. CASE RecorderEnds(r)
  BY <1>3 DEF PInv, TypeOK, ProgressHolds, Progress, RecorderEnds
<1>4. QED
  BY <1>1, <1>2, <1>3 DEF RecorderStep

(* The canceller touches no state of the other threads but the flag. *)
LEMMA CancellerProgress ==
  ASSUME PInv, NEW r \in Requests, CancellerStep(r)
  PROVE  ProgressHolds'
<1>1. CASE CancelSignal(r)
  BY <1>1 DEF PInv, TypeOK, ProgressHolds, Progress, CancelSignal, CancellerAt,
     CancelUnchanged, Fails
<1>2. CASE CancelAbsent(r)
  BY <1>2 DEF PInv, TypeOK, ProgressHolds, Progress, CancelAbsent, CancellerAt,
     CancelUnchanged, Fails
<1>3. CASE CancelAnswer(r)
  BY <1>3 DEF PInv, TypeOK, ProgressHolds, Progress, CancelAnswer, CancellerAt,
     CancelUnchanged, Fails
<1>4. CASE CancelReadFails(r)
  BY <1>4 DEF PInv, TypeOK, ProgressHolds, Progress, CancelReadFails, CancellerAt,
     CancelUnchanged, Fails
<1>5. QED
  BY <1>1, <1>2, <1>3, <1>4 DEF CancellerStep

(* Output of the child queues a diagnostic only while the operation runs. *)
LEMMA EmitsProgress ==
  ASSUME PInv, NEW r \in Requests, Emits(r)
  PROVE  ProgressHolds'
<1>1. CASE EmitDiagnostic(r)
  BY <1>1 DEF PInv, TypeOK, ProgressHolds, Progress, EmitDiagnostic
<1>2. CASE EmitResult(r)
  BY <1>2 DEF PInv, TypeOK, ProgressHolds, Progress, EmitResult
<1>3. ASSUME NEW fact \in {"provider_failure", "terminal_error"}, EmitError(r, fact)
      PROVE  ProgressHolds'
  BY <1>3 DEF PInv, TypeOK, ProgressHolds, Progress, EmitError, AfterKill
<1>4. QED
  BY <1>1, <1>2, <1>3 DEF Emits

(* Admission starts with the threads of an unknown request all idle. *)
LEMMA RequestProgress ==
  ASSUME PInv, NEW r \in Requests,
         \/ \E intent \in Intents : Admit(r, intent)
         \/ AdmitFails(r) \/ ChildExits(r) \/ KilledChildExits(r) \/ CancelRequest(r)
  PROVE  ProgressHolds'
<1>1. ASSUME NEW intent \in Intents, Admit(r, intent)
      PROVE  ProgressHolds'
  BY <1>1 DEF PInv, TypeOK, ProgressHolds, Progress, Admit
<1>2. CASE AdmitFails(r)
  BY <1>2 DEF PInv, TypeOK, ProgressHolds, Progress, AdmitFails, Fails
<1>3. CASE ChildExits(r)
  BY <1>3 DEF PInv, TypeOK, ProgressHolds, Progress, ChildExits, ExitBy
<1>4. CASE KilledChildExits(r)
  BY <1>4 DEF PInv, TypeOK, ProgressHolds, Progress, KilledChildExits, ExitBy
<1>5. CASE CancelRequest(r)
  BY <1>5 DEF PInv, TypeOK, ProgressHolds, Progress, CancelRequest, CancellerAt, CancelUnchanged
<1>6. QED
  BY <1>1, <1>2, <1>3, <1>4, <1>5

(* PInv is an invariant whatever fails, unproven exits included. *)
THEOREM ProgressInductive == Spec => []PInv
<1>1. Init => PInv
  <2>1. SUFFICES ASSUME Init PROVE ProgressHolds
    BY InitType DEF PInv
  <2>2. QED BY <2>1 DEF Init, ProgressHolds, Progress
<1>2. PInv /\ [Next]_vars => PInv'
  <2>1. SUFFICES ASSUME PInv, [Next]_vars PROVE ProgressHolds'
    BY NextType DEF PInv
  <2>2. CASE UNCHANGED vars
    BY <2>1, <2>2 DEF PInv, ProgressHolds, Progress
  <2>3. CASE Crash
    BY <2>1, <2>3 DEF PInv, TypeOK, ProgressHolds, Progress, Crash
  <2>4. CASE Restart
    BY <2>1, <2>4 DEF PInv, TypeOK, ProgressHolds, Progress, Restart
  <2>5. QED
    BY <2>1, <2>2, <2>3, <2>4, StarterProgress, WorkerProgress, EmitsProgress,
       RecorderProgress, CancellerProgress, RequestProgress DEF Next, Quiescent
<1>3. QED
  BY <1>1, <1>2, PTL DEF Spec

(* A terminal operation has no diagnostic on its way: a reader that sees   *)
(* the terminal state has the complete stream, also after an exit that     *)
(* could not be proven.                                                    *)
THEOREM StreamIsComplete == Spec => []DiagnosticsBeforeTerminal
<1>1. PInv => DiagnosticsBeforeTerminal
  BY DEF PInv, TypeOK, ProgressHolds, Progress, DiagnosticsBeforeTerminal
<1>2. QED
  BY <1>1, ProgressInductive, PTL

(* The daemon refuses every request only after a State call or the creation *)
(* of a thread failed: no order of the threads' steps latches the refusal.  *)
THEOREM RefusalIsCaused == Spec => []RefusalHasCause
<1>1. PInv => RefusalHasCause
  BY DEF PInv, ProgressHolds, RefusalHasCause
<1>2. QED
  BY <1>1, ProgressInductive, PTL

(* A request launches at most one child in all, over retries and restarts. *)
THEOREM OneLaunch == Spec => []AtMostOneLaunch
<1>1. PInv => AtMostOneLaunch
  BY DEF PInv, ProgressHolds, Progress, AtMostOneLaunch
<1>2. QED
  BY <1>1, ProgressInductive, PTL

(* The prompt is written and the child observed only while Running is durable. *)
THEOREM PromptIsDurable == Spec => []PromptAfterDurableRunning
<1>1. PInv => PromptAfterDurableRunning
  BY DEF PInv, ProgressHolds, Progress, PromptAfterDurableRunning
<1>2. QED
  BY <1>1, ProgressInductive, PTL

============================================================================
