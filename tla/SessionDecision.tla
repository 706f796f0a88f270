---------------------------- MODULE SessionDecision ----------------------------
(***************************************************************************)
(* Which Claude session an initiator may continue: the evidence that       *)
(* successful operations leave, initiator_binding_register and             *)
(* session_decide of one project.                                          *)
(*                                                                         *)
(* Every call reads the State file several times, each read a transaction  *)
(* of its own, while operations end and other initiators register.         *)
(***************************************************************************)
EXTENDS Naturals, FiniteSets

CONSTANTS
  Operations,    (* durable operations, of any project                     *)
  Sessions,      (* Claude sessions                                        *)
  NoSession,     (* not a session                                          *)
  Initiators,    (* initiator session and agent                            *)
  Subjects,      (* role, task and subject                                 *)
  Requests       (* bound: calls to the daemon                             *)

ASSUME NoSessionAssumption == NoSession \notin Sessions

VARIABLES
  (* SQLite: survives a crash *)
  op,        (* operations                                                 *)
  binding,   (* initiator_bindings: the target session of each identity    *)
  (* the connection threads *)
  call,      (* what each request asks, and how far it is                  *)
  answer,    (* what it was answered                                       *)
  (* history *)
  boundThen  (* the binding of the identity when the call was made         *)

vars == <<op, binding, call, answer, boundThen>>

----------------------------------------------------------------------------
(* Types *)

Identities == Initiators \X Subjects

OperationRows ==
  [state : {"absent", "Running", "Succeeded", "Failed", "Indeterminate"},
   ours : BOOLEAN,                              (* it is of this project   *)
   session : Sessions \cup {NoSession},
   observed : Sessions \cup {NoSession}]        (* what init reported      *)

CallRows == [at : {"unused", "evidence", "persist", "binding", "bound", "bindings",
                "candidates", "done", "lost"},
          id : Identities, target : Sessions \cup {NoSession}]

Successes == {"Inserted", "Existing"}
Refusals  == {"IdentityMismatch", "AmbiguousSessions", "BindingRequired"}
Errors    == {"UnknownSession", "BindingConflict", "BoundSessionEvidenceMissing"}

Answers == [kind : {"none", "New", "ResumeExact"} \cup Successes \cup Refusals \cup Errors,
            sessions : SUBSET Sessions, bound : SUBSET Identities]

TypeOK ==
  /\ op \in [Operations -> OperationRows]
  /\ binding \in [Identities -> Sessions \cup {NoSession}]
  /\ call \in [Requests -> CallRows]
  /\ answer \in [Requests -> Answers]
  /\ boundThen \in [Requests -> Sessions \cup {NoSession}]

Answer(kind, sessions, bound) == [kind |-> kind, sessions |-> sessions, bound |-> bound]

Init ==
  /\ op = [o \in Operations |-> [state |-> "absent", ours |-> TRUE,
                                 session |-> NoSession, observed |-> NoSession]]
  /\ binding = [i \in Identities |-> NoSession]
  /\ call \in [Requests -> [at : {"unused"}, id : Identities, target : Sessions]]
  /\ answer = [r \in Requests |-> Answer("none", {}, {})]
  /\ boundThen = [r \in Requests |-> NoSession]

----------------------------------------------------------------------------
(* Operations of this and of other projects *)

Starts(o) ==
  /\ op[o].state = "absent"
  /\ \E s \in Sessions, ours \in BOOLEAN :
       op' = [op EXCEPT ![o] = [state |-> "Running", ours |-> ours,
                                session |-> s, observed |-> NoSession]]
  /\ UNCHANGED <<binding, call, answer, boundThen>>

(* Target calls an operation a success only when init reported the session *)
(* it was started for; it may have reported anything before a failure.     *)
Ends(o) ==
  /\ op[o].state = "Running"
  /\ \/ op' = [op EXCEPT ![o].state = "Succeeded", ![o].observed = op[o].session]
     \/ \E seen \in Sessions \cup {NoSession} :
          op' = [op EXCEPT ![o].state = "Failed", ![o].observed = seen]
  /\ UNCHANGED <<binding, call, answer, boundThen>>

(* Mutant: whatever an operation has observed is evidence. *)
AnyOutcome(s) == {o \in Operations : op[o].ours /\ op[o].observed = s}
(* evidence_for_project, for one session                                   *)
Evidence(s)   == {o \in Operations : /\ op[o].ours /\ op[o].state = "Succeeded"
                                     /\ op[o].observed = s /\ op[o].session = s}

Candidates == {s \in Sessions : Evidence(s) # {}}

----------------------------------------------------------------------------
(* Calls *)

At(r, pc) == call' = [call EXCEPT ![r].at = pc]

Replies(r, kind, sessions, bound) ==
  /\ At(r, "done")
  /\ answer' = [answer EXCEPT ![r] = Answer(kind, sessions, bound)]

(* A request arrives; its identity and its target are the client's.        *)
Asks(r) ==
  /\ call[r].at = "unused"
  /\ At(r, "evidence") \/ At(r, "binding")
  /\ boundThen' = [boundThen EXCEPT ![r] = binding[call[r].id]]
  /\ UNCHANGED <<op, binding, answer>>

(* Mutant: the evidence is not asked for. *)
Unproven(s) == TRUE
Proven(s)   == Evidence(s) # {}

(* initiator_binding_register: the target must be evidenced, ...           *)
RegisterChecks(r) ==
  /\ call[r].at = "evidence"
  /\ IF Proven(call[r].target)
     THEN At(r, "persist") /\ UNCHANGED answer
     ELSE Replies(r, "UnknownSession", {call[r].target}, {})
  /\ UNCHANGED <<op, binding, boundThen>>

(* Mutant: a registration replaces the binding of the identity. *)
Replaced(i) == TRUE
Unbound(i)  == binding[i] = NoSession

(* ... and the identity is bound if it is not yet.                         *)
RegisterPersists(r) ==
  /\ call[r].at = "persist"
  /\ LET i == call[r].id  s == call[r].target
     IN  IF Unbound(i)
         THEN binding' = [binding EXCEPT ![i] = s] /\ Replies(r, "Inserted", {s}, {i})
         ELSE /\ UNCHANGED binding
              /\ Replies(r, IF binding[i] = s THEN "Existing" ELSE "BindingConflict",
                         {binding[i]}, {i})
  /\ UNCHANGED <<op, boundThen>>

(* Mutant: a binding counts when the initiator has no other. *)
OnlyBinding(i) ==
  IF \E j \in Identities \ {i} : j[1] = i[1] /\ binding[j] # NoSession THEN NoSession
  ELSE binding[i]
Binding(i)     == binding[i]

(* session_decide: independent, or the binding of the exact identity ...   *)
Decides(r) ==
  /\ call[r].at = "binding"
  /\ \/ Replies(r, "New", {}, {})
     \/ /\ Binding(call[r].id) # NoSession
        /\ call' = [call EXCEPT ![r].at = "bound", ![r].target = Binding(call[r].id)]
        /\ UNCHANGED answer
     \/ /\ Binding(call[r].id) = NoSession
        /\ At(r, "bindings") /\ UNCHANGED answer
  /\ UNCHANGED <<op, binding, boundThen>>

(* ... with the evidence of its target, ...                                *)
DecidesBound(r) ==
  /\ call[r].at = "bound"
  /\ IF Evidence(call[r].target) # {}
     THEN Replies(r, "ResumeExact", {call[r].target}, {})
     ELSE Replies(r, "BoundSessionEvidenceMissing", {call[r].target}, {})
  /\ UNCHANGED <<op, binding, boundThen>>

(* Mutant: the sessions of the others are shown, not who they are. *)
TargetsOf(initiator) == {binding[i] : i \in {j \in Identities : j[1] = initiator}} \ {NoSession}
BoundBy(initiator)   == {i \in Identities : i[1] = initiator /\ binding[i] # NoSession}

(* ... or, without one, the other bindings of the initiator, ...           *)
DecidesUnbound(r) ==
  /\ call[r].at = "bindings"
  /\ LET others == BoundBy(call[r].id[1])
     IN  IF others # {} THEN Replies(r, "IdentityMismatch", {}, others)
         ELSE At(r, "candidates") /\ UNCHANGED answer
  /\ UNCHANGED <<op, binding, boundThen>>

(* ... or, without any, the sessions of the project.                       *)
DecidesUnknown(r) ==
  /\ call[r].at = "candidates"
  /\ Replies(r, IF Cardinality(Candidates) > 1 THEN "AmbiguousSessions" ELSE "BindingRequired",
             Candidates, {})
  /\ UNCHANGED <<op, binding, boundThen>>

Active(r) == call[r].at \notin {"unused", "done", "lost"}

(* The daemon crashes and another one recovers what was running.           *)
Restart ==
  /\ \E r \in Requests : Active(r)
  /\ call' = [r \in Requests |-> IF Active(r) THEN [call[r] EXCEPT !.at = "lost"] ELSE call[r]]
  /\ op' = [o \in Operations |-> IF op[o].state = "Running"
                                 THEN [op[o] EXCEPT !.state = "Indeterminate"] ELSE op[o]]
  /\ UNCHANGED <<binding, answer, boundThen>>

(* Every request is answered or lost, every operation over.                *)
Quiescent ==
  /\ \A r \in Requests : call[r].at \in {"done", "lost"}
  /\ UNCHANGED vars

Next ==
  \/ \E o \in Operations : Starts(o) \/ Ends(o)
  \/ \E r \in Requests :
       \/ Asks(r) \/ RegisterChecks(r) \/ RegisterPersists(r)
       \/ Decides(r) \/ DecidesBound(r) \/ DecidesUnbound(r) \/ DecidesUnknown(r)
  \/ Restart \/ Quiescent

Spec == Init /\ [][Next]_vars

----------------------------------------------------------------------------
(* Properties *)

(* A bound session always has the evidence it was bound with: between the  *)
(* two transactions of a registration, over restarts, and however the      *)
(* other operations of the session end.  No decision about a bound         *)
(* identity finds the evidence missing.                                    *)
BindingsAreProven ==
  /\ \A i \in Identities : binding[i] # NoSession => Evidence(binding[i]) # {}
  /\ \A r \in Requests : answer[r].kind # "BoundSessionEvidenceMissing"

(* Who was told that an identity is bound to a session finds it so for     *)
(* ever, and only one registration of an identity inserts it.              *)
RegisteredIsBound ==
  /\ \A r \in Requests : answer[r].kind \in Successes =>
       binding[call[r].id] = call[r].target
  /\ \A q, r \in {r \in Requests : answer[r].kind = "Inserted"} :
       call[q].id = call[r].id => q = r

(* A session is resumed only for the identity that is bound to it, on the  *)
(* evidence of a successful operation of this project in that session.     *)
ResumeIsExact ==
  \A r \in Requests : answer[r].kind = "ResumeExact" =>
    /\ answer[r].sessions = {binding[call[r].id]}
    /\ \E o \in Operations : /\ op[o].state = "Succeeded" /\ op[o].ours
                             /\ answer[r].sessions = {op[o].session}

(* An identity that was bound when its decision was asked for is never     *)
(* refused, whatever happens between the reads.                            *)
BoundIsResumed ==
  \A r \in Requests : boundThen[r] # NoSession => answer[r].kind \notin Refusals

(* Continuation is exact on both sides: it resumes nothing but the bound   *)
(* session, and refuses no bound identity.                                 *)
DecisionIsExact == ResumeIsExact /\ BoundIsResumed

=============================================================================
