----------------------- MODULE SessionDecision_proofs -----------------------
(***************************************************************************)
(* The properties of SessionDecision for every set of operations,          *)
(* sessions, initiators, subjects and requests.                            *)
(*                                                                         *)
(* Two facts carry them: a successful operation never changes, and neither *)
(* does a binding.  Whatever a request read in one transaction is          *)
(* therefore still so in the next, however many steps of others fall       *)
(* between; the invariant says for each request what it has read.          *)
(***************************************************************************)
EXTENDS SessionDecision, TLAPS

(* What a request knows at each of its stages, and what it was told.       *)
Knows(r) ==
  /\ call[r].target \in Sessions
  /\ call[r].at # "done" => answer[r].kind = "none"
  /\ call[r].at = "persist" => Evidence(call[r].target) # {}
  /\ call[r].at = "bound" => binding[call[r].id] = call[r].target
  /\ boundThen[r] # NoSession =>
       binding[call[r].id] # NoSession /\ call[r].at \notin {"bindings", "candidates"}

Told(r) ==
  /\ answer[r].kind # "BoundSessionEvidenceMissing"
  /\ answer[r].kind \in Successes => binding[call[r].id] = call[r].target
  /\ answer[r].kind = "ResumeExact" =>
       /\ answer[r].sessions = {binding[call[r].id]}
       /\ binding[call[r].id] # NoSession
  /\ boundThen[r] # NoSession => answer[r].kind \notin Refusals

Proofs == \A i \in Identities : binding[i] # NoSession => Evidence(binding[i]) # {}

InsertedOnce ==
  \A q, r \in {r \in Requests : answer[r].kind = "Inserted"} : call[q].id = call[r].id => q = r

IInv ==
  /\ TypeOK
  /\ \A r \in Requests : Knows(r) /\ Told(r)
  /\ Proofs
  /\ InsertedOnce

(* What no step changes: bindings that are there, and operations that      *)
(* have succeeded.                                                         *)
Stable ==
  /\ \A i \in Identities : binding[i] # NoSession => binding'[i] = binding[i]
  /\ \A o \in Operations : op[o].state = "Succeeded" => op'[o] = op[o]

(* Evidence stays. *)
LEMMA EvidenceStays ==
  ASSUME Stable, NEW s, Evidence(s) # {}
  PROVE  Evidence(s)' # {}
<1>1. PICK o \in Operations : /\ op[o].ours /\ op[o].state = "Succeeded"
                              /\ op[o].observed = s /\ op[o].session = s
  BY DEF Evidence
<1>2. op'[o] = op[o]
  BY <1>1 DEF Stable
<1>3. QED BY <1>1, <1>2 DEF Evidence

(* A request that takes no part in a step knows what it knew.              *)
LEMMA OthersKeep ==
  ASSUME IInv, Stable, NEW q \in Requests,
         call'[q] = call[q], answer'[q] = answer[q], boundThen'[q] = boundThen[q]
  PROVE  Knows(q)' /\ Told(q)'
<1>1. call[q].id \in Identities /\ call[q].target \in Sessions
  BY DEF IInv, TypeOK, CallRows, Knows
<1>2. Knows(q) /\ Told(q)
  BY DEF IInv
<1>3. binding[call[q].id] # NoSession => binding'[call[q].id] = binding[call[q].id]
  BY <1>1 DEF Stable
<1>4. call[q].at = "persist" => Evidence(call[q].target)' # {}
  BY <1>2, EvidenceStays DEF Knows
<1>5. call[q].target # NoSession
  BY <1>1, NoSessionAssumption
<1>6. Knows(q)'
  <2>1. (call[q].at = "persist" => Evidence(call[q].target) # {})' 
    BY <1>4
  <2>2. QED BY <1>1, <1>2, <1>3, <1>5, <2>1 DEF Knows
<1>7. Told(q)'
  BY <1>2, <1>3, <1>5 DEF Told
<1>8. QED BY <1>6, <1>7

(* Bindings that are not touched keep their evidence.                      *)
LEMMA ProofsKeep ==
  ASSUME IInv, Stable, binding' = binding
  PROVE  Proofs'
<1>1. SUFFICES ASSUME NEW i \in Identities, binding[i] # NoSession
               PROVE  Evidence(binding[i])' # {}
  BY DEF Proofs
<1>2. Evidence(binding[i]) # {}
  BY <1>1 DEF IInv, Proofs
<1>3. PICK o \in Operations : /\ op[o].ours /\ op[o].state = "Succeeded"
                              /\ op[o].observed = binding[i] /\ op[o].session = binding[i]
  BY <1>2 DEF Evidence
<1>4. op'[o] = op[o]
  BY <1>3 DEF Stable
<1>5. QED BY <1>3, <1>4 DEF Evidence

(* An operation that starts or ends is no evidence yet, or new evidence.   *)
LEMMA OperationsKeep ==
  ASSUME IInv, NEW o \in Operations, Starts(o) \/ Ends(o)
  PROVE  IInv'
<1>1. Stable
  BY DEF IInv, TypeOK, OperationRows, Stable, Starts, Ends
<1>2. TypeOK'
  BY DEF IInv, TypeOK, OperationRows, Starts, Ends
<1>3. UNCHANGED <<binding, call, answer, boundThen>>
  BY DEF Starts, Ends
<1>4. \A q \in Requests : Knows(q)' /\ Told(q)'
  BY <1>1, <1>3, OthersKeep
<1>5. Proofs'
  BY <1>1, <1>3, ProofsKeep
<1>6. InsertedOnce'
  BY <1>3 DEF IInv, InsertedOnce
<1>7. QED BY <1>2, <1>4, <1>5, <1>6 DEF IInv

----------------------------------------------------------------------------
(* The steps of a request *)

(* A request that binds nothing disturbs only what is said of itself.      *)
LEMMA RequestKeeps ==
  ASSUME IInv, NEW r \in Requests, TypeOK', UNCHANGED <<op, binding>>,
         \A q \in Requests \ {r} :
           call'[q] = call[q] /\ answer'[q] = answer[q] /\ boundThen'[q] = boundThen[q],
         Knows(r)', Told(r)',
         answer'[r].kind # "Inserted"
  PROVE  IInv'
<1>1. Stable
  BY DEF Stable
<1>2. ASSUME NEW q \in Requests PROVE Knows(q)' /\ Told(q)'
  <2>1. CASE q = r
    BY <2>1
  <2>2. CASE q # r
    BY <1>1, <2>2, OthersKeep
  <2>3. QED BY <2>1, <2>2
<1>3. Proofs'
  BY <1>1, ProofsKeep
<1>4. InsertedOnce'
  BY DEF IInv, InsertedOnce
<1>5. QED BY <1>2, <1>3, <1>4 DEF IInv

LEMMA AsksKeeps ==
  ASSUME IInv, NEW r \in Requests, Asks(r)
  PROVE  IInv'
<1>1. call[r].id \in Identities /\ Knows(r) /\ Told(r)
  BY DEF IInv, TypeOK, CallRows
<1>2. TypeOK'
  BY <1>1 DEF IInv, TypeOK, CallRows, Asks, At
<1>3. /\ call'[r].at \in {"evidence", "binding"} /\ call'[r].id = call[r].id
      /\ call'[r].target = call[r].target
      /\ boundThen'[r] = binding[call[r].id] /\ UNCHANGED <<op, binding, answer>>
  BY DEF IInv, TypeOK, CallRows, Asks, At
<1>4. answer[r].kind = "none"
  BY <1>1 DEF Asks, Knows
<1>5. Knows(r)'
  BY <1>1, <1>3, <1>4 DEF Knows
<1>6. Told(r)'
  BY <1>3, <1>4 DEF Told, Successes, Refusals
<1>7. \A q \in Requests \ {r} : call'[q] = call[q] /\ boundThen'[q] = boundThen[q]
  BY DEF IInv, TypeOK, Asks, At
<1>8. QED BY <1>2, <1>3, <1>4, <1>5, <1>6, <1>7, RequestKeeps

(* A step of a request that ends with an answer, or goes on without one.   *)
LEMMA StageKeeps ==
  ASSUME IInv, NEW r \in Requests, NEW row \in CallRows, NEW told \in Answers,
         call' = [call EXCEPT ![r] = row], answer' = [answer EXCEPT ![r] = told],
         UNCHANGED <<op, binding, boundThen>>,
         row.id = call[r].id, row.target \in Sessions,
         row.at # "done" => told.kind = "none",
         row.at = "persist" => Evidence(row.target) # {},
         row.at = "bound" => binding[row.id] = row.target,
         boundThen[r] # NoSession => /\ row.at \notin {"bindings", "candidates"}
                                     /\ told.kind \notin Refusals,
         told.kind \notin {"BoundSessionEvidenceMissing", "Inserted"},
         told.kind = "Existing" => binding[row.id] = row.target,
         told.kind = "ResumeExact" => /\ told.sessions = {binding[row.id]}
                                      /\ binding[row.id] # NoSession
  PROVE  IInv'
<1>1. TypeOK'
  BY DEF IInv, TypeOK
<1>2. call'[r] = row /\ answer'[r] = told
  BY DEF IInv, TypeOK
<1>3. \A q \in Requests \ {r} : call'[q] = call[q] /\ answer'[q] = answer[q]
  BY DEF IInv, TypeOK
<1>4. Knows(r)
  BY DEF IInv
<1>5. Knows(r)'
  <2>1. (call[r].at = "persist" => Evidence(call[r].target) # {})'
    BY <1>2 DEF Evidence
  <2>2. QED BY <1>2, <1>4, <2>1 DEF Knows
<1>6. Told(r)'
  BY <1>2 DEF Told, Successes
<1>7. QED BY <1>1, <1>2, <1>3, <1>5, <1>6, RequestKeeps

LEMMA RepliesKeep ==
  ASSUME IInv, NEW r \in Requests,
         NEW kind, NEW sessions \in SUBSET Sessions, NEW bound \in SUBSET Identities,
         kind \in {"New", "ResumeExact", "Existing"} \cup Refusals
                 \cup {"UnknownSession", "BindingConflict"},
         Replies(r, kind, sessions, bound), UNCHANGED <<op, binding, boundThen>>,
         boundThen[r] # NoSession => kind \notin Refusals,
         kind = "Existing" => binding[call[r].id] = call[r].target,
         kind = "ResumeExact" => /\ sessions = {binding[call[r].id]}
                                 /\ binding[call[r].id] # NoSession
  PROVE  IInv'
<1> DEFINE row  == [call[r] EXCEPT !.at = "done"]
           told == Answer(kind, sessions, bound)
<1>1. call[r] \in CallRows /\ call[r].target \in Sessions
  BY DEF IInv, TypeOK, Knows
<1>2. /\ row \in CallRows /\ row.at = "done" /\ row.id = call[r].id
      /\ row.target = call[r].target
  BY <1>1 DEF CallRows
<1>3. /\ told \in Answers /\ told.kind = kind /\ told.sessions = sessions
      /\ kind \notin {"BoundSessionEvidenceMissing", "Inserted"}
  BY DEF Answers, Answer, Successes, Refusals, Errors
<1>4. call' = [call EXCEPT ![r] = row] /\ answer' = [answer EXCEPT ![r] = told]
  BY DEF Replies, At
<1> HIDE DEF row, told
<1>5. QED BY <1>1, <1>2, <1>3, <1>4, StageKeeps

LEMMA MovesKeep ==
  ASSUME IInv, NEW r \in Requests, NEW pc \in {"persist", "bindings", "candidates"},
         call[r].at # "done", At(r, pc), UNCHANGED answer,
         UNCHANGED <<op, binding, boundThen>>,
         pc = "persist" => Evidence(call[r].target) # {},
         pc # "persist" => boundThen[r] = NoSession
  PROVE  IInv'
<1> DEFINE row == [call[r] EXCEPT !.at = pc]
<1>1. /\ call[r] \in CallRows /\ answer \in [Requests -> Answers]
      /\ call[r].target \in Sessions /\ answer[r].kind = "none"
  BY DEF IInv, TypeOK, Knows
<1>2. /\ row \in CallRows /\ row.at = pc /\ row.id = call[r].id
      /\ row.target = call[r].target
  BY <1>1 DEF CallRows
<1>3. call' = [call EXCEPT ![r] = row]
  BY DEF At
<1>4. answer' = [answer EXCEPT ![r] = answer[r]] /\ answer[r] \in Answers
  BY <1>1
<1> HIDE DEF row
<1>5. row.at = "persist" => Evidence(row.target) # {}
  BY <1>2
<1>6. QED BY <1>1, <1>2, <1>3, <1>4, <1>5, StageKeeps DEF Refusals

LEMMA RegisterChecksKeeps ==
  ASSUME IInv, NEW r \in Requests, RegisterChecks(r)
  PROVE  IInv'
<1>1. call[r].target \in Sessions /\ call[r].at # "done"
  BY DEF IInv, Knows, RegisterChecks
<1>2. CASE Proven(call[r].target)
  <2>1. At(r, "persist") /\ UNCHANGED answer /\ UNCHANGED <<op, binding, boundThen>>
    BY <1>2 DEF RegisterChecks
  <2>2. Evidence(call[r].target) # {}
    BY <1>2 DEF Proven
  <2>3. QED BY <1>1, <2>1, <2>2, MovesKeep
<1>3. CASE ~Proven(call[r].target)
  <2>1. Replies(r, "UnknownSession", {call[r].target}, {}) /\ UNCHANGED <<op, binding, boundThen>>
    BY <1>3 DEF RegisterChecks
  <2>2. "UnknownSession" \notin Refusals
    BY DEF Refusals
  <2>3. QED BY <1>1, <2>1, <2>2, RepliesKeep
<1>4. QED BY <1>2, <1>3

LEMMA DecidesKeeps ==
  ASSUME IInv, NEW r \in Requests, Decides(r)
  PROVE  IInv'
<1>1. /\ call[r] \in CallRows /\ answer \in [Requests -> Answers]
      /\ call[r].id \in Identities /\ answer[r].kind = "none"
      /\ binding[call[r].id] \in Sessions \cup {NoSession}
      /\ boundThen[r] # NoSession => binding[call[r].id] # NoSession
      /\ call[r].at = "binding"
  BY DEF IInv, TypeOK, CallRows, Knows, Decides
<1>2. CASE Replies(r, "New", {}, {})
  <2>1. "New" \notin Refusals
    BY DEF Refusals
  <2>2. UNCHANGED <<op, binding, boundThen>>
    BY DEF Decides
  <2>3. QED BY <1>2, <2>1, <2>2, RepliesKeep
<1>3. CASE /\ Binding(call[r].id) # NoSession
           /\ call' = [call EXCEPT ![r].at = "bound", ![r].target = Binding(call[r].id)]
           /\ UNCHANGED answer
  <2> DEFINE row == [call[r] EXCEPT !.at = "bound", !.target = Binding(call[r].id)]
  <2>1. /\ row \in CallRows /\ row.at = "bound" /\ row.id = call[r].id
        /\ row.target = binding[call[r].id] /\ row.target \in Sessions
    BY <1>1, <1>3 DEF CallRows, Binding
  <2>2. call' = [call EXCEPT ![r] = row]
    BY <1>3
  <2>3. answer' = [answer EXCEPT ![r] = answer[r]] /\ answer[r] \in Answers
    BY <1>1, <1>3
  <2>4. UNCHANGED <<op, binding, boundThen>>
    BY DEF Decides
  <2> HIDE DEF row
  <2>5. QED BY <1>1, <2>1, <2>2, <2>3, <2>4, StageKeeps DEF Refusals
<1>4. CASE Binding(call[r].id) = NoSession /\ At(r, "bindings") /\ UNCHANGED answer
  <2>1. boundThen[r] = NoSession
    BY <1>1, <1>4 DEF Binding
  <2>2. UNCHANGED <<op, binding, boundThen>>
    BY DEF Decides
  <2>3. QED BY <1>1, <1>4, <2>1, <2>2, MovesKeep
<1>5. QED BY <1>2, <1>3, <1>4 DEF Decides

LEMMA DecidesBoundKeeps ==
  ASSUME IInv, NEW r \in Requests, DecidesBound(r)
  PROVE  IInv'
<1>1. /\ call[r].target \in Sessions /\ binding[call[r].id] = call[r].target
      /\ call[r].id \in Identities
  BY DEF IInv, TypeOK, CallRows, Knows, DecidesBound
<1>2. binding[call[r].id] # NoSession
  BY <1>1, NoSessionAssumption
<1>3. Evidence(call[r].target) # {}
  BY <1>1, <1>2 DEF IInv, Proofs
<1>4. Replies(r, "ResumeExact", {call[r].target}, {}) /\ UNCHANGED <<op, binding, boundThen>>
  BY <1>3 DEF DecidesBound
<1>5. "ResumeExact" \notin Refusals
  BY DEF Refusals
<1>6. QED BY <1>1, <1>2, <1>4, <1>5, RepliesKeep

LEMMA DecidesUnboundKeeps ==
  ASSUME IInv, NEW r \in Requests, DecidesUnbound(r)
  PROVE  IInv'
<1>1. call[r].at = "bindings" /\ boundThen[r] = NoSession
  BY DEF IInv, Knows, DecidesUnbound
<1>2. BoundBy(call[r].id[1]) \in SUBSET Identities
  BY DEF BoundBy
<1>3. UNCHANGED <<op, binding, boundThen>>
  BY DEF DecidesUnbound
<1>4. CASE BoundBy(call[r].id[1]) # {}
  <2>1. Replies(r, "IdentityMismatch", {}, BoundBy(call[r].id[1]))
    BY <1>4 DEF DecidesUnbound
  <2>2. "IdentityMismatch" \in Refusals
    BY DEF Refusals
  <2>3. QED BY <1>1, <1>2, <1>3, <2>1, <2>2, RepliesKeep
<1>5. CASE BoundBy(call[r].id[1]) = {}
  <2>1. At(r, "candidates") /\ UNCHANGED answer
    BY <1>5 DEF DecidesUnbound
  <2>2. QED BY <1>1, <1>3, <2>1, MovesKeep
<1>6. QED BY <1>4, <1>5

LEMMA DecidesUnknownKeeps ==
  ASSUME IInv, NEW r \in Requests, DecidesUnknown(r)
  PROVE  IInv'
<1>1. call[r].at = "candidates" /\ boundThen[r] = NoSession
  BY DEF IInv, Knows, DecidesUnknown
<1>2. PICK kind \in {"AmbiguousSessions", "BindingRequired"} : Replies(r, kind, Candidates, {})
  BY DEF DecidesUnknown
<1>3. UNCHANGED <<op, binding, boundThen>> /\ Candidates \in SUBSET Sessions
  BY DEF DecidesUnknown, Candidates
<1>4. kind \in Refusals /\ kind \notin {"Existing", "ResumeExact"}
  BY <1>2 DEF Refusals
<1>5. QED BY <1>1, <1>2, <1>3, <1>4, RepliesKeep

(* The one step that binds: its evidence is there, and nobody was told of  *)
(* a binding of the identity before.                                       *)
LEMMA InsertKeeps ==
  ASSUME IInv, NEW r \in Requests, RegisterPersists(r), Unbound(call[r].id)
  PROVE  IInv'
<1> DEFINE i == call[r].id
           s == call[r].target
<1>1. /\ i \in Identities /\ s \in Sessions /\ call[r].at = "persist"
      /\ binding[i] = NoSession /\ s # NoSession /\ boundThen[r] = NoSession
      /\ Evidence(s) # {} /\ answer[r].kind = "none"
  BY NoSessionAssumption DEF IInv, TypeOK, CallRows, Knows, RegisterPersists, Unbound
<1>2. /\ binding' = [binding EXCEPT ![i] = s] /\ Replies(r, "Inserted", {s}, {i})
      /\ UNCHANGED <<op, boundThen>>
  BY DEF RegisterPersists
<1>3. /\ binding' \in [Identities -> Sessions \cup {NoSession}] /\ binding'[i] = s
      /\ \A j \in Identities \ {i} : binding'[j] = binding[j]
  BY <1>1, <1>2 DEF IInv, TypeOK
<1>4. /\ call' \in [Requests -> CallRows]
      /\ call'[r].at = "done" /\ call'[r].id = i /\ call'[r].target = s
      /\ \A q \in Requests \ {r} : call'[q] = call[q]
  BY <1>1, <1>2 DEF IInv, TypeOK, CallRows, Replies, At
<1>5. /\ answer' \in [Requests -> Answers]
      /\ answer'[r].kind = "Inserted"
      /\ \A q \in Requests \ {r} : answer'[q] = answer[q]
  BY <1>1, <1>2 DEF IInv, TypeOK, Replies, Answer, Answers, Successes
<1> HIDE DEF i, s
<1>6. Stable
  BY <1>1, <1>2, <1>3 DEF Stable
<1>7. TypeOK'
  BY <1>2, <1>3, <1>4, <1>5 DEF IInv, TypeOK
<1>8. ASSUME NEW q \in Requests PROVE Knows(q)' /\ Told(q)'
  <2>1. CASE q # r
    BY <1>2, <1>4, <1>5, <1>6, <2>1, OthersKeep
  <2>2. CASE q = r
    <3>1. Knows(q)'
      BY <1>1, <1>2, <1>3, <1>4, <2>2 DEF Knows
    <3>2. Told(q)'
      BY <1>1, <1>2, <1>3, <1>4, <1>5, <2>2 DEF Told, Refusals
    <3>3. QED BY <3>1, <3>2
  <2>3. QED BY <2>1, <2>2
<1>9. Proofs'
  <2>1. ASSUME NEW j \in Identities, binding'[j] # NoSession
        PROVE  (Evidence(binding[j]) # {})'
    <3>1. PICK t \in Sessions : t = binding'[j] /\ Evidence(t) # {}
      BY <1>1, <1>3, <2>1 DEF IInv, TypeOK, Proofs
    <3>2. QED BY <1>2, <3>1 DEF Evidence
  <2>2. QED BY <2>1 DEF Proofs
<1>10. InsertedOnce'
  <2>1. ASSUME NEW q \in Requests \ {r}, answer[q].kind = "Inserted"
        PROVE  call[q].id # i
    <3>1. call[q].target \in Sessions /\ binding[call[q].id] = call[q].target
      BY <2>1 DEF IInv, Knows, Told, Successes
    <3>2. QED BY <1>1, <3>1, NoSessionAssumption
  <2>2. QED BY <1>4, <1>5, <2>1 DEF IInv, InsertedOnce
<1>11. QED BY <1>7, <1>8, <1>9, <1>10 DEF IInv

LEMMA RegisterPersistsKeeps ==
  ASSUME IInv, NEW r \in Requests, RegisterPersists(r)
  PROVE  IInv'
<1>1. CASE Unbound(call[r].id)
  BY <1>1, InsertKeeps
<1>2. CASE ~Unbound(call[r].id)
  <2>1. /\ call[r].id \in Identities /\ call[r].target \in Sessions
        /\ binding[call[r].id] \in Sessions
    BY <1>2 DEF IInv, TypeOK, CallRows, Knows, Unbound
  <2>2. /\ UNCHANGED binding /\ UNCHANGED <<op, boundThen>>
        /\ Replies(r, IF binding[call[r].id] = call[r].target THEN "Existing" ELSE "BindingConflict",
                   {binding[call[r].id]}, {call[r].id})
    BY <1>2 DEF RegisterPersists
  <2>3. "Existing" \notin Refusals /\ "BindingConflict" \notin Refusals
    BY DEF Refusals
  <2>4. CASE binding[call[r].id] = call[r].target
    <3>1. Replies(r, "Existing", {binding[call[r].id]}, {call[r].id})
      BY <2>2, <2>4
    <3>2. QED BY <2>1, <2>2, <2>3, <2>4, <3>1, RepliesKeep
  <2>5. CASE binding[call[r].id] # call[r].target
    <3>1. Replies(r, "BindingConflict", {binding[call[r].id]}, {call[r].id})
      BY <2>2, <2>5
    <3>2. QED BY <2>1, <2>2, <2>3, <3>1, RepliesKeep
  <2>6. QED BY <2>4, <2>5
<1>3. QED BY <1>1, <1>2

(* A crash: what was bound and what had succeeded is on disk.              *)
LEMMA RestartKeeps ==
  ASSUME IInv, Restart
  PROVE  IInv'
<1>1. /\ \A o \in Operations :
           op'[o] = IF op[o].state = "Running" THEN [op[o] EXCEPT !.state = "Indeterminate"]
                    ELSE op[o]
      /\ op' \in [Operations -> OperationRows]
  BY DEF IInv, TypeOK, OperationRows, Restart
<1>2. /\ call' \in [Requests -> CallRows]
      /\ \A r \in Requests :
           /\ call'[r].id = call[r].id /\ call'[r].target = call[r].target
           /\ call'[r].at = IF Active(r) THEN "lost" ELSE call[r].at
  BY DEF IInv, TypeOK, CallRows, Restart
<1>3. UNCHANGED <<binding, answer, boundThen>>
  BY DEF Restart
<1>4. Stable
  BY <1>1, <1>3 DEF Stable
<1>5. TypeOK'
  BY <1>1, <1>2, <1>3 DEF IInv, TypeOK
<1>6. ASSUME NEW r \in Requests PROVE Knows(r)' /\ Told(r)'
  <2>1. Knows(r) /\ Told(r)
    BY DEF IInv
  <2>2. call'[r].at \in {"lost", "unused", "done"}
    BY <1>2 DEF Active
  <2>3. call'[r].at # "done" => call[r].at # "done"
    BY <1>2 DEF Active
  <2>4. Knows(r)'
    BY <1>2, <1>3, <2>1, <2>2, <2>3 DEF Knows
  <2>5. Told(r)'
    BY <1>2, <1>3, <2>1 DEF Told
  <2>6. QED BY <2>4, <2>5
<1>7. Proofs'
  BY <1>3, <1>4, ProofsKeep
<1>8. InsertedOnce'
  BY <1>2, <1>3 DEF IInv, InsertedOnce
<1>9. QED BY <1>5, <1>6, <1>7, <1>8 DEF IInv

----------------------------------------------------------------------------
(* The invariant and the properties *)

LEMMA InitHolds == Init => IInv
<1>1. SUFFICES ASSUME Init PROVE IInv
  OBVIOUS
<1>2. /\ op \in [Operations -> OperationRows]
      /\ binding \in [Identities -> Sessions \cup {NoSession}]
      /\ boundThen \in [Requests -> Sessions \cup {NoSession}]
  BY <1>1 DEF Init, OperationRows
<1>3. /\ call \in [Requests -> CallRows]
      /\ \A r \in Requests : call[r].at = "unused" /\ call[r].target \in Sessions
  BY <1>1 DEF Init, CallRows
<1>4. answer \in [Requests -> Answers] /\ \A r \in Requests : answer[r].kind = "none"
  BY <1>1 DEF Init, Answers, Answer
<1>5. TypeOK
  BY <1>2, <1>3, <1>4 DEF TypeOK
<1>6. \A r \in Requests : Knows(r) /\ Told(r)
  BY <1>1, <1>3, <1>4 DEF Init, Knows, Told, Successes, Refusals
<1>7. Proofs
  BY <1>1 DEF Init, Proofs
<1>8. InsertedOnce
  BY <1>4 DEF InsertedOnce
<1>9. QED BY <1>5, <1>6, <1>7, <1>8 DEF IInv

LEMMA StepHolds == IInv /\ [Next]_vars => IInv'
<1> SUFFICES ASSUME IInv, [Next]_vars PROVE IInv'
  OBVIOUS
<1>1. CASE \E o \in Operations : Starts(o) \/ Ends(o)
  BY <1>1, OperationsKeep
<1>2. ASSUME NEW r \in Requests, Asks(r) PROVE IInv'
  BY <1>2, AsksKeeps
<1>3. ASSUME NEW r \in Requests, RegisterChecks(r) PROVE IInv'
  BY <1>3, RegisterChecksKeeps
<1>4. ASSUME NEW r \in Requests, RegisterPersists(r) PROVE IInv'
  BY <1>4, RegisterPersistsKeeps
<1>5. ASSUME NEW r \in Requests, Decides(r) PROVE IInv'
  BY <1>5, DecidesKeeps
<1>6. ASSUME NEW r \in Requests, DecidesBound(r) PROVE IInv'
  BY <1>6, DecidesBoundKeeps
<1>7. ASSUME NEW r \in Requests, DecidesUnbound(r) PROVE IInv'
  BY <1>7, DecidesUnboundKeeps
<1>8. ASSUME NEW r \in Requests, DecidesUnknown(r) PROVE IInv'
  BY <1>8, DecidesUnknownKeeps
<1>9. CASE Restart
  BY <1>9, RestartKeeps
<1>10. ASSUME UNCHANGED vars PROVE IInv'
  BY <1>10 DEF vars, IInv, TypeOK, Knows, Told, Proofs, InsertedOnce, Evidence
<1>11. QED BY <1>1, <1>2, <1>3, <1>4, <1>5, <1>6, <1>7, <1>8, <1>9, <1>10 DEF Next, Quiescent

LEMMA Invariance == Spec => []IInv
<1>1. QED BY InitHolds, StepHolds, PTL DEF Spec

(* Every value keeps its type.                                             *)
THEOREM TypeCorrect == Spec => []TypeOK
<1>1. IInv => TypeOK
  BY DEF IInv
<1>2. QED BY <1>1, Invariance, PTL

(* A binding has the evidence it was made with, for ever, and no decision  *)
(* finds it missing.                                                       *)
THEOREM BindingsProven == Spec => []BindingsAreProven
<1>1. IInv => BindingsAreProven
  BY DEF IInv, Proofs, Told, BindingsAreProven
<1>2. QED BY <1>1, Invariance, PTL

(* What a registration answered stays so, and one request inserts.         *)
THEOREM RegistrationLasts == Spec => []RegisteredIsBound
<1>1. IInv => RegisteredIsBound
  BY DEF IInv, Told, InsertedOnce, RegisteredIsBound
<1>2. QED BY <1>1, Invariance, PTL

(* A decision resumes the bound session on its evidence, and refuses no    *)
(* identity that was bound when it was asked for.                          *)
THEOREM DecisionsAreExact == Spec => []DecisionIsExact
<1>1. IInv => ResumeIsExact
  <2>1. SUFFICES ASSUME IInv, NEW r \in Requests, answer[r].kind = "ResumeExact"
                 PROVE  /\ answer[r].sessions = {binding[call[r].id]}
                        /\ \E o \in Operations : /\ op[o].state = "Succeeded" /\ op[o].ours
                                                 /\ answer[r].sessions = {op[o].session}
    BY DEF ResumeIsExact
  <2>2. /\ answer[r].sessions = {binding[call[r].id]} /\ binding[call[r].id] # NoSession
        /\ call[r].id \in Identities
    BY <2>1 DEF IInv, Told, TypeOK, CallRows
  <2>3. Evidence(binding[call[r].id]) # {}
    BY <2>1, <2>2 DEF IInv, Proofs
  <2>4. QED BY <2>2, <2>3 DEF Evidence
<1>2. IInv => BoundIsResumed
  BY DEF IInv, Told, BoundIsResumed
<1>3. IInv => DecisionIsExact
  BY <1>1, <1>2 DEF DecisionIsExact
<1>4. QED BY <1>3, Invariance, PTL

============================================================================
