--------------------------- MODULE StateStore_proofs ---------------------------
(***************************************************************************)
(* The safety of StateStore for any number of daemons, projects,           *)
(* configurations, requests and failing statements.                        *)
(*                                                                         *)
(* The lease gives one daemon the file, its mutex gives one request the    *)
(* connection: so the rows that a request has read in its transaction are  *)
(* those of the file until it commits, and it adds one row of its own.  A  *)
(* transaction that a failed COMMIT or ROLLBACK left open is never         *)
(* continued, because BEGIN fails in it.                                   *)
(***************************************************************************)
EXTENDS StateStore, TLAPS

Inside  == {"action", "commit", "rollback"}
Holding == Inside \cup {"begin", "read"}

(* What is so of a request at each of its stages.                          *)
Holds(r) ==
  /\ call[r].at \in Holding \cup {"lock"} =>
       call[r].by \in Daemons /\ at[call[r].by] = "serving"
  /\ call[r].at \in Holding => mutex[call[r].by] = r
  /\ call[r].at \in Inside \cup {"begin"} => call[r].config # NoConfig
  /\ call[r].at = "read" => call[r].config = NoConfig
  /\ call[r].at = "action" => view[call[r].by] = table
  /\ call[r].at = "commit" =>
       /\ table[call[r].project] \in {NoConfig, call[r].config}
       /\ view[call[r].by] = [table EXCEPT ![call[r].project] = call[r].config]
  /\ call[r].at \notin {"reply", "done"} => answer[r].kind = "none"

Calls == \A r \in Requests : Holds(r)

(* One process lives on the file, and what it runs is its own.             *)
Lease ==
  /\ \A d \in Daemons : at[d] \in Living => owner = d
  /\ job.state = "running" => job.by \in Daemons /\ at[job.by] \in {"serving", "gone"}
  /\ job.state = "recovered" => job.by \in Daemons /\ at[job.by] = "gone"

File == AnsweredIsDurable /\ NothingElseIsDurable

IInv == TypeOK /\ Lease /\ Calls /\ File

CallRows == [at : {"idle", "lock", "begin", "action", "commit", "rollback",
                   "read", "reply", "done"},
             project : Projects, config : Configs \cup {NoConfig}, by : Daemons \cup {Nobody}]

AnswerRows == [kind : Replies, config : Configs \cup {NoConfig}]

LEMMA Typed ==
  ASSUME TypeOK
  PROVE  /\ call \in [Requests -> CallRows] /\ answer \in [Requests -> AnswerRows]
         /\ \A r \in Requests : /\ call[r] \in CallRows /\ call[r].project \in Projects
                                /\ call[r].config \in Configs \cup {NoConfig}
                                /\ call[r].by \in Daemons \cup {Nobody}
                                /\ answer[r] \in AnswerRows
BY DEF TypeOK, CallRows, AnswerRows

(* The lease and the mutex admit one request to the file.                  *)
LEMMA OneHolder ==
  ASSUME IInv, NEW q \in Requests, NEW r \in Requests,
         call[q].at \in Holding, call[r].at \in Holding
  PROVE  q = r
<1>1. /\ call[q].by \in Daemons /\ at[call[q].by] = "serving" /\ mutex[call[q].by] = q
      /\ call[r].by \in Daemons /\ at[call[r].by] = "serving" /\ mutex[call[r].by] = r
  BY DEF IInv, Calls, Holds
<1>2. call[q].by = call[r].by
  BY <1>1 DEF IInv, Lease, Living
<1>3. QED BY <1>1, <1>2

(* The file is untouched, and answers of registrations go at most lost.    *)
LEMMA FileKeeps ==
  ASSUME IInv, table' = table,
         \A q \in Requests :
           /\ call'[q].project = call[q].project /\ call'[q].config = call[q].config
           /\ call[q].config # NoConfig /\ answer'[q].kind = "project" => answer[q].kind = "project"
           /\ answer[q].kind \in {"project", "lost"} => answer'[q].kind \in {"project", "lost"}
  PROVE  File'
<1>1. AnsweredIsDurable'
  BY DEF IInv, File, AnsweredIsDurable, Registered
<1>2. NothingElseIsDurable'
  BY DEF IInv, File, NothingElseIsDurable
<1>3. QED BY <1>1, <1>2 DEF File

----------------------------------------------------------------------------
(* Steps of a daemon *)

(* A step that no request notices: its daemon, if it had one, still serves. *)
LEMMA CallsUnmoved ==
  ASSUME IInv, UNCHANGED <<table, mutex, open, view, call, answer>>,
         \A d \in Daemons : at[d] = "serving" => at'[d] = "serving"
  PROVE  Calls' /\ File'
<1>1. Calls'
  BY DEF IInv, Calls, Holds
<1>2. File'
  BY FileKeeps
<1>3. QED BY <1>1, <1>2

LEMMA DaemonKeeps ==
  ASSUME IInv, NEW d \in Daemons, DaemonStep(d)
  PROVE  IInv'
<1>1. /\ at \in [Daemons -> {"new", "gone"} \cup Living]
      /\ Nobody \notin Daemons
  BY StoreAssumption DEF IInv, TypeOK
<1>2. UNCHANGED <<table, mutex, open, view, call, answer, faults>>
  BY DEF DaemonStep, Acquire, AcquireFails, Recover, Bind, DaemonUnchanged, file
<1>3. CASE Acquire(d)
  <2>1. TypeOK'
    BY <1>2, <1>3 DEF IInv, TypeOK, Acquire, Phase, Living, file
  <2>2. \A e \in Daemons : at[e] \notin Living
    BY <1>1, <1>3 DEF IInv, Lease, Acquire, LockFree
  <2>3. at' = [at EXCEPT ![d] = "leased"] /\ owner' = d /\ job' = job /\ at[d] = "new"
    BY <1>3 DEF Acquire, Phase, file
  <2>4. Lease'
    BY <1>1, <2>2, <2>3 DEF IInv, Lease
  <2>5. \A e \in Daemons : at[e] = "serving" => at'[e] = "serving"
    BY <1>1, <2>3
  <2>6. QED BY <1>2, <2>1, <2>4, <2>5, CallsUnmoved DEF IInv
<1>4. CASE AcquireFails(d)
  <2>1. TypeOK'
    BY <1>2, <1>4 DEF IInv, TypeOK, AcquireFails, Phase, Living, file
  <2>2. at' = [at EXCEPT ![d] = "gone"] /\ owner' = owner /\ job' = job /\ at[d] = "new"
    BY <1>4 DEF AcquireFails, Phase, file
  <2>3. Lease'
    BY <1>1, <2>2 DEF IInv, Lease, Living
  <2>4. \A e \in Daemons : at[e] = "serving" => at'[e] = "serving"
    BY <1>1, <2>2
  <2>5. QED BY <1>2, <2>1, <2>3, <2>4, CallsUnmoved DEF IInv
<1>5. CASE Recover(d)
  <2>1. TypeOK'
    BY <1>2, <1>5 DEF IInv, TypeOK, Recover, Phase, Living
  <2>2. /\ at' = [at EXCEPT ![d] = "recovered"] /\ owner' = owner /\ at[d] = "leased"
        /\ job' = IF job.state = "running" THEN [job EXCEPT !.state = "recovered"] ELSE job
    BY <1>5 DEF Recover, Phase
  <2>3. job.state = "running" => job.by \in Daemons /\ job.by # d /\ at[job.by] = "gone"
    <3>1. owner = d
      BY <2>2 DEF IInv, Lease, Living
    <3>2. job.state = "running" => job.by \in Daemons /\ at[job.by] \in {"serving", "gone"}
      BY DEF IInv, Lease
    <3>3. \A e \in Daemons : at[e] = "serving" => e = d
      BY <3>1 DEF IInv, Lease, Living
    <3>4. QED BY <2>2, <3>2, <3>3
  <2>4. /\ job'.state = "running" => FALSE
        /\ job'.state = "recovered" => job'.by \in Daemons /\ job'.by # d /\ at[job'.by] = "gone"
    <3>1. CASE job.state = "running"
      <4>1. job' = [job EXCEPT !.state = "recovered"]
        BY <2>2, <3>1
      <4>2. job'.state = "recovered" /\ job'.by = job.by
        BY <4>1 DEF IInv, TypeOK
      <4>3. QED BY <2>3, <3>1, <4>2
    <3>2. CASE job.state # "running"
      <4>1. job' = job
        BY <2>2, <3>2
      <4>2. QED BY <2>2, <3>2, <4>1 DEF IInv, Lease
    <3>3. QED BY <3>1, <3>2
  <2>5. Lease'
    BY <1>1, <2>2, <2>4 DEF IInv, Lease, Living
  <2>6. \A e \in Daemons : at[e] = "serving" => at'[e] = "serving"
    BY <1>1, <2>2
  <2>7. QED BY <1>2, <2>1, <2>5, <2>6, CallsUnmoved DEF IInv
<1>6. CASE Bind(d)
  <2>1. TypeOK'
    BY <1>2, <1>6 DEF IInv, TypeOK, Bind, Phase, Living, file
  <2>2. at' = [at EXCEPT ![d] = "serving"] /\ owner' = owner /\ job' = job /\ at[d] = "recovered"
    BY <1>6 DEF Bind, Phase, file
  <2>3. Lease'
    BY <1>1, <2>2 DEF IInv, Lease, Living
  <2>4. \A e \in Daemons : at[e] = "serving" => at'[e] = "serving"
    BY <1>1, <2>2
  <2>5. QED BY <1>2, <2>1, <2>3, <2>4, CallsUnmoved DEF IInv
<1>7. QED BY <1>3, <1>4, <1>5, <1>6 DEF DaemonStep

(* The rest of what a daemon does, and the Owner.                          *)
LEMMA JobKeeps ==
  ASSUME IInv, (\E d \in Daemons : Admit(d) \/ Finish(d)) \/ Unlink
  PROVE  IInv'
<1>1. UNCHANGED <<table, owner, at, mutex, open, view, call, answer, faults>>
  BY DEF Admit, Finish, Unlink, DaemonUnchanged, process, file
<1>2. /\ job' \in [state : {"none", "running", "ended", "recovered"}, by : Daemons \cup {Nobody}]
      /\ job'.state = "running" => job'.by \in Daemons /\ at[job'.by] \in {"serving", "gone"}
      /\ job'.state = "recovered" => job'.by \in Daemons /\ at[job'.by] = "gone"
  <2>1. CASE \E d \in Daemons : Admit(d)
    BY <2>1 DEF Admit
  <2>2. CASE \E d \in Daemons : Finish(d)
    BY <2>2 DEF IInv, TypeOK, Finish
  <2>3. CASE Unlink
    BY <2>3 DEF IInv, TypeOK, Lease, Unlink, file
  <2>4. QED BY <2>1, <2>2, <2>3
<1>3. socket' \in BOOLEAN
  BY DEF IInv, TypeOK, Admit, Finish, Unlink, process
<1>4. TypeOK'
  BY <1>1, <1>2, <1>3 DEF IInv, TypeOK
<1>5. Lease'
  BY <1>1, <1>2 DEF IInv, Lease
<1>6. Calls' /\ File'
  BY <1>1, CallsUnmoved
<1>7. QED BY <1>4, <1>5, <1>6 DEF IInv

LEMMA ExitKeeps ==
  ASSUME IInv, NEW d \in Daemons, Exit(d)
  PROVE  IInv'
<1>1. /\ at' = [at EXCEPT ![d] = "gone"] /\ at[d] \in Living
      /\ owner' = IF owner = d THEN Nobody ELSE owner
      /\ UNCHANGED <<table, job, socket, view, faults>>
  BY DEF Exit, Phase, file
<1>2. /\ mutex' = [mutex EXCEPT ![d] = Nobody] /\ open' = [open EXCEPT ![d] = FALSE]
      /\ call' \in [Requests -> CallRows] /\ answer' \in [Requests -> AnswerRows]
      /\ \A r \in Requests : IF call[r].by = d /\ call[r].at # "done"
           THEN /\ call'[r].at = "done" /\ call'[r].project = call[r].project
                /\ call'[r].config = call[r].config /\ call'[r].by = call[r].by
                /\ answer'[r] = Reply("lost", NoConfig)
           ELSE call'[r] = call[r] /\ answer'[r] = answer[r]
  BY Typed DEF IInv, Exit, CallRows, AnswerRows, Reply, Replies
<1>3. TypeOK'
  <2>1. \A r \in Requests : answer'[r].kind = "project" <=> answer'[r].config # NoConfig
    BY <1>2 DEF IInv, TypeOK, Reply
  <2>2. QED BY <1>1, <1>2, <2>1 DEF IInv, TypeOK, CallRows, AnswerRows
<1>4. Lease'
  BY <1>1 DEF IInv, TypeOK, Lease, Living
<1>5. ASSUME NEW r \in Requests PROVE Holds(r)'
  <2>1. CASE call[r].by = d
    BY <1>2, <2>1 DEF Holds, Holding, Inside, Reply, IInv, Calls
  <2>2. CASE call[r].by # d
    <3>1. call'[r] = call[r] /\ answer'[r] = answer[r]
      BY <1>2, <2>2
    <3>2. call[r].by \in Daemons =>
            /\ at'[call[r].by] = at[call[r].by] /\ mutex'[call[r].by] = mutex[call[r].by]
      BY <1>1, <1>2, <2>2 DEF IInv, TypeOK
    <3>3. QED BY <1>1, <3>1, <3>2 DEF Holds, Holding, Inside, IInv, Calls
  <2>3. QED BY <2>1, <2>2
<1>6. File'
  <2>1. \A q \in Requests :
          /\ call'[q].project = call[q].project /\ call'[q].config = call[q].config
          /\ call[q].config # NoConfig /\ answer'[q].kind = "project" => answer[q].kind = "project"
          /\ answer[q].kind \in {"project", "lost"} => answer'[q].kind \in {"project", "lost"}
    BY <1>2 DEF Reply
  <2>2. QED BY <1>1, <2>1, FileKeeps
<1>7. QED BY <1>3, <1>4, <1>5, <1>6 DEF IInv, Calls

----------------------------------------------------------------------------
(* Steps of a request *)

(* A step of one request leaves what is so of the others: they do not hold *)
(* the connection, or the step does not touch it.                          *)
LEMMA OthersKeep ==
  ASSUME IInv, NEW r \in Requests, NEW q \in Requests \ {r},
         at' = at, call'[q] = call[q], answer'[q] = answer[q],
         \/ call[r].at \in Holding
         \/ /\ UNCHANGED <<table, open, view>>
            /\ \A d \in Daemons : mutex[d] \in Requests => mutex'[d] = mutex[d]
  PROVE  Holds(q)'
<1>1. Holds(q)
  BY DEF IInv, Calls
<1>2. CASE call[q].at \in Holding
  <2>1. call[r].at \notin Holding
    BY <1>2, OneHolder
  <2>2. call[q].by \in Daemons /\ mutex[call[q].by] = q
    BY <1>1, <1>2 DEF Holds
  <2>3. QED BY <1>1, <2>1, <2>2 DEF Holds
<1>3. CASE call[q].at \notin Holding
  BY <1>1, <1>3 DEF Holds, Holding, Inside
<1>4. QED BY <1>2, <1>3

(* What every step of a request leaves alone.                              *)
LEMMA RequestKeeps ==
  ASSUME IInv, NEW r \in Requests, TypeOK', RequestUnchanged,
         \A q \in Requests \ {r} : call'[q] = call[q] /\ answer'[q] = answer[q],
         \/ call[r].at \in Holding
         \/ /\ UNCHANGED <<table, open, view>>
            /\ \A d \in Daemons : mutex[d] \in Requests => mutex'[d] = mutex[d],
         Holds(r)', File'
  PROVE  IInv'
<1>1. UNCHANGED <<job, owner, socket, at>>
  BY DEF RequestUnchanged, process
<1>2. Lease'
  BY <1>1 DEF IInv, Lease
<1>3. ASSUME NEW q \in Requests PROVE Holds(q)'
  <2>1. CASE q = r
    BY <2>1
  <2>2. CASE q # r
    BY <1>1, <2>2, OthersKeep
  <2>3. QED BY <2>1, <2>2
<1>4. QED BY <1>2, <1>3 DEF IInv, Calls

(* A step that ends in a reply which reports no registration.              *)
LEMMA ReplyKeeps ==
  ASSUME IInv, NEW r \in Requests, NEW reply \in AnswerRows, TypeOK', RequestUnchanged,
         call[r].at \in Holding, Done(r, reply), table' = table,
         reply.kind # "project" \/ call[r].config = NoConfig
  PROVE  IInv'
<1>1. /\ \A q \in Requests \ {r} : call'[q] = call[q] /\ answer'[q] = answer[q]
      /\ call'[r].at = "reply" /\ call'[r].project = call[r].project
      /\ call'[r].config = call[r].config
      /\ answer'[r] = reply /\ answer[r].kind = "none"
  BY Typed DEF IInv, Calls, Holds, Holding, Inside, CallRows, AnswerRows, Done, At
<1>2. Holds(r)'
  BY <1>1 DEF Holds, Holding, Inside
<1>3. File'
  BY <1>1, FileKeeps
<1>4. QED BY <1>1, <1>2, <1>3, RequestKeeps

LEMMA ErrorTyped == Error \in AnswerRows /\ Error.kind # "project" /\ Error.config = NoConfig
BY DEF Error, Reply, AnswerRows, Replies

LEMMA ArriveKeeps ==
  ASSUME IInv, NEW r \in Requests, Arrive(r)
  PROVE  IInv'
<1>1. PICK d \in Daemons :
        /\ at[d] = "serving"
        /\ \/ call' = [call EXCEPT ![r].at = "lock", ![r].by = d] /\ UNCHANGED answer
           \/ /\ call' = [call EXCEPT ![r].at = "reply", ![r].by = d]
              /\ answer' = [answer EXCEPT ![r] = Error]
  BY DEF Arrive
<1>2. /\ call[r].at = "idle" /\ answer[r].kind = "none"
      /\ UNCHANGED <<table, mutex, open, view, faults>> /\ RequestUnchanged
  BY DEF Arrive, NoFault, IInv, Calls, Holds
<1>3. TypeOK'
  <2>1. call' \in [Requests -> CallRows]
    BY <1>1, Typed DEF IInv, CallRows
  <2>2. /\ answer' \in [Requests -> AnswerRows]
        /\ \A q \in Requests : answer'[q].kind = "project" <=> answer'[q].config # NoConfig
    <3>1. answer' \in {answer, [answer EXCEPT ![r] = Error]}
      BY <1>1
    <3>2. QED BY <3>1, Typed, ErrorTyped DEF IInv, TypeOK
  <2>3. QED BY <1>2, <2>1, <2>2 DEF IInv, TypeOK, CallRows, AnswerRows, RequestUnchanged, process
<1>4. /\ \A q \in Requests \ {r} : call'[q] = call[q] /\ answer'[q] = answer[q]
      /\ call'[r].project = call[r].project /\ call'[r].config = call[r].config
      /\ \/ call'[r].at = "lock" /\ call'[r].by = d /\ answer'[r] = answer[r]
         \/ call'[r].at = "reply" /\ answer'[r].kind = "error"
  BY <1>1, Typed DEF IInv, CallRows, AnswerRows, Error, Reply
<1>5. Holds(r)'
  BY <1>1, <1>2, <1>4 DEF Holds, Holding, Inside, RequestUnchanged, process
<1>6. File'
  BY <1>2, <1>4, FileKeeps
<1>7. QED BY <1>2, <1>3, <1>4, <1>5, <1>6, RequestKeeps

LEMMA LockKeeps ==
  ASSUME IInv, NEW r \in Requests, Lock(r)
  PROVE  IInv'
<1>1. /\ call[r].at = "lock" /\ call[r].by \in Daemons /\ at[call[r].by] = "serving"
      /\ answer[r].kind = "none" /\ mutex[call[r].by] = Nobody
      /\ mutex' = [mutex EXCEPT ![call[r].by] = r]
      /\ UNCHANGED <<table, open, view, answer, faults>> /\ RequestUnchanged
  BY DEF IInv, Calls, Holds, Holding, Inside, Lock, Daemon, NoFault
<1>2. PICK pc \in {"read", "begin"} :
        At(r, pc) /\ (pc = "begin" <=> call[r].config # NoConfig)
  BY DEF Lock
<1>3. TypeOK'
  BY <1>1, <1>2 DEF IInv, TypeOK, RequestUnchanged, process, At
<1>4. /\ \A q \in Requests \ {r} : call'[q] = call[q]
      /\ call'[r].at = pc /\ call'[r].project = call[r].project
      /\ call'[r].config = call[r].config /\ call'[r].by = call[r].by
  BY <1>2, Typed DEF IInv, CallRows, At
<1>5. mutex'[call[r].by] = r /\ \A d \in Daemons : mutex[d] \in Requests => mutex'[d] = mutex[d]
  BY <1>1, StoreAssumption DEF IInv, TypeOK
<1>6. Holds(r)'
  BY <1>1, <1>2, <1>4, <1>5 DEF Holds, Holding, Inside, RequestUnchanged, process
<1>7. File'
  BY <1>1, <1>4, FileKeeps
<1>8. QED BY <1>1, <1>3, <1>4, <1>5, <1>6, <1>7, RequestKeeps

LEMMA BeginKeeps ==
  ASSUME IInv, NEW r \in Requests, Begin(r)
  PROVE  IInv'
<1>1. /\ call[r].at = "begin" /\ call[r].by \in Daemons /\ at[call[r].by] = "serving"
      /\ answer[r].kind = "none" /\ mutex[call[r].by] = r /\ call[r].config # NoConfig
      /\ open' = [open EXCEPT ![call[r].by] = TRUE]
      /\ view' = [view EXCEPT ![call[r].by] = table]
      /\ UNCHANGED <<table, mutex, answer, faults>> /\ RequestUnchanged /\ At(r, "action")
  BY DEF IInv, Calls, Holds, Holding, Inside, Begin, Daemon, Nested, NoFault
<1>2. TypeOK'
  BY <1>1 DEF IInv, TypeOK, RequestUnchanged, process, At
<1>3. /\ \A q \in Requests \ {r} : call'[q] = call[q]
      /\ call'[r].at = "action" /\ call'[r].project = call[r].project
      /\ call'[r].config = call[r].config /\ call'[r].by = call[r].by
  BY <1>1, Typed DEF IInv, CallRows, At
<1>4. view'[call[r].by] = table
  BY <1>1 DEF IInv, TypeOK
<1>5. Holds(r)'
  BY <1>1, <1>3, <1>4 DEF Holds, Holding, Inside, RequestUnchanged, process
<1>6. File'
  BY <1>1, <1>3, FileKeeps
<1>7. QED BY <1>1, <1>2, <1>3, <1>5, <1>6, RequestKeeps DEF Holding

LEMMA FaultType ==
  ASSUME TypeOK, Fault \/ NoFault
  PROVE  faults' \in 0..MaxFaults
BY StoreAssumption DEF TypeOK, Fault, NoFault

(* A reply that is typed keeps the types of call and answer.               *)
LEMMA DoneType ==
  ASSUME TypeOK, NEW r \in Requests, NEW reply \in AnswerRows, Done(r, reply),
         reply.kind = "project" <=> reply.config # NoConfig
  PROVE  /\ call' \in [Requests -> CallRows] /\ answer' \in [Requests -> AnswerRows]
         /\ \A q \in Requests : answer'[q].kind = "project" <=> answer'[q].config # NoConfig
<1>1. /\ call' = [call EXCEPT ![r].at = "reply"]
      /\ answer' = [answer EXCEPT ![r] = reply]
  BY DEF Done, At
<1>2. QED BY <1>1, Typed DEF TypeOK, CallRows

(* So does an error after which the mutex is free and the transaction      *)
(* perhaps not over.                                                       *)
LEMMA ErrorKeepsTypes ==
  ASSUME TypeOK, NEW r \in Requests, Done(r, Error), RequestUnchanged, Fault \/ NoFault,
         UNCHANGED <<table, view>>,
         mutex' = [mutex EXCEPT ![call[r].by] = Nobody],
         UNCHANGED open \/ open' = [open EXCEPT ![call[r].by] = FALSE]
  PROVE  TypeOK'
<1>1. faults' \in 0..MaxFaults
  BY FaultType
<1>2. /\ call' \in [Requests -> CallRows] /\ answer' \in [Requests -> AnswerRows]
      /\ \A q \in Requests : answer'[q].kind = "project" <=> answer'[q].config # NoConfig
  BY DoneType, ErrorTyped
<1>3. mutex' \in [Daemons -> Requests \cup {Nobody}] /\ open' \in [Daemons -> BOOLEAN]
  BY DEF TypeOK
<1>4. UNCHANGED <<table, job, owner, socket, at, view>>
  BY DEF RequestUnchanged, process
<1>5. QED BY <1>1, <1>2, <1>3, <1>4 DEF TypeOK, CallRows, AnswerRows

LEMMA BeginFailsKeeps ==
  ASSUME IInv, NEW r \in Requests, BeginFails(r)
  PROVE  IInv'
<1>1. /\ call[r].at = "begin" /\ Done(r, Error) /\ RequestUnchanged
      /\ mutex' = [mutex EXCEPT ![call[r].by] = Nobody]
      /\ UNCHANGED <<table, open, view>> /\ (Fault \/ NoFault)
  BY DEF BeginFails, ReleasesOnError, Unlocks, Daemon
<1>2. TypeOK'
  BY <1>1, ErrorKeepsTypes DEF IInv
<1>3. QED BY <1>1, <1>2, ErrorTyped, ReplyKeeps DEF Holding

LEMMA RegisterKeeps ==
  ASSUME IInv, NEW r \in Requests, Register(r)
  PROVE  IInv'
<1> DEFINE d == call[r].by
           p == call[r].project
           c == call[r].config
<1>1. /\ call[r].at = "action" /\ d \in Daemons /\ at[d] = "serving"
      /\ answer[r].kind = "none" /\ mutex[d] = r /\ c # NoConfig
      /\ view[d] = table /\ p \in Projects /\ c \in Configs
  <2>1. call[r].at = "action"
    BY DEF Register
  <2>2. p \in Projects /\ c \in Configs \cup {NoConfig}
    BY Typed DEF IInv
  <2>3. Holds(r)
    BY DEF IInv, Calls
  <2>4. QED BY <2>1, <2>2, <2>3 DEF Holds, Holding, Inside
<1>2. UNCHANGED <<table, mutex, open, answer>> /\ RequestUnchanged
  BY DEF Register
<1>3. /\ \/ /\ view[d][p] \in {NoConfig, c} /\ view' = [view EXCEPT ![d][p] = c]
            /\ At(r, "commit")
         \/ At(r, "rollback") /\ UNCHANGED view
      /\ Fault \/ NoFault
  BY DEF Register, Daemon
<1>4. TypeOK'
  <2>1. faults' \in 0..MaxFaults
    BY <1>3, FaultType DEF IInv
  <2>2. view' \in [Daemons -> Tables]
    <3>1. view \in [Daemons -> Tables] /\ [view[d] EXCEPT ![p] = c] \in Tables
      BY <1>1 DEF IInv, TypeOK, Tables
    <3>2. view' \in {view, [view EXCEPT ![d] = [view[d] EXCEPT ![p] = c]]}
      BY <1>3
    <3>3. QED BY <1>1, <3>1, <3>2
  <2>3. call' \in [Requests -> CallRows]
    BY <1>3, Typed DEF IInv, CallRows, At
  <2>4. QED BY <1>2, <2>1, <2>2, <2>3 DEF IInv, TypeOK, CallRows, RequestUnchanged, process
<1>5. /\ \A q \in Requests \ {r} : call'[q] = call[q]
      /\ call'[r].project = p /\ call'[r].config = c /\ call'[r].by = d
  BY <1>3, Typed DEF IInv, CallRows, At
<1>6. Holds(r)'
  <2>1. CASE At(r, "rollback") /\ UNCHANGED view
    <3>1. call'[r].at = "rollback"
      BY <2>1, Typed DEF IInv, CallRows, At
    <3>2. QED BY <1>1, <1>2, <1>5, <3>1 DEF Holds, Holding, Inside, RequestUnchanged, process
  <2>2. CASE /\ view[d][p] \in {NoConfig, c} /\ view' = [view EXCEPT ![d][p] = c]
             /\ At(r, "commit")
    <3>1. call'[r].at = "commit"
      BY <2>2, Typed DEF IInv, CallRows, At
    <3>2. view'[d] = [table EXCEPT ![p] = c] /\ table[p] \in {NoConfig, c}
      BY <1>1, <2>2 DEF IInv, TypeOK, Tables
    <3>3. QED BY <1>1, <1>2, <1>5, <3>1, <3>2
                 DEF Holds, Holding, Inside, RequestUnchanged, process
  <2>3. QED BY <1>3, <2>1, <2>2
<1>7. File'
  BY <1>2, <1>5, FileKeeps
<1>8. QED BY <1>1, <1>2, <1>4, <1>5, <1>6, <1>7, RequestKeeps DEF Holding, Inside

LEMMA CommitKeeps ==
  ASSUME IInv, NEW r \in Requests, Commit(r)
  PROVE  IInv'
<1> DEFINE d == call[r].by
           p == call[r].project
           c == call[r].config
<1>1. /\ call[r].at = "commit" /\ d \in Daemons /\ at[d] = "serving"
      /\ answer[r].kind = "none" /\ c # NoConfig /\ p \in Projects /\ c \in Configs
      /\ table[p] \in {NoConfig, c} /\ view[d] = [table EXCEPT ![p] = c]
  <2>1. call[r].at = "commit"
    BY DEF Commit
  <2>2. p \in Projects /\ c \in Configs \cup {NoConfig}
    BY Typed DEF IInv
  <2>3. Holds(r)
    BY DEF IInv, Calls
  <2>4. QED BY <2>1, <2>2, <2>3 DEF Holds, Holding, Inside
<1>2. UNCHANGED view /\ RequestUnchanged /\ mutex' = [mutex EXCEPT ![d] = Nobody]
  BY DEF Commit, ReleasesOnError, Unlocks, Daemon
<1>3. CASE /\ Fault /\ UNCHANGED table /\ MayEnd(d) /\ Done(r, CommitError(r))
  <2>1. UNCHANGED open \/ open' = [open EXCEPT ![d] = FALSE]
    BY <1>3 DEF MayEnd, Ends
  <2>2. Done(r, Error)
    BY <1>3 DEF CommitError
  <2>3. TypeOK'
    BY <1>2, <1>3, <2>1, <2>2, ErrorKeepsTypes DEF IInv
  <2>4. QED BY <1>1, <1>2, <1>3, <2>2, <2>3, ErrorTyped, ReplyKeeps DEF Holding, Inside
<1>4. CASE /\ table' = view[d] /\ Ends(d) /\ Done(r, Reply("project", c)) /\ NoFault
  <2>1. Reply("project", c) \in AnswerRows /\ Reply("project", c).kind = "project"
        /\ Reply("project", c).config = c
    BY <1>1 DEF Reply, AnswerRows, Replies
  <2>2. /\ call' \in [Requests -> CallRows] /\ answer' \in [Requests -> AnswerRows]
        /\ \A q \in Requests : answer'[q].kind = "project" <=> answer'[q].config # NoConfig
    BY <1>1, <1>4, <2>1, DoneType DEF IInv
  <2>3. /\ table' = [table EXCEPT ![p] = c] /\ table \in Tables /\ table' \in Tables
        /\ table'[p] = c /\ \A x \in Projects \ {p} : table'[x] = table[x]
    BY <1>1, <1>4 DEF IInv, TypeOK, Tables
  <2>4. /\ mutex' \in [Daemons -> Requests \cup {Nobody}] /\ open' \in [Daemons -> BOOLEAN]
        /\ faults' = faults
    BY <1>2, <1>4 DEF IInv, TypeOK, Ends, NoFault
  <2>5. UNCHANGED <<job, owner, socket, at, view>>
    BY <1>2 DEF RequestUnchanged, process
  <2>6. TypeOK'
    BY <2>2, <2>3, <2>4, <2>5 DEF IInv, TypeOK, CallRows, AnswerRows
  <2>7. /\ \A q \in Requests \ {r} : call'[q] = call[q] /\ answer'[q] = answer[q]
        /\ call'[r].at = "reply" /\ call'[r].project = p /\ call'[r].config = c
        /\ answer'[r].kind = "project"
    BY <1>4, <2>1, Typed DEF IInv, CallRows, AnswerRows, Done, At
  <2>8. Holds(r)'
    BY <2>7 DEF Holds, Holding, Inside
  <2>9. AnsweredIsDurable'
    <3>1. SUFFICES ASSUME NEW q \in Requests, Registered(q)'
                   PROVE  table'[call'[q].project] = call'[q].config
      BY DEF AnsweredIsDurable
    <3>2. CASE q = r
      BY <2>3, <2>7, <3>2
    <3>3. CASE q # r
      <4>1. table[call[q].project] = call[q].config /\ call[q].project \in Projects
            /\ call[q].config # NoConfig
        BY <2>7, <3>1, <3>3, Typed DEF IInv, File, AnsweredIsDurable, Registered
      <4>2. table'[call[q].project] = table[call[q].project]
        BY <1>1, <2>3, <4>1
      <4>3. QED BY <2>7, <3>3, <4>1, <4>2
    <3>4. QED BY <3>2, <3>3
  <2>10. NothingElseIsDurable'
    <3>1. SUFFICES ASSUME NEW x \in Projects, table'[x] # NoConfig
                   PROVE  \E q \in Requests : /\ call'[q].project = x
                                             /\ call'[q].config = table'[x]
                                             /\ answer'[q].kind \in {"project", "lost"}
      BY DEF NothingElseIsDurable
    <3>2. CASE x = p
      BY <2>3, <2>7, <3>2
    <3>3. CASE x # p
      <4>1. PICK q \in Requests : /\ call[q].project = x /\ call[q].config = table[x]
                                  /\ answer[q].kind \in {"project", "lost"}
        BY <2>3, <3>1, <3>3 DEF IInv, File, NothingElseIsDurable
      <4>2. q # r
        BY <1>1, <4>1
      <4>3. QED BY <2>3, <2>7, <3>3, <4>1, <4>2
    <3>4. QED BY <3>2, <3>3
  <2>11. QED BY <1>1, <1>2, <2>6, <2>7, <2>8, <2>9, <2>10, RequestKeeps DEF File, Holding, Inside
<1>5. QED BY <1>3, <1>4 DEF Commit, Daemon

LEMMA RollbackKeeps ==
  ASSUME IInv, NEW r \in Requests, Rollback(r)
  PROVE  IInv'
<1>1. /\ call[r].at = "rollback" /\ RequestUnchanged /\ UNCHANGED <<table, view>>
      /\ mutex' = [mutex EXCEPT ![call[r].by] = Nobody]
      /\ UNCHANGED open \/ open' = [open EXCEPT ![call[r].by] = FALSE]
      /\ Fault \/ NoFault
  BY DEF Rollback, ReleasesOnError, Unlocks, Daemon, MayEnd, Ends
<1>2. PICK reply \in {Error, Reply("conflict", NoConfig)} : Done(r, reply)
  BY DEF Rollback
<1>3. reply \in AnswerRows /\ reply.kind # "project" /\ reply.config = NoConfig
  BY <1>2 DEF Error, Reply, AnswerRows, Replies
<1>4. TypeOK'
  <2>1. faults' \in 0..MaxFaults
    BY <1>1, FaultType DEF IInv
  <2>2. /\ call' \in [Requests -> CallRows] /\ answer' \in [Requests -> AnswerRows]
        /\ \A q \in Requests : answer'[q].kind = "project" <=> answer'[q].config # NoConfig
    BY <1>2, <1>3, DoneType DEF IInv
  <2>3. mutex' \in [Daemons -> Requests \cup {Nobody}] /\ open' \in [Daemons -> BOOLEAN]
    BY <1>1 DEF IInv, TypeOK
  <2>4. UNCHANGED <<table, job, owner, socket, at, view>>
    BY <1>1 DEF RequestUnchanged, process
  <2>5. QED BY <2>1, <2>2, <2>3, <2>4 DEF IInv, TypeOK, CallRows, AnswerRows
<1>5. QED BY <1>1, <1>2, <1>3, <1>4, ReplyKeeps DEF Holding, Inside

LEMMA ReadKeeps ==
  ASSUME IInv, NEW r \in Requests, Read(r)
  PROVE  IInv'
<1> DEFINE c == Visible(call[r].by)[call[r].project]
<1>1. /\ call[r].at = "read" /\ RequestUnchanged /\ UNCHANGED <<table, open, view>>
      /\ mutex' = [mutex EXCEPT ![call[r].by] = Nobody] /\ faults' = faults
      /\ Done(r, Get(c))
  BY DEF Read, Unlocks, Daemon, NoFault
<1>2. call[r].by \in Daemons /\ call[r].project \in Projects
  BY <1>1, Typed DEF IInv, Calls, Holds, Holding
<1>3. c \in Configs \cup {NoConfig}
  BY <1>2 DEF IInv, TypeOK, Tables, Visible
<1> HIDE DEF c
<1>4. Get(c) \in AnswerRows /\ (Get(c).kind = "project" <=> Get(c).config # NoConfig)
  BY <1>3 DEF Get, Reply, AnswerRows, Replies
<1>5. TypeOK'
  <2>1. /\ call' \in [Requests -> CallRows] /\ answer' \in [Requests -> AnswerRows]
        /\ \A q \in Requests : answer'[q].kind = "project" <=> answer'[q].config # NoConfig
    BY <1>1, <1>4, DoneType DEF IInv
  <2>2. mutex' \in [Daemons -> Requests \cup {Nobody}]
    BY <1>1 DEF IInv, TypeOK
  <2>3. UNCHANGED <<table, job, owner, socket, at, open, view>>
    BY <1>1 DEF RequestUnchanged, process
  <2>4. QED BY <1>1, <2>1, <2>2, <2>3 DEF IInv, TypeOK, CallRows, AnswerRows
<1>6. call[r].config = NoConfig
  BY <1>1 DEF IInv, Calls, Holds
<1>7. QED BY <1>1, <1>4, <1>5, <1>6, ReplyKeeps DEF Holding

LEMMA RespondKeeps ==
  ASSUME IInv, NEW r \in Requests, Respond(r)
  PROVE  IInv'
<1>1. /\ call[r].at = "reply" /\ At(r, "done") /\ RequestUnchanged
      /\ answer' \in {answer, [answer EXCEPT ![r] = Reply("lost", NoConfig)]}
      /\ UNCHANGED <<table, mutex, open, view, faults>>
  BY DEF Respond, NoFault
<1>2. /\ call' \in [Requests -> CallRows] /\ call'[r].at = "done"
      /\ call'[r].project = call[r].project /\ call'[r].config = call[r].config
      /\ \A q \in Requests \ {r} : call'[q] = call[q]
  BY <1>1, Typed DEF IInv, CallRows, At
<1>3. Reply("lost", NoConfig) \in AnswerRows /\ Reply("lost", NoConfig).kind = "lost"
      /\ Reply("lost", NoConfig).config = NoConfig
  BY DEF Reply, AnswerRows, Replies
<1>4. /\ answer' \in [Requests -> AnswerRows]
      /\ \A q \in Requests : answer'[q].kind = "project" <=> answer'[q].config # NoConfig
      /\ \A q \in Requests \ {r} : answer'[q] = answer[q]
      /\ answer'[r] = answer[r] \/ answer'[r].kind = "lost"
  BY <1>1, <1>3, Typed DEF IInv, TypeOK
<1>5. TypeOK'
  BY <1>1, <1>2, <1>4 DEF IInv, TypeOK, CallRows, AnswerRows, RequestUnchanged, process
<1>6. Holds(r)'
  BY <1>2 DEF Holds, Holding, Inside
<1>7. File'
  BY <1>1, <1>2, <1>4, FileKeeps
<1>8. QED BY <1>1, <1>2, <1>4, <1>5, <1>6, <1>7, RequestKeeps

----------------------------------------------------------------------------
(* The invariant and the properties *)

LEMMA InitHolds == Init => IInv
<1>1. SUFFICES ASSUME Init PROVE IInv
  OBVIOUS
<1>2. /\ call \in [Requests -> CallRows] /\ \A r \in Requests : call[r].at = "idle"
  BY <1>1 DEF Init, CallRows
<1>3. /\ answer \in [Requests -> AnswerRows]
      /\ \A r \in Requests : answer[r].kind = "none" /\ answer[r].config = NoConfig
  BY <1>1 DEF Init, AnswerRows, Reply, Replies
<1>4. TypeOK
  <2>1. table \in Tables /\ view \in [Daemons -> Tables]
    BY <1>1 DEF Init, Tables
  <2>2. /\ at \in [Daemons -> {"new", "gone"} \cup Living] /\ open \in [Daemons -> BOOLEAN]
        /\ mutex \in [Daemons -> Requests \cup {Nobody}] /\ faults \in 0..MaxFaults
    BY <1>1, StoreAssumption DEF Init
  <2>3. QED BY <1>1, <1>2, <1>3, <2>1, <2>2 DEF Init, TypeOK, CallRows, AnswerRows
<1>5. Lease
  BY <1>1 DEF Init, Lease, Living
<1>6. Calls
  BY <1>2, <1>3 DEF Calls, Holds, Holding, Inside
<1>7. File
  BY <1>1, <1>3 DEF Init, File, AnsweredIsDurable, NothingElseIsDurable, Registered
<1>8. QED BY <1>4, <1>5, <1>6, <1>7 DEF IInv

LEMMA StepHolds == IInv /\ [Next]_vars => IInv'
<1> SUFFICES ASSUME IInv, [Next]_vars PROVE IInv'
  OBVIOUS
<1>1. ASSUME NEW d \in Daemons, DaemonStep(d) PROVE IInv'
  BY <1>1, DaemonKeeps
<1>2. ASSUME NEW d \in Daemons, Exit(d) PROVE IInv'
  BY <1>2, ExitKeeps
<1>3. CASE (\E d \in Daemons : Admit(d) \/ Finish(d)) \/ Unlink
  BY <1>3, JobKeeps
<1>4. ASSUME NEW r \in Requests, Arrive(r) \/ RequestStep(r) PROVE IInv'
  BY <1>4, ArriveKeeps, LockKeeps, BeginKeeps, BeginFailsKeeps, RegisterKeeps, CommitKeeps,
     RollbackKeeps, ReadKeeps, RespondKeeps DEF RequestStep
<1>5. CASE UNCHANGED vars
  <2>1. /\ UNCHANGED <<table, job, owner, socket, at>>
        /\ UNCHANGED <<mutex, open, view, call, answer, faults>>
    BY <1>5 DEF vars, file, process
  <2>2. TypeOK'
    BY <2>1 DEF IInv, TypeOK
  <2>3. Lease'
    BY <2>1 DEF IInv, Lease
  <2>4. Calls' /\ File'
    BY <2>1, CallsUnmoved
  <2>5. QED BY <2>2, <2>3, <2>4 DEF IInv
<1>6. QED BY <1>1, <1>2, <1>3, <1>4, <1>5 DEF Next, Quiescent

LEMMA Invariance == Spec => []IInv
<1>1. QED BY InitHolds, StepHolds, PTL DEF Spec

(* However many daemons are started on one file, recovery ends only what   *)
(* no process runs.                                                        *)
THEOREM RecoveryIsExclusive == Spec => []RecoveredIsOrphan
<1>1. IInv => RecoveredIsOrphan
  BY DEF IInv, Lease, RecoveredIsOrphan
<1>2. QED BY <1>1, Invariance, PTL

(* Whatever statements fail and whichever daemons exit, the file holds     *)
(* every answered registration and no row of a refused one.                *)
THEOREM FileIsExact == Spec => []FileHoldsAnswered
<1>1. IInv => FileHoldsAnswered
  BY DEF IInv, File, FileHoldsAnswered
<1>2. QED BY <1>1, Invariance, PTL

=============================================================================
