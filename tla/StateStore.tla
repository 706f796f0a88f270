----------------------------- MODULE StateStore -----------------------------
(***************************************************************************)
(* The SQLite state file: daemon processes that compete for its lease,     *)
(* recover it, bind their socket and serve, and the transactions of their  *)
(* connection threads on one shared connection, here those of the project  *)
(* registry.  BEGIN, the action, COMMIT and ROLLBACK are steps, and each   *)
(* may fail.                                                               *)
(***************************************************************************)
EXTENDS Naturals

CONSTANTS
  Daemons,     (* processes: each is started once                          *)
  Projects,    (* project ids                                              *)
  Configs,     (* the rest of a registration                               *)
  NoConfig,    (* no registration                                          *)
  Requests,    (* project_register and project_get calls                   *)
  Nobody,      (* not a request and not a daemon                           *)
  MaxFaults    (* bound: statements that fail                              *)

ASSUME StoreAssumption == /\ NoConfig \notin Configs
                          /\ Nobody \notin Requests \cup Daemons
                          /\ MaxFaults \in Nat

VARIABLES
  (* the state file *)
  table,     (* committed registrations                                    *)
  job,       (* a durable operation, and the daemon that runs its child    *)
  owner,     (* the daemon with the lock on the file                       *)
  (* the file system *)
  socket,    (* the socket path exists                                     *)
  (* per daemon *)
  at,        (* its phase                                                  *)
  mutex,     (* the request whose thread holds the connection              *)
  open,      (* the connection is inside a transaction                     *)
  view,      (* the registrations that transaction sees                    *)
  (* per request *)
  call,      (* what it asks, of whom, and how far it is                   *)
  answer,    (* its reply                                                  *)
  faults

file    == <<table, job>>
process == <<owner, socket, at>>
vars    == <<file, process, mutex, open, view, call, answer, faults>>

----------------------------------------------------------------------------
(* Types *)

Tables  == [Projects -> Configs \cup {NoConfig}]
Replies == {"none", "project", "conflict", "unknown", "error", "refused", "lost"}
Living  == {"leased", "recovered", "serving"}

TypeOK ==
  /\ table \in Tables
  /\ job \in [state : {"none", "running", "ended", "recovered"}, by : Daemons \cup {Nobody}]
  /\ owner \in Daemons \cup {Nobody}
  /\ socket \in BOOLEAN
  /\ at \in [Daemons -> {"new", "gone"} \cup Living]
  /\ mutex \in [Daemons -> Requests \cup {Nobody}]
  /\ open \in [Daemons -> BOOLEAN]
  /\ view \in [Daemons -> Tables]
  /\ call \in [Requests -> [at : {"idle", "lock", "begin", "action", "commit", "rollback",
                                  "read", "reply", "done"},
                            project : Projects, config : Configs \cup {NoConfig},
                            by : Daemons \cup {Nobody}]]
  /\ answer \in [Requests -> [kind : Replies, config : Configs \cup {NoConfig}]]
  /\ faults \in 0..MaxFaults
  /\ \A r \in Requests : answer[r].kind = "project" <=> answer[r].config # NoConfig

Reply(kind, config) == [kind |-> kind, config |-> config]

Init ==
  /\ table = [p \in Projects |-> NoConfig]
  /\ job = [state |-> "none", by |-> Nobody]
  /\ owner = Nobody /\ socket = FALSE
  /\ at = [d \in Daemons |-> "new"]
  /\ mutex = [d \in Daemons |-> Nobody]
  /\ open = [d \in Daemons |-> FALSE]
  /\ view = [d \in Daemons |-> [p \in Projects |-> NoConfig]]
  /\ call \in [Requests -> [at : {"idle"}, project : Projects,
                            config : Configs \cup {NoConfig}, by : {Nobody}]]
  /\ answer = [r \in Requests |-> Reply("none", NoConfig)]
  /\ faults = 0

----------------------------------------------------------------------------
(* A daemon: state/ownership.rs, SqliteState::open, bin/aiopd.rs *)

Phase(d, phase) == at' = [at EXCEPT ![d] = phase]

DaemonUnchanged == UNCHANGED <<mutex, open, view, call, answer, faults>>

(* Mutant: a lock held by another process is no obstacle. *)
LockIgnored == TRUE
LockFree    == owner = Nobody

Acquire(d) ==
  /\ at[d] = "new" /\ LockFree
  /\ owner' = d
  /\ Phase(d, "leased")
  /\ UNCHANGED <<file, socket>> /\ DaemonUnchanged

(* The state file is already owned. *)
AcquireFails(d) ==
  /\ at[d] = "new" /\ ~LockFree
  /\ Phase(d, "gone")
  /\ UNCHANGED <<file, owner, socket>> /\ DaemonUnchanged

(* What an earlier daemon left incomplete is no longer run by anybody.     *)
Recover(d) ==
  /\ at[d] = "leased"
  /\ job' = IF job.state = "running" THEN [job EXCEPT !.state = "recovered"] ELSE job
  /\ Phase(d, "recovered")
  /\ UNCHANGED <<table, owner, socket>> /\ DaemonUnchanged

(* The socket path must not exist. *)
Bind(d) ==
  /\ at[d] = "recovered" /\ ~socket
  /\ socket' = TRUE
  /\ Phase(d, "serving")
  /\ UNCHANGED <<file, owner>> /\ DaemonUnchanged

(* The process ends: it cannot bind its socket, recovery fails, a          *)
(* connection is not accepted or gets no thread, or it crashes.  The lock  *)
(* goes, an unfinished transaction is rolled back, the socket path stays.  *)
Exit(d) ==
  /\ at[d] \in Living
  /\ Phase(d, "gone")
  /\ owner' = IF owner = d THEN Nobody ELSE owner
  /\ mutex' = [mutex EXCEPT ![d] = Nobody]
  /\ open' = [open EXCEPT ![d] = FALSE]
  /\ call' = [r \in Requests |-> IF call[r].by = d /\ call[r].at # "done"
                                 THEN [call[r] EXCEPT !.at = "done"] ELSE call[r]]
  /\ answer' = [r \in Requests |-> IF call[r].by = d /\ call[r].at # "done"
                                   THEN Reply("lost", NoConfig) ELSE answer[r]]
  /\ UNCHANGED <<file, socket, view, faults>>

(* The Owner clears the path, as README.md tells.                          *)
Unlink ==
  /\ socket /\ \A d \in Daemons : at[d] # "serving"
  /\ socket' = FALSE
  /\ UNCHANGED <<file, owner, at>> /\ DaemonUnchanged

(* A serving daemon admits an operation and finishes it: OperationControl. *)
Admit(d) ==
  /\ at[d] = "serving" /\ ~open[d] /\ job.state = "none"
  /\ job' = [state |-> "running", by |-> d]
  /\ UNCHANGED <<table, process>> /\ DaemonUnchanged

Finish(d) ==
  /\ at[d] = "serving" /\ ~open[d] /\ job = [state |-> "running", by |-> d]
  /\ job' = [job EXCEPT !.state = "ended"]
  /\ UNCHANGED <<table, process>> /\ DaemonUnchanged

DaemonStep(d) == Acquire(d) \/ AcquireFails(d) \/ Recover(d) \/ Bind(d)

----------------------------------------------------------------------------
(* A request on its connection thread: Adapter::transaction and read *)

Daemon(r)  == call[r].by
At(r, pc)  == call' = [call EXCEPT ![r].at = pc]
Unlocks(r) == mutex' = [mutex EXCEPT ![Daemon(r)] = Nobody]

(* Mutant: the lock is not given back after a failed statement. *)
KeepsLock(r)  == UNCHANGED mutex
ReleasesOnError(r) == Unlocks(r)

RequestUnchanged == UNCHANGED <<job, process>>

Fault == faults < MaxFaults /\ faults' = faults + 1
NoFault == UNCHANGED faults

Done(r, reply) ==
  /\ At(r, "reply")
  /\ answer' = [answer EXCEPT ![r] = reply]

Error == Reply("error", NoConfig)

Ends(d) == open' = [open EXCEPT ![d] = FALSE]

(* SQLite ends a transaction whose COMMIT or ROLLBACK fails, or leaves it. *)
MayEnd(d) == UNCHANGED open \/ Ends(d)

(* A connection gets a thread.  The line it reads is a request, or not one *)
(* that can be read.                                                       *)
Arrive(r) ==
  /\ call[r].at = "idle"
  /\ \E d \in Daemons :
       /\ at[d] = "serving"
       /\ \/ call' = [call EXCEPT ![r].at = "lock", ![r].by = d] /\ UNCHANGED answer
          \/ /\ call' = [call EXCEPT ![r].at = "reply", ![r].by = d]
             /\ answer' = [answer EXCEPT ![r] = Error]
  /\ UNCHANGED <<table, mutex, open, view>> /\ NoFault /\ RequestUnchanged

(* A registration is a transaction, a get is a read without one.           *)
Lock(r) ==
  /\ call[r].at = "lock" /\ mutex[Daemon(r)] = Nobody
  /\ mutex' = [mutex EXCEPT ![Daemon(r)] = r]
  /\ At(r, IF call[r].config = NoConfig THEN "read" ELSE "begin")
  /\ UNCHANGED <<table, open, view, answer>> /\ NoFault /\ RequestUnchanged

(* Mutant: a transaction that is already open is continued. *)
Continued(d) == FALSE
Nested(d)    == open[d]

Begin(r) ==
  LET d == Daemon(r)
  IN  /\ call[r].at = "begin" /\ ~Nested(d)
      /\ open' = [open EXCEPT ![d] = TRUE]
      /\ view' = IF open[d] THEN view ELSE [view EXCEPT ![d] = table]
      /\ At(r, "action")
      /\ UNCHANGED <<table, mutex, answer>> /\ NoFault /\ RequestUnchanged

(* BEGIN IMMEDIATE inside a transaction is an error, or fails by itself.   *)
BeginFails(r) ==
  /\ call[r].at = "begin"
  /\ IF Nested(Daemon(r)) THEN NoFault ELSE Fault
  /\ Done(r, Error)
  /\ ReleasesOnError(r)
  /\ UNCHANGED <<table, open, view>> /\ RequestUnchanged

(* project::register: the same registration again is answered, another     *)
(* one is a Conflict.                                                      *)
Register(r) ==
  LET d == Daemon(r)  p == call[r].project  c == call[r].config
  IN  /\ call[r].at = "action"
      /\ \/ /\ view[d][p] \in {NoConfig, c}
            /\ view' = [view EXCEPT ![d][p] = c]
            /\ At(r, "commit") /\ NoFault
         \/ /\ view[d][p] \notin {NoConfig, c}
            /\ At(r, "rollback") /\ NoFault /\ UNCHANGED view
         \/ At(r, "rollback") /\ Fault /\ UNCHANGED view
      /\ UNCHANGED <<table, mutex, open, answer>> /\ RequestUnchanged

(* Mutant: the reply does not wait for the COMMIT to succeed. *)
Optimistic(r) == Reply("project", call[r].config)
CommitError(r) == Error

Commit(r) ==
  LET d == Daemon(r)
  IN  /\ call[r].at = "commit"
      /\ \/ /\ table' = view[d] /\ Ends(d)
            /\ Done(r, Reply("project", call[r].config))
            /\ Unlocks(r) /\ NoFault
         \/ /\ Fault /\ UNCHANGED table
            /\ MayEnd(d)
            /\ Done(r, CommitError(r))
            /\ ReleasesOnError(r)
      /\ UNCHANGED view /\ RequestUnchanged

(* The error of the action is the reply, unless the rollback fails.        *)
Rollback(r) ==
  LET d == Daemon(r)
  IN  /\ call[r].at = "rollback"
      /\ \/ /\ Ends(d)
            /\ Done(r, IF view[d][call[r].project] \in {NoConfig, call[r].config}
                       THEN Error ELSE Reply("conflict", NoConfig))
            /\ NoFault
         \/ /\ Fault
            /\ MayEnd(d)
            /\ Done(r, Error)
      /\ ReleasesOnError(r)
      /\ UNCHANGED <<table, view>> /\ RequestUnchanged

(* The connection sees its own unfinished transaction.                     *)
Visible(d) == IF open[d] THEN view[d] ELSE table

Get(c) == Reply(IF c = NoConfig THEN "unknown" ELSE "project", c)

Read(r) ==
  /\ call[r].at = "read"
  /\ Done(r, Get(Visible(Daemon(r))[call[r].project]))
  /\ Unlocks(r)
  /\ UNCHANGED <<table, open, view>> /\ NoFault /\ RequestUnchanged

(* Control has handled the request: the response is written, or cannot be. *)
Respond(r) ==
  /\ call[r].at = "reply"
  /\ At(r, "done")
  /\ answer' \in {answer, [answer EXCEPT ![r] = Reply("lost", NoConfig)]}
  /\ UNCHANGED <<table, mutex, open, view>> /\ NoFault /\ RequestUnchanged

RequestStep(r) ==
  \/ Lock(r) \/ Begin(r) \/ BeginFails(r) \/ Register(r)
  \/ Commit(r) \/ Rollback(r) \/ Respond(r) \/ Read(r)

----------------------------------------------------------------------------

(* No process is left, or one with nothing to do.                          *)
Quiescent ==
  /\ \A r \in Requests : call[r].at \in {"idle", "done"}
  /\ UNCHANGED vars

Next ==
  \/ \E d \in Daemons : DaemonStep(d) \/ Exit(d) \/ Admit(d) \/ Finish(d)
  \/ \E r \in Requests : Arrive(r) \/ RequestStep(r)
  \/ Unlink \/ Quiescent

Spec == Init /\ [][Next]_vars

(* The scheduler runs the threads of a process that lives.                 *)
FairSpec == Spec /\ \A r \in Requests : WF_vars(RequestStep(r))

----------------------------------------------------------------------------
(* Properties *)

(* Recovery ends only what no process runs: a second daemon on the same    *)
(* file, started at any moment of the first, recovers nothing of it.       *)
RecoveredIsOrphan == job.state = "recovered" => at[job.by] = "gone"

(* A registration that was answered is in the file, with that              *)
(* configuration, whatever fails or exits later.                           *)
Registered(r) == call[r].config # NoConfig /\ answer[r].kind = "project"

AnsweredIsDurable == \A r \in Requests : Registered(r) => table[call[r].project] = call[r].config

(* Rows of a transaction that was answered with an error stay out of the   *)
(* file: a later COMMIT never takes them along.  Only the registrations    *)
(* that were answered, or whose answer was lost, are there.                *)
NothingElseIsDurable ==
  \A p \in Projects : table[p] # NoConfig =>
    \E r \in Requests : /\ call[r].project = p /\ call[r].config = table[p]
                        /\ answer[r].kind \in {"project", "lost"}

(* The file holds what was answered, and nothing else.                     *)
FileHoldsAnswered == TypeOK /\ AnsweredIsDurable /\ NothingElseIsDurable

(* Every request ends, with an answer or with its daemon: no failure of a  *)
(* statement leaves the others waiting for the connection.                 *)
EveryCallEnds == \A r \in Requests : call[r].at = "lock" ~> call[r].at = "done"

=============================================================================
