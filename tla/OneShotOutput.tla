--------------------------- MODULE OneShotOutput ---------------------------
(***************************************************************************)
(* A running one-shot operation from the lines of its child to its durable *)
(* outcome: the prompt writer, the pipes, the observation loop of Target   *)
(* with its evidence, the diagnostics channel and its recorder, the        *)
(* terminal transition, and clients that follow operation_diagnostics      *)
(* from their cursor.                                                      *)
(*                                                                         *)
(* OperationControl has what precedes, the claim, and kills that fail.     *)
(* Here the child is spawned, Running is durable and permission is given.  *)
(* A line of output is read when its newline is.                           *)
(***************************************************************************)
EXTENDS Naturals, Sequences, SequencesExt

CONSTANTS
  Clients,     (* readers of the diagnostics                               *)
  Kinds,       (* the lines the child may write                            *)
  Prompt,      (* frames of the prompt                                     *)
  StdinRoom,   (* frames that stdin holds before a write blocks            *)
  StdoutRoom,  (* lines that stdout holds before the child blocks          *)
  MaxLines,    (* bound: lines of the child                                *)
  MaxTroubles  (* bound: cancellations, daemon crashes, and failing reads  *)
               (* of output and writes of State                            *)

(* What a line is to Target.  `foreign` stands for every line that is      *)
(* refused for itself: no JSON, another session or model, a result without *)
(* its fields; `garbled` for bytes that are not text; `failure` for a      *)
(* result with is_error.                                                   *)
AllKinds    == {"init", "foreign", "garbled", "result", "failure", "retry", "bad_retry",
                "auth", "other"}
Diagnostics == {"provider_retrying", "authentication_failed", "diagnostic_unclassified"}

ASSUME OutputAssumption ==
  /\ Kinds \subseteq AllKinds
  /\ {Prompt, MaxLines, MaxTroubles} \subseteq Nat
  /\ {StdinRoom, StdoutRoom} \subseteq Nat \ {0}

VARIABLES
  (* State *)
  op,          (* the state of the operation                               *)
  rows,        (* operation_diagnostics, in the order of their sequence    *)
  (* the prompt writer and the child *)
  unwritten,   (* frames the writer still has                              *)
  writer,      (* its state, or its result                                 *)
  stdin, stdout,
  child,
  owes,        (* the child is writing a line                              *)
  said,        (* history: every line it has written                       *)
  (* Target *)
  target,      (* program counter of the observation loop                  *)
  buffer,      (* complete lines in the pump                               *)
  evidence,    (* what the lines have established                          *)
  outcome,     (* what execute returns                                     *)
  cancel,      (* cancel_requested of the gate                             *)
  (* Control *)
  channel,     (* diagnostics on their way to the recorder                 *)
  recorder, worker, refusal,
  (* clients *)
  stopped,     (* clients that were told of the end                        *)
  received,    (* per client: the rows it has                              *)
  up, troubles

durable == <<op, rows>>
pipes   == <<unwritten, writer, stdin>>
agent   == <<stdout, child, owes, said>>
loop    == <<target, buffer, evidence, outcome>>
control == <<channel, recorder, worker, refusal>>
readers == <<stopped, received>>
vars    == <<durable, pipes, agent, loop, cancel, control, readers, up, troubles>>

----------------------------------------------------------------------------
(* Types *)

Outcomes == {"Succeeded", "Failed", "Cancelled", "Indeterminate"}
Items    == [seq : Nat \ {0}, payload : Diagnostics]

TypeOK ==
  /\ op \in {"Running"} \cup Outcomes
  /\ rows \in Seq(Items) /\ \A i \in DOMAIN rows : rows[i].seq = i
  /\ unwritten \in 0..Prompt /\ stdin \in 0..StdinRoom
  /\ writer \in {"writing", "written", "broken"}
  /\ stdout \in Seq(Kinds) /\ Len(stdout) <= StdoutRoom
  /\ child \in {"alive", "killed", "exited_ok", "exited_bad", "orphan"}
  /\ said \in Seq(Kinds)
  /\ target \in {"poll", "lines", "status", "verdict", "returned"}
  /\ buffer \in Seq(Kinds)
  /\ evidence \subseteq {"init", "result", "failure", "ambiguous"}
  /\ outcome \in Outcomes \cup {"nothing"}
  /\ channel \in Seq(Diagnostics)
  /\ recorder \in {"receiving", "failed", "done"} /\ worker \in {"executing", "done"}
  /\ {owes, cancel, refusal, up} \subseteq BOOLEAN
  /\ stopped \subseteq Clients
  /\ received \in [Clients -> Seq(Items)]
  /\ troubles \in 0..MaxTroubles

Init ==
  /\ op = "Running" /\ rows = <<>>
  /\ unwritten = Prompt /\ writer = "writing" /\ stdin = 0
  /\ stdout = <<>> /\ child = "alive" /\ owes = FALSE /\ said = <<>>
  /\ target = "poll" /\ buffer = <<>> /\ evidence = {} /\ outcome = "nothing"
  /\ cancel = FALSE
  /\ channel = <<>> /\ recorder = "receiving" /\ worker = "executing" /\ refusal = FALSE
  /\ stopped = {} /\ received = [c \in Clients |-> <<>>]
  /\ up = TRUE /\ troubles = 0

----------------------------------------------------------------------------
(* The prompt writer: target/prompt_input.rs *)

WriterUnchanged ==
  UNCHANGED <<durable, agent, loop, cancel, control, readers, up, troubles>>

WritePrompt ==
  /\ up /\ writer = "writing" /\ child = "alive"
  /\ IF unwritten = 0 THEN writer' = "written" /\ UNCHANGED <<unwritten, stdin>>
     ELSE /\ stdin < StdinRoom
          /\ unwritten' = unwritten - 1 /\ stdin' = stdin + 1
          /\ UNCHANGED writer
  /\ WriterUnchanged

(* A broken pipe: the child has exited, or has closed its stdin.           *)
WritePromptFails ==
  /\ up /\ writer = "writing"
  /\ writer' = "broken"
  /\ UNCHANGED <<unwritten, stdin>> /\ WriterUnchanged

WriterStep == WritePrompt \/ (child # "alive" /\ WritePromptFails)

----------------------------------------------------------------------------
(* The child, an external program *)

ChildUnchanged == UNCHANGED <<durable, unwritten, writer, loop, cancel, control, readers, up, troubles>>

Lives == up /\ child = "alive"

ReadsPrompt ==
  /\ Lives /\ ~owes /\ stdin > 0
  /\ stdin' = stdin - 1
  /\ UNCHANGED agent /\ ChildUnchanged

Speaks ==
  /\ Lives /\ ~owes /\ Len(said) < MaxLines
  /\ owes' = TRUE
  /\ UNCHANGED <<stdin, stdout, child, said>> /\ ChildUnchanged

(* A write to a full pipe blocks the child. *)
Emits ==
  /\ Lives /\ owes /\ Len(stdout) < StdoutRoom
  /\ \E line \in Kinds : stdout' = Append(stdout, line) /\ said' = Append(said, line)
  /\ owes' = FALSE
  /\ UNCHANGED <<stdin, child>> /\ ChildUnchanged

Finishes ==
  /\ Lives /\ ~owes /\ writer # "writing" /\ stdin = 0
  /\ child' = "exited_ok"
  /\ UNCHANGED <<stdin, stdout, owes, said>> /\ ChildUnchanged

Exits ==
  /\ Lives
  /\ child' \in {"exited_ok", "exited_bad"}
  /\ UNCHANGED <<stdin, stdout, owes, said>> /\ ChildUnchanged

Dies ==
  /\ up /\ child = "killed"
  /\ child' = "exited_bad"
  /\ UNCHANGED <<stdin, stdout, owes, said>> /\ ChildUnchanged

ChildStep == ReadsPrompt \/ Emits \/ Finishes

----------------------------------------------------------------------------
(* Lines: target/stream.rs and interpret *)

(* The evidence of a batch stops at the first line that is an error; the   *)
(* rest of the batch is lost, all of it when it is not text.               *)
FirstError(batch) == SelectInSeq(batch, LAMBDA l : l \in {"foreign", "failure"})

Taken(batch) ==
  CASE "garbled" \in Range(batch) -> <<>>
    [] "garbled" \notin Range(batch) /\ FirstError(batch) = 0 -> batch
    [] OTHER -> SubSeq(batch, 1, FirstError(batch) - 1)

Errors(batch) ==
  CASE "garbled" \in Range(batch)  -> {"ambiguous"}
    [] Taken(batch) = batch        -> {}
    [] OTHER -> {IF batch[FirstError(batch)] = "failure" THEN "failure" ELSE "ambiguous"}

(* Mutant: an error counts for the batch that had it.                      *)
Forgets(batch)     == (evidence \cap {"init", "result"}) \cup
                      (Range(Taken(batch)) \cap {"init", "result"}) \cup Errors(batch)
Established(batch) == evidence \cup (Range(Taken(batch)) \cap {"init", "result"}) \cup Errors(batch)

(* diagnostic, retry_diagnostic: a retry with impossible numbers is one    *)
(* that is not classified.                                                 *)
DiagnosticOf ==
  [retry |-> "provider_retrying", auth |-> "authentication_failed",
   bad_retry |-> "diagnostic_unclassified"]
DiagnosticsIn(lines) ==
  LET upTo[n \in 0..Len(lines)] ==
        IF n = 0 THEN <<>>
        ELSE upTo[n - 1] \o (IF lines[n] \in DOMAIN DiagnosticOf
                             THEN <<DiagnosticOf[lines[n]]>> ELSE <<>>)
  IN  upTo[Len(lines)]

----------------------------------------------------------------------------
(* Target: ClaudeTarget::observe *)

TargetUnchanged ==
  UNCHANGED <<durable, pipes, owes, said, cancel, recorder, worker, refusal, readers, up>>
NoFault == UNCHANGED troubles
Fault   == troubles < MaxTroubles /\ troubles' = troubles + 1

Killed == IF child = "alive" THEN "killed" ELSE child

(* Mutant: the output is read when the prompt has been written. *)
PromptFirst == target = "poll" /\ writer # "writing"
Polls       == target = "poll"

Poll ==
  /\ up /\ Polls
  /\ buffer' = buffer \o stdout /\ stdout' = <<>>
  /\ target' = "lines"
  /\ UNCHANGED <<child, evidence, outcome, channel>> /\ NoFault /\ TargetUnchanged

(* stdout is read before stderr: its lines may be there when a read fails. *)
PollFails ==
  /\ up /\ Polls /\ Fault
  /\ \/ buffer' = buffer \o stdout /\ stdout' = <<>>
     \/ UNCHANGED <<buffer, stdout>>
  /\ evidence' = evidence \cup {"ambiguous"}
  /\ child' = Killed
  /\ target' = "lines"
  /\ UNCHANGED <<outcome, channel>> /\ TargetUnchanged

(* A diagnostic for a recorder that is gone is dropped.                    *)
Sent(lines) == IF recorder = "receiving" THEN channel \o DiagnosticsIn(lines) ELSE channel

(* An error kills the child, and the loop goes on until it has exited.     *)
Interpret ==
  /\ up /\ target = "lines"
  /\ evidence' = Established(buffer)
  /\ channel' = Sent(Taken(buffer))
  /\ child' = IF Errors(buffer) = {} THEN child ELSE Killed
  /\ buffer' = <<>>
  /\ target' = "status"
  /\ UNCHANGED <<stdout, outcome>> /\ NoFault /\ TargetUnchanged

HasExited == child \in {"exited_ok", "exited_bad"}

StillRuns ==
  /\ up /\ target = "status" /\ ~HasExited
  /\ child' = IF cancel THEN Killed ELSE child
  /\ target' = "poll"
  /\ UNCHANGED <<stdout, buffer, evidence, outcome, channel>> /\ NoFault /\ TargetUnchanged

StatusFails ==
  /\ up /\ target = "status" /\ Fault
  /\ evidence' = evidence \cup {"ambiguous"}
  /\ child' = Killed
  /\ target' = "poll"
  /\ UNCHANGED <<stdout, buffer, outcome, channel>> /\ TargetUnchanged

(* Mutant: what was written since the last poll is not read. *)
Unread   == <<>>
LastLines == stdout

(* The exit was seen before the rest is read: nothing is written later.    *)
HasEnded ==
  /\ up /\ target = "status" /\ HasExited
  /\ \/ /\ evidence' = Established(LastLines)
        /\ channel' = Sent(Taken(LastLines))
        /\ NoFault
     \/ \E lines \in {<<>>, LastLines} :
        /\ evidence' = Established(lines) \cup {"ambiguous"}
        /\ channel' = Sent(Taken(lines))
        /\ Fault
  /\ stdout' = <<>>
  /\ target' = "verdict"
  /\ UNCHANGED <<child, buffer, outcome>> /\ TargetUnchanged

(* Mutant: the exit status is looked at before the errors of the output. *)
StatusFirst ==
  CASE cancel                         -> "Cancelled"
    [] ~cancel /\ (child = "exited_bad" \/ "failure" \in evidence) -> "Failed"
    [] OTHER -> IF "ambiguous" \in evidence \/ writer # "written"
                   \/ ~({"init", "result"} \subseteq evidence)
                THEN "Indeterminate" ELSE "Succeeded"
Verdict ==
  CASE cancel                                      -> "Cancelled"
    [] ~cancel /\ "failure" \in evidence           -> "Failed"
    [] ~cancel /\ evidence \cap {"failure", "ambiguous"} = {"ambiguous"} -> "Indeterminate"
    [] ~cancel /\ evidence \cap {"failure", "ambiguous"} = {} /\ child = "exited_bad" -> "Failed"
    [] OTHER -> IF writer = "written" /\ {"init", "result"} \subseteq evidence
                THEN "Succeeded" ELSE "Indeterminate"

(* Only a child that ended well is worth waiting for the prompt writer.    *)
JoinsWriter == ~cancel /\ child = "exited_ok" /\ evidence \cap {"failure", "ambiguous"} = {}

Returns ==
  /\ up /\ target = "verdict" /\ (JoinsWriter => writer # "writing")
  /\ outcome' = Verdict
  /\ target' = "returned"
  /\ UNCHANGED <<stdout, child, buffer, evidence, channel>> /\ NoFault /\ TargetUnchanged

TargetStep == Poll \/ Interpret \/ StillRuns \/ HasEnded \/ Returns

----------------------------------------------------------------------------
(* Control: the recorder, the worker and operation_cancel *)

ControlUnchanged == UNCHANGED <<pipes, agent, loop, readers, up>>

Cancel ==
  /\ up /\ ~refusal /\ worker = "executing" /\ Fault
  /\ cancel' = TRUE
  /\ UNCHANGED <<durable, pipes, agent, loop, control, readers, up>>

(* Mutant: the sequence counts the diagnostics of this daemon from zero. *)
FromZero     == Len(rows)
NextSequence == Len(rows) + 1

(* diagnostic::record: only while the operation is running.                *)
Record ==
  /\ up /\ recorder = "receiving" /\ channel # <<>> /\ op = "Running"
  /\ rows' = Append(rows, [seq |-> NextSequence, payload |-> Head(channel)])
  /\ channel' = Tail(channel)
  /\ UNCHANGED <<op, recorder, worker, refusal, cancel>> /\ NoFault /\ ControlUnchanged

(* The operation is cancelled, and its worker will know why.               *)
RecordFails ==
  /\ up /\ recorder = "receiving" /\ channel # <<>>
  /\ IF op = "Running" THEN Fault ELSE NoFault
  /\ recorder' = "failed" /\ cancel' = TRUE
  /\ channel' = <<>>
  /\ UNCHANGED <<durable, worker, refusal>> /\ ControlUnchanged

(* execute has returned and dropped the sender.                            *)
RecorderEnds ==
  /\ up /\ recorder = "receiving" /\ channel = <<>> /\ target = "returned"
  /\ recorder' = "done"
  /\ UNCHANGED <<durable, channel, worker, refusal, cancel>> /\ NoFault /\ ControlUnchanged

(* Mutant: the outcome does not wait for the recorder. *)
NotFailed == recorder # "failed"
Joined    == recorder = "done"

Settle ==
  /\ up /\ worker = "executing" /\ target = "returned" /\ Joined
  /\ \/ op' = outcome /\ NoFault /\ UNCHANGED refusal
     \/ Fault /\ refusal' = TRUE /\ UNCHANGED op
  /\ worker' = "done"
  /\ UNCHANGED <<rows, channel, recorder, cancel>> /\ ControlUnchanged

SettleFails ==
  /\ up /\ worker = "executing" /\ target = "returned" /\ recorder = "failed"
  /\ refusal' = TRUE /\ worker' = "done"
  /\ UNCHANGED <<durable, channel, recorder, cancel>> /\ NoFault /\ ControlUnchanged

ControlStep == Record \/ RecorderEnds \/ Settle \/ SettleFails

----------------------------------------------------------------------------
(* operation_diagnostics: control/diagnostic.rs *)

ReaderUnchanged == UNCHANGED <<durable, pipes, agent, loop, cancel, control, up, troubles>>

Served == up /\ ~refusal
Cursor(c) == IF received[c] = <<>> THEN 0 ELSE Last(received[c]).seq

(* Mutant: the row at the cursor is sent again. *)
FromCursor(after) ==
  SubSeq(rows, Cardinality({i \in DOMAIN rows : rows[i].seq < after}) + 1, Len(rows))
RowsAfter(after)  ==
  SubSeq(rows, Cardinality({i \in DOMAIN rows : rows[i].seq <= after}) + 1, Len(rows))

(* Mutant: the operation counts as ended when Target has returned. *)
ReturnedOrEnded == op \in Outcomes \/ target = "returned"
HasTerminated   == op \in Outcomes

(* diagnostic::snapshot, operation and rows in one read, when there is     *)
(* something to tell or the deadline has come.  A reply that is lost is no *)
(* step: the client asks again from the same cursor.                       *)
Answer(c) ==
  /\ Served /\ c \notin stopped
  /\ received' = [received EXCEPT ![c] = @ \o RowsAfter(Cursor(c))]
  /\ stopped' = IF HasTerminated THEN stopped \cup {c} ELSE stopped
  /\ ReaderUnchanged

----------------------------------------------------------------------------
(* The daemon *)

(* What is not durable is gone; the child is nobody's.                     *)
Crash ==
  /\ up /\ Fault
  /\ up' = FALSE /\ refusal' = FALSE
  /\ child' = IF HasExited THEN child ELSE "orphan"
  /\ channel' = <<>> /\ buffer' = <<>>
  /\ UNCHANGED <<durable, pipes, stdout, owes, said, target, evidence, outcome, cancel,
                 recorder, worker, readers>>

(* Recovery; what the earlier daemon ran is over.                          *)
Restart ==
  /\ ~up
  /\ up' = TRUE
  /\ op' = IF op = "Running" THEN "Indeterminate" ELSE op
  /\ target' = "returned" /\ recorder' = "done" /\ worker' = "done"
  /\ writer' = "broken"
  /\ UNCHANGED <<rows, unwritten, stdin, agent, buffer, evidence, outcome, cancel, channel,
                 refusal, readers, troubles>>

Quiescent ==
  /\ worker = "done" /\ up
  /\ refusal \/ stopped = Clients
  /\ UNCHANGED vars

Next ==
  \/ WritePrompt \/ WritePromptFails
  \/ Speaks \/ Exits \/ ChildStep \/ Dies
  \/ TargetStep \/ PollFails \/ StatusFails
  \/ Cancel \/ ControlStep \/ RecordFails
  \/ \E c \in Clients : Answer(c)
  \/ Crash \/ Restart \/ Quiescent

Spec == Init /\ [][Next]_vars

(* Threads run, and SIGKILL works.                                         *)
FairSpec ==
  /\ Spec
  /\ WF_vars(WriterStep) /\ WF_vars(TargetStep) /\ WF_vars(ControlStep)
  /\ WF_vars(Dies)

----------------------------------------------------------------------------
(* Properties *)

Happened(kind) == \E i \in DOMAIN said : said[i] = kind

(* Succeeded stands on everything the child wrote: an init and a result of *)
(* the intended session, no line that contradicts them before, between or  *)
(* after, and the whole prompt written, whenever the lines were read.      *)
SuccessIsEvidenced ==
  op = "Succeeded" =>
    /\ Happened("init") /\ Happened("result")
    /\ ~Happened("foreign") /\ ~Happened("garbled") /\ ~Happened("failure")
    /\ unwritten = 0

(* A successful operation has a row for each diagnostic its child wrote,   *)
(* in order and once: written before the outcome, and the last lines       *)
(* between the last poll and the exit among them.                          *)
SuccessHasDiagnostics ==
  op = "Succeeded" => [i \in DOMAIN rows |-> rows[i].payload] = DiagnosticsIn(said)

(* Nothing the child wrote is missing from a success.                      *)
SuccessIsComplete == SuccessIsEvidenced /\ SuccessHasDiagnostics

(* Failed is what the provider said or how the child ended by itself; a    *)
(* child that Target killed over ambiguous output is not a failed one.     *)
FailedIsProven ==
  op = "Failed" => Happened("failure") \/ "ambiguous" \notin evidence

(* A client holds the first rows, in order and once, and stops with the    *)
(* first snapshot of a terminal operation: it has every row then, for ever,*)
(* over lost replies and restarts of the daemon.                           *)
ReadersHoldRows ==
  /\ TypeOK
  /\ \A c \in Clients : /\ IsPrefix(received[c], rows)
                        /\ c \in stopped => received[c] = rows

(* A child that reads, finishes the lines it has begun and ends by itself  *)
(* ends its operation, unless the daemon ends: prompt, output and the exit *)
(* never wait for each other, however small the pipes are, and whatever    *)
(* the lines say.                                                          *)
RunEnds == WF_vars(ChildStep) => (op = "Running" ~> (op # "Running" \/ refusal \/ ~up))

=============================================================================
