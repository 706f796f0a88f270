# Verification of AI Agent Operator

TLA+ models of the daemon `aiopd` (Rust, `src/src`): how it admits work on a
Claude session, runs the direct Claude child, makes every outcome durable in
SQLite, and comes back after a crash. TLC checks the models on small instances;
TLAPS proves the central results for every instance. `PROJECT.json` maps each
definition to the lines it stands for, and lists runs, mutants, hazards,
findings and theorems.

    tlc -workers 2 -config OpContention.cfg MCOperationControl
    tlapm OperationControl_proofs.tla

## 1. Inventory

| part | source (`src/src/`) | state it keeps | operations |
|---|---|---|---|
| State: operations, claims | `state/operation.rs`, `session_claim.rs`, `sqlite.rs` | `operations`, `active_sessions` | admission, transition, recovery; one transaction under one mutex each |
| State: conversations | `state/conversation.rs`, `conversation_turn.rs` | `conversations`, `conversation_turns` | start, turn admission, turn transition, close, terminalize, recovery |
| State: timelines | `state/conversation_timeline.rs`, `diagnostic.rs` | numbered rows per conversation and per operation | append, cursor read |
| State: bindings, projects, ownership | `state/initiator_binding.rs`, `project.rs`, `ownership.rs` | bindings, projects, a file lock | insert if absent, read |
| Control: one-shot operations | `control/operation.rs`, `runtime.rs`, `session_writer.rs` | gate slots with a cancellation flag, the refusal latch, three threads per operation | start, cancel, wait, diagnostics |
| Control: conversations | `control/conversation.rs` | one observation thread per conversation | start, send, stop, wait |
| Control: decisions | `control/session_decision.rs`, `initiator_binding.rs`, `session_inventory.rs` | none | register, decide, list |
| Target: one-shot | `target/execution.rs`, `child.rs`, `stream.rs`, `output.rs`, `prompt_input.rs` | the child table | execute |
| Target: live | `target/conversation.rs`, `conversation_input.rs`, `conversation_codec.rs` | handles, admitted turns, turn phases; writer and observer threads | start_live, send_live, stop_live |
| Ingress and gateway | `control/ingress.rs`, `gateway/*`, `bin/*` | none | one thread per connection; a stateless MCP projection |

How they interact. Requests of any kind run concurrently, one thread per
connection. Control calls State (a transaction) and Target (threads and a
child process) and never holds a lock across two calls. A one-shot start
spawns a *worker*, which spawns a *recorder* and runs Target; starter and
worker hand over through three channels (`launch_report`,
`running_permission`, `completion`). A conversation start launches a *writer*
and an *observer* in Target and an observation thread in Control, joined by
the command, report and observation channels. `operation_cancel` reaches a
one-shot worker through the gate flag and a conversation through its handle.
A crash loses all threads and channels but neither SQLite nor the children.

What is hard: four threads write to one operation; the terminal write must
follow the exit of the child; a turn or conversation is durable before Target
knows of it and the other way round at the end; every kill, wait, thread
creation and State call may fail; every join and receive may block. The
correctness of each part in one line:

- *claim*: a session has at most one child that may write to it, over crashes;
- *one-shot*: one launch per request, prompt after durable Running, complete
  diagnostics before the terminal state, nobody waits for ever, no spurious
  refusal;
- *conversation*: conversation, operation and turns end together and agree;
  admitted turns are written before a graceful close; one turn is active;
  cancellation and exit always settle;
- *live runtime*: whatever the child writes, Control receives a sequence its
  durable turns can apply; a child that keeps the protocol is believed;
- *one-shot output*: a success stands on everything the child wrote, diagnostics
  included;
- *timelines*: events and tables tell the same, and a client that resumes from
  its cursor misses and repeats nothing;
- *decisions*: what is resumed is bound and proven, what is bound is resumed;
- *state file*: recovery ends only what nobody runs, and the file holds what was
  answered and nothing of what was refused, also when COMMIT or ROLLBACK fail;
- *failures*: a durable-state failure refuses later requests.

`PROJECT.json` "hazards" lists these at their lines.

## 2. Modules

Abstract specifications, each implemented by a detailed module:

| module | promises | implemented by |
|---|---|---|
| `SessionWriter` | a Claude session has one writer, and gives nothing back without proof | `OperationControl`, `LiveConversation` |
| `LiveObservations` | the observations that Control gets of a live child: queued, started, completed, once each, one turn at a time, one end | `LiveRuntime` |
| `CursorStream` | a log that grows, ends with a final item, and of which each client holds a prefix | `Timeline` |

Detailed modules:

| module | models |
|---|---|
| `OperationControl` | one-shot operations, from admission to terminal state, with crash and recovery |
| `LiveConversation` | one conversation: Control, State and Target of the live path |
| `LiveRuntime` | inside Target: the writer thread, the pipes and the child, the report channel, the observer and its codec |
| `OneShotOutput` | a running one-shot child: prompt, pipes, polling, evidence, exit, diagnostics, terminal transition, readers |
| `Timeline` | the events of a conversation with the tables they are written with, failed COMMITs, and clients of `conversation_wait` |
| `SessionDecision` | `initiator_binding_register` and `session_decide` as the transactions they are made of |
| `StateStore` | the lock on the state file, the phases of `aiopd`, and transactions statement by statement |
| `MCOperationControl`, `MCLiveConversation`, `MCSessionDecision` | symmetry and model values for TLC |
| `*_proofs` | theorems about the module they are named after; `Promises_proofs` about the three abstract ones |

**OperationControl.** `opState`, `opSession`, `claim`, `recorded` are the
tables; `child`, `spawns` the operating system; the rest is daemon memory,
which `Crash` resets. `starter[r]` and `worker[r]` are the positions of the two
threads of request `r` between two calls that another thread could notice, and
the module has one action for each such call. A State call commits
(`Transition`) or returns an error (`TransitionErr`: not permitted, or the
environment fails it), and the action contains what the caller does next in
both cases. `Restart` is recovery. A request is its own operation, as the
request UUID is the primary key.

**LiveConversation.** Turns are named by their durable position. `conv`,
`closeMode`, `op`, `turn`, `claimed` are the records; `handle`, `admitted`,
`graceful`, `broken`, `cancelled` the Target handle; `commands`, `permission`,
`channel` the channels; `starter`, `sender[p]`, `stopper[m]`, `ctl`, `writer`,
`target` the threads. `ctl` is Control's observation thread, `target` is
Target's observer. `sender[p]` is the thread that sends turn `p`: senders
deliver out of order, which is what the writer's reordering is for.

**LiveRuntime** looks into what `LiveConversation` takes as one step, the
observer's loop. `reports` is the channel from the writer, `stdin` and `stdout`
are pipes with room for `StdinRoom` frames and `StdoutRoom` lines, `buffer`
holds the lines of one poll, `initialized` and `phase` are the codec, `work` is
what the child owes the turn it works on. A turn is written to stdin before
its report is read, so its answer may be in `buffer` first; the two
`consume_reports` of the loop, before and after the poll, are two steps. A
child that departs from the protocol (`Departs`, `Rambles`) writes any line at
any time or stops. `observations` is what Control receives, the variable of
`LiveObservations`.

**OneShotOutput.** The child writes lines of the kinds that `Evidence` tells
apart. `target` is the position in the loop of `observe`: poll, interpret,
cancellation, exit, last lines. `evidence` accumulates, `channel` carries
diagnostics to the recorder, which writes `rows`; the worker joins it before
the terminal transition. Clients read `rows` after their cursor with a snapshot
that also says whether the operation is over.

**Timeline.** The tables of the conversation are one record, `disk` as
committed and `mem` as the connection sees it: they differ only when a COMMIT
has failed and the transaction is still open (`open`). A transaction is one
step from `mem` to the record it leaves, with the events it appends in the same
record; `Appended` numbers them and fails at `MaxSequence`. `observer` is
Control's thread. After an observation it could not apply, it stops the child
and ends the conversation (`GiveUp`), unless it reads that it is over
(`FindsEnded`), and tries once more behind its loop (`EndsUnfinished`). The
error of State latches `refusal` only if the stop succeeds (`stateError`); a
contradicted identity and a failed verdict, whose runtime is gone, never do
(`otherError`); an end that fails always does.

**SessionDecision.** `op` and `binding` are the tables; a request advances
through `call[r].at` by one read or write at a time, so operations end and other
requests register between two of its reads. `boundThen` is history.

**StateStore.** `table` is the registry of projects, standing for every table
that is written by `Adapter::transaction`; `job` is one durable operation with
the daemon that runs it. `at[d]` is the phase of daemon `d`, `mutex[d]`,
`open[d]`, `view[d]` its connection. BEGIN, the action, COMMIT and ROLLBACK
are steps that may fail; a COMMIT or ROLLBACK that fails may or may not leave
the transaction open.

### How they fit together

`OperationControl` and `LiveConversation` share the claim table: each takes the
other as one more holder, which is what `SessionWriter` says. What a one-shot
child can make Target return is a free choice in `OperationControl`, and
`OneShotOutput` says which choice its output permits. `LiveConversation` lets
Target send any observation in the order of `LiveObservations`, and
`LiveRuntime` shows that no child can make it send another. `Timeline` takes
the observations in that order and adds the rows. `StateStore` says what
"a transaction" and "a crash" mean in the other modules: a failed State call
there is an error without effect, and a crash loses memory, not the tables.

### Abstractions

- Names, prompts, messages and JSON are not modelled. A line of a child is
  what the interpreter makes of it; a line refused for itself is one kind.
- Bytes are not modelled: a line is read when its newline is.
- Reads that return a snapshot to a client and change nothing are left out
  unless their failure changes the path, or a client's progress depends on them
  (`Timeline`, `OneShotOutput`).
- A poisoned mutex needs a panic under a lock; none is modelled. The one panic
  that the code can reach from its environment is (`PromptWriterFails`).
- A conversation's slot in the runtime gate is never read (its cancellation goes
  through Target) and is left out.
- In `LiveConversation` a line of the child is read when it is printed
  (`LiveRuntime` has the channel and the pipe apart). The permission is never
  refused there, only dropped. The launch of the live child, its registration
  and the start of writer and observer are one step, since no other thread can
  tell them apart but by the handle; so are the flag, the writer command and the
  kill of a cancellation. In `LiveRuntime` the cancellation is in steps, turns
  arrive in order, and kill and wait succeed: `LiveConversation` has the
  opposite.
- A lost reply of a cursor read is no step of `OneShotOutput`: the client did
  not move. `Timeline` has the request, the answer and its loss apart.

## 3. Runs

Bounds are in the configs: `MaxDiagnostics`, `MaxTurns`, `MaxLines`, `Prompt`
for the size; `MaxFaults` for failed calls and statements, `MaxCrashes`;
`MaxTroubles` for crashes, failures and cancellations together; `MaxStrays` for
departures of a child from the protocol; `MaxChatter` for events that change no
turn; `UnprovenExit` for whether a kill or wait may fail.

| run | instance | shows |
|---|---|---|
| `op_contention` | 2 requests, 1 session, 1 fault, 1 crash; symmetric | `SingleWriter`, `ClaimCoversChild`, `WriterClaimAgreement`, `ClaimHandover`; refinement of `SessionWriter` |
| `op_failures` | 1 request, 2 diagnostics, 2 faults, 2 crashes, unproven exits; fair | `AtMostOneLaunch`, `PromptAfterDurableRunning`, `DiagnosticsBeforeTerminal`, `RefusalHasCause`, `StartAnswered`, `CancelSettles` |
| `live_safety` | 2 turns, 1 fault, 1 crash, unproven exits | `RecordsAgree`, `WriterIsClaimed`, `InputIsDurable`, `RefusalHasCause`; refinement of `SessionWriter` |
| `live_ordering` | 3 turns, no faults | `CloseCoversTurns`, `CloseDrainsInput` |
| `live_liveness` | 2 turns, no faults; fair | `EndSettles` |
| `runtime` | 2 turns, pipes with room for one, 1 departure; fair | `VerdictIsJust`, `GracefulEnds`, `CancelEnds`; refinement of `LiveObservations` |
| `output` | 3 lines of 6 kinds, a prompt of 2 on a pipe of 1, 1 reader, 1 trouble; fair | `SuccessIsComplete`, `FailedIsProven`, `ReadersHoldRows`, `RunEnds` |
| `timeline` | 2 turns, 2 identities, 1 client, 5 sequence numbers, 1 trouble; fair | `TablesAgree`, `StoppedHasAll`, `TerminalIsTold`; refinement of `CursorStream` |
| `session_decision` | 3 calls, 2 operations, 2 sessions, 2 subjects; symmetric | `BindingsAreProven`, `RegisteredIsBound`, `DecisionIsExact` |
| `store` | 2 daemons, 2 calls, 2 projects, 2 configurations, 2 failing statements; fair | `RecoveredIsOrphan`, `FileHoldsAnswered`, `EveryCallEnds` |
| `op_unproven`, `live_lost_cancel` | smallest instance | a disagreement of code and documentation each, section 5 |

### Why the bounds are enough

Two requests are all a claim of one session can relate: a third is another
contender for the same row, and operations on different sessions share only
the refusal latch. One fault reaches each error branch, two reach the error
branch of an error branch; a crash may happen before every step, and the second
one hits recovery's own result. Two diagnostics let one be recorded while
another is queued. Two turns distinguish written, queued and absent turns; three
are needed for two senders to race behind the first turn.

In `runtime` a pipe of one frame blocks on the second, so every wait the pipes
can cause occurs; one departure may be any line at any
point or a stop for ever; two departures in one run are left to the proofs, which
do not bound them. In `output` three lines are an init, a result and one that
precedes, separates, follows or contradicts them, with one still unread at the
exit. In `timeline` five numbers are fewer than the events of two turns, so the
end of the range is met at every event but the first; `MaxTroubles = 1` means
that a crash and a failed COMMIT are each met at every point, not the pair of
them. In `session_decision` two calls race while the third decides on what they
leave; two sessions make the candidates ambiguous. In `store` the second fault
fails the ROLLBACK of an action that failed, or the next transaction after
one that was left open; a daemon is started once, so a third would find what the
second finds.

Symmetry permutes requests and sessions (and operations) that no definition
names; the runs that use it check invariants, step properties and a refinement
without fairness.

### Fairness

Each daemon thread that can take a step takes it eventually (the threads of a
process under an operating system scheduler), and a SIGKILL ends its child.
Nothing is promised of clients, of faults or of crashes. Of the child: nothing
in `OperationControl` and `LiveConversation`; in `LiveRuntime` and
`OneShotOutput` that it goes on is the premise of the two properties that need
it (`GracefulEnds`, `RunEnds`: `WF_vars(ChildStep) => ...`), while `CancelEnds`
holds for a child that never moves. `TerminalIsTold` is about a client that
keeps asking over a connection that is not lost for ever: `Ask` is weakly,
`WaitAnswers` and `Receive` are strongly fair, because a disconnection disables
them. Its premise is that the conversation is over or that its observer has
left, so it also says that a failure which latches no refusal has ended the
conversation. `CancelSettles` and `EndSettles` are conditioned on no failure and no
crash, since the code makes no promise after either; `StartAnswered` holds with
both, `EveryCallEnds` with failing statements and exiting daemons.

`Quiescent` of each module lets it idle only when every thread is at rest, so a
deadlock of the threads is a deadlock TLC reports.

## 4. Proofs

All by TLAPS, without bounds on any set, fault or crash.

`OperationControl_proofs`:

- `TypeCorrect`: `Spec => []TypeOK`.
- `Inductive`: `Spec => []IInv`, where `IInv` conjoins `TypeOK`,
  `HandshakeHolds`, `WriterClaimAgreement` and `ClaimCoversChild`.
  `SingleWriter` is not inductive: that a second child is not spawned follows
  from its operation not being admitted, which follows from the claim, which a
  terminal transition would give up too early unless the position of the
  worker says that the child has exited. `HandshakeHolds` states that for every
  position; one lemma per thread proves it, one step per action.
- `OneWriterPerSession`, `ClaimsAgree`, `ChildIsCovered`: `SingleWriter`,
  `WriterClaimAgreement` and `ClaimCoversChild` follow.
- `Implements`: `Spec => ImplementsSessionWriter`, from `StepMaps`: one lemma per
  group of steps, each a step of `SessionWriter` or a stutter.
- `HandoverIsSafe`: `Spec => ClaimHandover`, also from `StepMaps`: only `Settle`
  takes a session from its holder, and only when the holder does not write.
- `OneLaunch`, `PromptIsDurable`, `StreamIsComplete`, `RefusalIsCaused`:
  `AtMostOneLaunch`, `PromptAfterDurableRunning`, `DiagnosticsBeforeTerminal` and
  `RefusalHasCause`, also when exits may be unproven. They follow from a second
  strengthening, `PInv`, which says how far starter, worker and recorder of a
  request can be apart (`Progress`) and does not mention the exit of the child:
  the recorder is joined before the terminal write, and a transition that
  refuses requests was one the operation's state permitted.

`LiveConversation_proofs`, all of it with unproven exits, failed calls and
crashes. `Inductive` is `Spec => []IInv`, where `IInv` has one part per relation
between the actors: `Records` (what the three tables say of each other),
`Starting` (the hand-over of permission), `Inputs` (which turns the writer may
have), `Closing` (what a graceful close promised the turns below it), `Verdict`
(what Control still owes the tables), `Causes` (why Target failed). Each has a
lemma that a step leaving its variables alone keeps it, so the lemma of an
action only treats the parts it disturbs. From it:

- `RecordsStayAgreed`, `ClaimOutlivesChild`, `DurableBeforeInput`,
  `NoTurnBeyondClose`, `InputIsDrained`, `RefusalIsCaused`, `TypeCorrect`: the
  invariants of the `live_*` runs, for any number of turns;
- `Implements`: `Spec => ImplementsSessionWriter`. A conversation keeps its
  session when its exit is not proven, so unlike the one-shot operations it
  implements the promise without assumptions.

`OneShotOutput_proofs`: `SuccessIsWhole`, `FailureIsProven`, `ReadersAreServed`
(`SuccessIsComplete`, `FailedIsProven`, `ReadersHoldRows`). The invariant is
`LinesRead`: as long as no line was an error there are lines that, followed by
the buffer and the pipe, are all that the child said; the evidence is what these
lines establish; and the recorded diagnostics followed by the channel are what
they tell. `Threads` says that buffer, pipe and channel are empty when the
worker settles. That a poll may cut the output anywhere is
`DiagnosticsOfBoth`: diagnostics of a concatenation are the concatenation of
the diagnostics. It is an induction over the lines, done with sets of numbers
(`Induction`, from the well-foundedness of `<`), since an induction rule with an
operator parameter cannot be instantiated here; for it `DiagnosticsIn` is a
recursive function.

`Timeline_proofs`: `TablesAlwaysAgree`, `StoppedHasEverything`,
`TimelineImplementsCursorStream` (`TablesAgree`, `StoppedHasAll`, the refinement).
`Agreed` says of a record of tables what `TablesAgree` needs and every
transaction keeps: events and positions are numbered without gaps, the last
event of a turn names its state, a log ends with the end of its conversation and
only then. Each transaction leaves a record that `Follows` the one before: it
agrees, and it only adds at the end of the log of a conversation that is not
over. So what a client holds stays a prefix (`Holds`), its cursor counts its
events (`SnapshotCompletes`), and a step is an `Extend`, a `Deliver` or a
stutter. The events of the turns that a conversation leaves behind are listed by
position; that the list has each of them once (`UnfinishedTurnsAre`) is a
counting argument, since positions are distinct.

`LiveRuntime_proofs`: `RuntimeImplementsLiveObservations` and `VerdictsAreJust`
(the refinement, `VerdictIsJust`). For the first, `PhasesTold` says that the
codec's phase of a turn is what Control was told of it, and `VerdictTold` that
the observer ends once; nothing is assumed of the child. `ReportsKnown` and
`Rested` give the last verdict: a turn that was written is registered or
reported, and the reports are read again after the exit. That a child which
follows the protocol is believed needs more, since its lines are under way in
two buffers while it reads, the writer writes and the reports lag behind.
`Explained` says that these lines are a walk (`Walk`) through views, from the
one the codec is at to the one the child is at: a new line makes the walk longer
at its end (`ExplainedEmitted`), the codec shortens it at its start
(`ExplainedLine`) and accepts the line because the walk says where it leads
(`CodecReads`); a poll moves lines but leaves the walk (`ExplainedPolled`).
`Expected` adds that a turn queued on the walk was written, and is registered
before the codec reads its line: the second `consume_reports` of the loop
(`ExplainedRegistered`). `Orderly` says that the writer and the child end by
themselves, so at the exit the walk is one view and every turn is completed.

`StateStore_proofs`: `RecoveryIsExclusive` and `FileIsExact`. The lease gives
the file to one daemon and its mutex the connection to one request
(`OneHolder`); so `IInv` may say that the rows a request has read are those of
the file until it commits, and those it leaves differ by its own row (`Holds`).
A transaction left open by a failed COMMIT satisfies nothing of the sort, and
needs to satisfy nothing: no request is inside it, and BEGIN fails.

`SessionDecision_proofs`: `BindingsProven`, `RegistrationLasts`,
`DecisionsAreExact`, `TypeCorrect`. A binding and a succeeded operation never
change (`Stable`), so what a request has read is still so in its next
transaction; `IInv` says for each stage what that is (`Knows`), and for each
answer what it rests on (`Told`). One lemma per action; those that end with an
answer or move on share `RepliesKeep` and `MovesKeep`.

`Promises_proofs`, about the abstract specifications: `PromiseMeansOneWriter`
(a session has one writer), `PromiseMeansPrefixes` (every client holds a prefix,
and the whole once it holds a final item) and `PromiseDrivesTurns` (each turn is
queued, started, completed, in this order and once, one turn at a time).
Whatever implements a promise has them.

Assumptions: the named `ASSUME` of each module, which every run evaluates, and
`~UnprovenExit` in `Inductive`, `OneWriterPerSession`, `ClaimsAgree`,
`ChildIsCovered`, `Implements` and `HandoverIsSafe` of `OperationControl_proofs`
(with unproven exits the properties are false: `op_unproven`), and `~OpenCrash` in
`StoppedHasEverything` and `TimelineImplementsCursorStream` (section 5 has the
case in which they fail); `TablesAlwaysAgree` needs neither. That an answer opens
with its init line (`RuntimeAssumption`) is what the codec demands before text
and result (`target/conversation_codec.rs`) and what `aiop-fake-claude` writes
(`bin/aiop-fake-claude.rs:294`); only the child that follows the protocol is
bound by it.

Only model-checked is liveness, out of the prover's reach together with
`ENABLED`: `StartAnswered`, `CancelSettles`, `EndSettles`, `GracefulEnds`,
`CancelEnds`, `RunEnds`, `TerminalIsTold`, `EveryCallEnds`.

## 5. Findings

1. `op_unproven`: a one-shot operation releases its session without proof that
   its child has exited; live conversations do not.
2. `live_lost_cancel`: a cancel accepted before the handle is registered never
   reaches Target; later cancels are `AlreadyClosing` and do not either.

Also met while modelling, in the models as the code has them, without a run:

- A spawn that fails, followed by a State write that fails, leaves an Accepted
  operation and its claim behind, and the daemon keeps serving
  (`control/operation.rs:126`).
- A cancel between admission and `RuntimeGate::admit` is lost and answered with a
  State error, without any failure (`control/operation.rs:386`).
- A State failure on the last observation is reported as Indeterminate, because
  the stop fails too, and does not refuse (`control/conversation.rs:362`).
- A session decision that finds its identity unbound, and is then overtaken by
  the registration of that identity, answers IdentityMismatch and lists the
  identity's own binding as the conflicting one
  (`control/session_decision.rs:64`). `BoundIsResumed` is therefore about
  identities that were bound when they asked.
- After a COMMIT that failed and left its transaction open, readers of the same
  connection are told rows that are not committed, and a daemon that stops
  takes them back (`state/sqlite.rs:58`). With `OpenCrash = TRUE` the promise of
  `Timeline` fails in that way; the run keeps it FALSE: there the daemon stops
  only with its transactions ended.
- A clean exit after a graceful close with an unwritten turn ends Indeterminate
  and keeps the session claimed, although the exit was observed.
- When Control has stopped listening, a failed result makes Target's observer
  return without cleanup.

## 6. Not modelled, and the plan

Left out for good: the MCP gateway (a stateless projection of one request per
line), the command lines, the fake Claude (a test double), wire encodings, the
socket's mode and the framing of its lines, and reads that only list
(`project_list`, `session_inventory`, `operation_get`).

Next: the observations that `LiveConversation` takes from Target, as a history
that implements `LiveObservations` too, so that what is proved of the promise
holds of the durable turns.
