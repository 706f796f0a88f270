----------------------------- MODULE LiveRuntime -----------------------------
(***************************************************************************)
(* The runtime of one live child inside Target: the input writer thread,   *)
(* the pipes of the child, and the observer thread with its report         *)
(* channel, output pump and codec.                                         *)
(*                                                                         *)
(* The writer reports a turn through one channel and writes it to stdin;   *)
(* the child answers through stdout.  Nothing orders the two but the loop  *)
(* of the observer.  Turns are positions and arrive in order, and kill and *)
(* wait succeed: LiveConversation has them out of order and failing.  A    *)
(* line of output is read when its newline is; no descendant of the child  *)
(* keeps its stdin.                                                        *)
(***************************************************************************)
EXTENDS Naturals, Sequences

CONSTANTS
  MaxTurns,    (* bound: turns of the conversation                         *)
  StdinRoom,   (* frames that stdin holds before a write blocks            *)
  StdoutRoom,  (* lines that stdout holds before the child blocks          *)
  Chatter,     (* lines of an answer that are not its outcome              *)
  MaxStrays    (* bound: departures of the child from the protocol         *)

ASSUME RuntimeAssumption == /\ MaxTurns \in Nat \ {0}
                            /\ StdinRoom \in Nat \ {0} /\ StdoutRoom \in Nat \ {0}
                            /\ Chatter \subseteq {"init", "replay", "delta", "assistant"}
                            /\ "init" \in Chatter    (* nothing is said before it *)
                            /\ MaxStrays \in Nat

VARIABLES
  (* Control, through the handle *)
  sent,         (* turns admitted and sent to the writer                   *)
  graceful,     (* through_position of the graceful close, 0 for none      *)
  stopping,     (* how far stop(Cancel) is                                 *)
  (* the writer *)
  writer,       (* its program counter                                     *)
  next,         (* next_position                                           *)
  reports,      (* the channel of WriterReports                            *)
  (* the child and its pipes *)
  child, stdin, stdout,
  inbox,        (* turns it has read and not begun                         *)
  work,         (* the lines it still owes the turn it works on            *)
  strays,       (* how often it departed from the protocol                 *)
  (* the observer *)
  observer,     (* its program counter                                     *)
  buffer,       (* complete lines in the pump                              *)
  initialized, phase,   (* the codec                                       *)
  verdict,      (* the terminal observation it will publish                *)
  observations  (* what it sent to Control                                 *)

handle == <<sent, graceful, stopping>>
input  == <<writer, next, reports>>
agent  == <<inbox, work, strays>>
codec  == <<initialized, phase>>
vars   == <<handle, input, child, stdin, stdout, agent,
            observer, buffer, codec, verdict, observations>>

----------------------------------------------------------------------------
(* Types *)

Turns  == 1..MaxTurns
NoTurn == 0

(* The provider's events by what the codec does with them: `assistant`     *)
(* stands for an assistant or tool-result event, `malformed` for a line    *)
(* that is refused for itself, `other` for one that is ignored.            *)
OfTurn  == {"queued", "started", "completed", "replay"}
OfChild == {"init", "delta", "assistant", "result", "error", "malformed", "other"}
Line    == [kind : OfTurn, turn : Turns] \cup [kind : OfChild, turn : {NoTurn}]

Phases    == {"none", "AwaitingQueue", "Queued", "Started", "ResultObserved", "Completed"}
TurnKinds == {"TurnQueued", "TurnStarted", "TurnAcknowledged", "AssistantTextDelta",
              "TurnCompleted", "TurnFailed"}
Verdicts  == {"Cancelled", "Exited", "Failed", "Indeterminate"}

TypeOK ==
  /\ sent \in Turns /\ graceful \in 0..sent /\ next \in 1..(sent + 1)
  /\ stopping \in {"none", "cancelled", "killed"}
  /\ writer \in {"permission", "ready", "write", "done"}
  /\ reports \in Seq(({"prepared"} \X Turns) \cup {<<"closed", NoTurn>>, <<"failed", NoTurn>>})
  /\ child \in {"alive", "killed", "exited_ok", "exited_bad"}
  /\ stdin \in Seq(Turns) /\ Len(stdin) <= StdinRoom
  /\ stdout \in Seq(Line) /\ Len(stdout) <= StdoutRoom
  /\ inbox \in Seq(Turns) /\ work \in Seq(Line) /\ strays \in 0..MaxStrays
  /\ observer \in {"reports", "poll", "again", "lines", "status", "rest", "cleanup", "done"}
  /\ buffer \in Seq(Line)
  /\ initialized \in BOOLEAN /\ phase \in [Turns -> Phases]
  /\ verdict \in {"none"} \cup Verdicts
  /\ observations \in Seq((TurnKinds \X Turns) \cup (({"Initialized"} \cup Verdicts) \X {NoTurn}))

Init ==
  /\ sent = 1 /\ graceful = 0 /\ stopping = "none"
  /\ writer = "permission" /\ next = 1 /\ reports = <<>>
  /\ child = "alive" /\ stdin = <<>> /\ stdout = <<>>
  /\ inbox = <<>> /\ work = <<>> /\ strays = 0
  /\ observer = "reports" /\ buffer = <<>>
  /\ initialized = FALSE /\ phase = [t \in Turns |-> "none"]
  /\ verdict = "none" /\ observations = <<>>

----------------------------------------------------------------------------
(* Control: LiveRuntimes::send and stop.  The handle is gone when the      *)
(* observer is done.                                                       *)

HandleUnchanged == UNCHANGED <<input, stdin, stdout, agent, observer, buffer, codec,
                               verdict, observations>>

Send ==
  /\ observer # "done" /\ stopping = "none" /\ graceful = 0 /\ sent < MaxTurns
  /\ sent' = sent + 1
  /\ UNCHANGED <<graceful, stopping, child>> /\ HandleUnchanged

Close ==
  /\ observer # "done" /\ stopping = "none" /\ graceful = 0
  /\ graceful' = sent
  /\ UNCHANGED <<sent, stopping, child>> /\ HandleUnchanged

Cancel ==
  /\ observer # "done" /\ stopping = "none"
  /\ stopping' = "cancelled"
  /\ UNCHANGED <<sent, graceful, child>> /\ HandleUnchanged

Killed == IF child = "alive" THEN "killed" ELSE child

(* Mutant: the cancellation leaves the child to itself. *)
Spared     == child
Terminated == Killed

Kill ==
  /\ stopping = "cancelled"
  /\ stopping' = "killed"
  /\ child' = Terminated
  /\ UNCHANGED <<sent, graceful>> /\ HandleUnchanged

----------------------------------------------------------------------------
(* The writer: conversation_input.rs *)

WriterUnchanged == UNCHANGED <<handle, child, stdout, agent, observer, buffer, codec,
                               verdict, observations>>

Report(kind, t) == reports' = Append(reports, <<kind, t>>)

Permission ==
  /\ writer = "permission"
  /\ \/ writer' = "ready" /\ UNCHANGED reports
     \/ writer' = "done" /\ Report("failed", NoTurn)
  /\ UNCHANGED <<next, stdin>> /\ WriterUnchanged

Ready == writer = "ready" /\ next <= sent

(* The turn is reported before a byte of it is written.                    *)
Prepare ==
  /\ Ready
  /\ Report("prepared", next)
  /\ writer' = "write"
  /\ UNCHANGED <<next, stdin>> /\ WriterUnchanged

Write ==
  /\ writer = "write" /\ child = "alive" /\ Len(stdin) < StdinRoom
  /\ stdin' = Append(stdin, next)
  /\ next' = next + 1
  /\ writer' = "ready"
  /\ UNCHANGED reports /\ WriterUnchanged

(* A broken pipe. *)
WriteFails ==
  /\ writer = "write" /\ child # "alive"
  /\ writer' = "done"
  /\ Report("failed", NoTurn)
  /\ UNCHANGED <<next, stdin>> /\ WriterUnchanged

Drained == writer = "ready" /\ next > sent

(* Mutant: the input stays open for a turn after the last. *)
OneMore == graceful # 0 /\ next > graceful + 1
Covered == graceful # 0 /\ next > graceful

CloseStdin ==
  /\ Drained /\ Covered
  /\ writer' = "done"
  /\ Report("closed", NoTurn)
  /\ UNCHANGED <<next, stdin>> /\ WriterUnchanged

(* WriterCommand::Cancel, from stop or from the cleanup.                   *)
Leave ==
  /\ Drained /\ (stopping # "none" \/ observer = "cleanup")
  /\ writer' = "done"
  /\ UNCHANGED <<next, reports, stdin>> /\ WriterUnchanged

WriterStep == Prepare \/ Write \/ WriteFails \/ CloseStdin \/ Leave

----------------------------------------------------------------------------
(* The child, an external program: it answers each turn it reads with the  *)
(* lines the codec expects and the fixture aiop-fake-claude writes, but    *)
(* for a bounded number of departures.                                     *)

ChildUnchanged == UNCHANGED <<handle, input, observer, buffer, codec, verdict, observations>>

Event(kind, t) == [kind |-> kind, turn |-> t]
Emit(l)        == /\ Len(stdout) < StdoutRoom
                  /\ stdout' = Append(stdout, l)

Says(kind, t) == IF kind \in Chatter THEN <<Event(kind, t)>> ELSE <<>>
Spoken(t)     == Says("init", NoTurn) \o Says("replay", t) \o Says("delta", NoTurn)
                   \o Says("assistant", NoTurn)

Answer(t) ==
  {<<Event("started", t)>> \o Spoken(t) \o outcome :
     outcome \in {<<Event("result", NoTurn), Event("completed", t)>>, <<Event("error", NoTurn)>>}}

ReadsTurn ==
  /\ child = "alive" /\ stdin # <<>>
  /\ Emit(Event("queued", Head(stdin)))
  /\ inbox' = Append(inbox, Head(stdin))
  /\ stdin' = Tail(stdin)
  /\ UNCHANGED <<child, work, strays>> /\ ChildUnchanged

BeginsTurn ==
  /\ child = "alive" /\ work = <<>> /\ inbox # <<>>
  /\ work' \in Answer(Head(inbox))
  /\ inbox' = Tail(inbox)
  /\ UNCHANGED <<child, stdin, stdout, strays>> /\ ChildUnchanged

Answers ==
  /\ child = "alive" /\ work # <<>>
  /\ Emit(Head(work))
  /\ work' = Tail(work)
  /\ UNCHANGED <<child, stdin, inbox, strays>> /\ ChildUnchanged

EndOfInput == writer = "done" /\ stdin = <<>>

Finishes ==
  /\ child = "alive" /\ EndOfInput /\ inbox = <<>> /\ work = <<>>
  /\ child' = "exited_ok"
  /\ UNCHANGED <<stdin, stdout, agent>> /\ ChildUnchanged

Departs == child = "alive" /\ strays < MaxStrays /\ strays' = strays + 1

(* It writes any line, in place of the one it owes or before it.           *)
Rambles ==
  /\ Departs
  /\ \E l \in Line : Emit(l)
  /\ work' \in {work} \cup (IF work = <<>> THEN {} ELSE {Tail(work)})
  /\ UNCHANGED <<child, stdin, inbox>> /\ ChildUnchanged

Exits ==
  /\ Departs
  /\ child' \in {"exited_ok", "exited_bad"}
  /\ UNCHANGED <<stdin, stdout, inbox, work>> /\ ChildUnchanged

Dies ==
  /\ child = "killed"
  /\ child' = "exited_bad"
  /\ UNCHANGED <<stdin, stdout, agent>> /\ ChildUnchanged

ChildStep == ReadsTurn \/ BeginsTurn \/ Answers \/ Finishes

----------------------------------------------------------------------------
(* The observer: observe, consume_reports, consume_output *)

ObserverUnchanged == UNCHANGED <<handle, writer, next, stdin, agent>>

Publish(kind, t) == observations' = Append(observations, <<kind, t>>)

Goes(pc) == observer' = pc

(* cleanup: CleanupMode::Terminate kills the child, ObservedExit has its   *)
(* exit; both send Cancel to the writer.                                   *)
Ends(v) ==
  /\ Goes("cleanup")
  /\ verdict' = v
  /\ child' = Killed

Reported(kind) == \E i \in DOMAIN reports : reports[i][1] = kind

(* consume_reports takes what is there: Codec::register_turn for each.     *)
Registered ==
  [t \in Turns |-> IF \E i \in DOMAIN reports : reports[i] = <<"prepared", t>>
                   THEN "AwaitingQueue" ELSE phase[t]]

ConsumeReports(pc, after) ==
  /\ observer = pc
  /\ reports' = <<>>
  /\ phase' = Registered
  /\ IF Reported("failed") THEN Ends("Indeterminate")
                           ELSE Goes(after) /\ UNCHANGED <<verdict, child>>
  /\ UNCHANGED <<stdout, buffer, initialized, observations>> /\ ObserverUnchanged

Poll ==
  /\ observer = "poll"
  /\ buffer' = buffer \o stdout
  /\ stdout' = <<>>
  /\ Goes("again")
  /\ UNCHANGED <<child, reports, codec, verdict, observations>> /\ ObserverUnchanged

(* Mutant: the reports are read only before the output. *)
OnceOnly == /\ observer = "again" /\ Goes("lines")
            /\ UNCHANGED <<reports, phase, verdict, child, stdout, buffer, initialized,
                           observations>> /\ ObserverUnchanged
Again    == ConsumeReports("again", "lines")

(* Codec::observe, a line at a time.                                       *)
NextLine(kind) == /\ observer \in {"lines", "rest"} /\ buffer # <<>>
                  /\ Head(buffer).kind = kind

Turn    == Head(buffer).turn
Started == {t \in Turns : phase[t] = "Started"}
Current == CHOOSE t \in Turns : Started = {t}    (* unique_started_turn    *)

Phase(t, p) == phase' = [phase EXCEPT ![t] = p]

Took == /\ buffer' = Tail(buffer)
        /\ UNCHANGED <<reports, stdout, child, observer, verdict>> /\ ObserverUnchanged

InitLine ==
  /\ NextLine("init")
  /\ initialized' = TRUE /\ UNCHANGED phase
  /\ Publish("Initialized", NoTurn)
  /\ Took

QueuedLine ==
  /\ NextLine("queued") /\ phase[Turn] = "AwaitingQueue"
  /\ Phase(Turn, "Queued") /\ UNCHANGED initialized
  /\ Publish("TurnQueued", Turn)
  /\ Took

(* Mutant: a second turn may start while one is active. *)
Anyway        == FALSE
HasActiveTurn == \E t \in Turns : phase[t] \in {"Started", "ResultObserved"}

StartedLine ==
  /\ NextLine("started") /\ ~HasActiveTurn /\ phase[Turn] = "Queued"
  /\ Phase(Turn, "Started") /\ UNCHANGED initialized
  /\ Publish("TurnStarted", Turn)
  /\ Took

ReplayLine ==
  /\ NextLine("replay") /\ initialized /\ phase[Turn] \in {"Queued", "Started"}
  /\ UNCHANGED codec
  /\ Publish("TurnAcknowledged", Turn)
  /\ Took

Answering == initialized /\ \E t \in Turns : Started = {t}

DeltaLine ==
  /\ NextLine("delta") /\ Answering
  /\ UNCHANGED codec
  /\ Publish("AssistantTextDelta", Current)
  /\ Took

ResultLine ==
  /\ NextLine("result") /\ Answering
  /\ Phase(Current, "ResultObserved") /\ UNCHANGED <<initialized, observations>>
  /\ Took

CompletedLine ==
  /\ NextLine("completed") /\ phase[Turn] = "ResultObserved"
  /\ Phase(Turn, "Completed") /\ UNCHANGED initialized
  /\ Publish("TurnCompleted", Turn)
  /\ Took

SilentLine ==
  /\ NextLine("other") \/ (NextLine("assistant") /\ Answering)
  /\ UNCHANGED <<codec, observations>>
  /\ Took

ErrorLine ==
  /\ NextLine("error") /\ Answering
  /\ Publish("TurnFailed", Current)
  /\ buffer' = Tail(buffer)
  /\ Ends("Failed")
  /\ UNCHANGED <<reports, stdout, codec>> /\ ObserverUnchanged

(* Everything else is refused, and what follows it is not read.            *)
Refused(l) ==
  CASE l.kind = "queued"                          -> phase[l.turn] # "AwaitingQueue"
    [] l.kind = "started"                         -> HasActiveTurn \/ phase[l.turn] # "Queued"
    [] l.kind = "completed"                       -> phase[l.turn] # "ResultObserved"
    [] l.kind = "replay"                          -> ~initialized \/ phase[l.turn] \notin {"Queued", "Started"}
    [] l.kind \in {"delta", "assistant", "result", "error"} -> ~Answering
    [] OTHER                                      -> l.kind = "malformed"

RefusedLine ==
  /\ observer \in {"lines", "rest"} /\ buffer # <<>> /\ Refused(Head(buffer))
  /\ buffer' = Tail(buffer)
  /\ Ends("Indeterminate")
  /\ UNCHANGED <<reports, stdout, codec, observations>> /\ ObserverUnchanged

LineStep == \/ InitLine \/ QueuedLine \/ StartedLine \/ ReplayLine \/ DeltaLine \/ ResultLine
            \/ CompletedLine \/ SilentLine \/ ErrorLine \/ RefusedLine

LinesEnd ==
  /\ observer = "lines" /\ buffer = <<>>
  /\ Goes("status")
  /\ UNCHANGED <<reports, stdout, child, buffer, codec, verdict, observations>>
  /\ ObserverUnchanged

HasExited == child \in {"exited_ok", "exited_bad"}

StillRuns ==
  /\ observer = "status" /\ ~HasExited
  /\ Goes("reports")
  /\ UNCHANGED <<reports, stdout, child, buffer, codec, verdict, observations>>
  /\ ObserverUnchanged

DrainReady == buffer' = buffer \o stdout /\ stdout' = <<>>

(* Mutant: the reports are not read again after the exit. *)
KnownTurns == phase
AllTurns   == Registered

HasEnded ==
  /\ observer = "status" /\ HasExited
  /\ DrainReady
  /\ reports' = <<>> /\ phase' = AllTurns
  /\ IF Reported("failed") THEN Ends("Indeterminate")
                           ELSE Goes("rest") /\ UNCHANGED <<verdict, child>>
  /\ UNCHANGED <<initialized, observations>> /\ ObserverUnchanged

AllCompleted == \A t \in Turns : phase[t] \in {"none", "Completed"}

Classify ==
  /\ observer = "rest" /\ buffer = <<>>
  /\ Ends(CASE stopping # "none" -> "Cancelled"
            [] stopping = "none" /\ child = "exited_ok" /\ graceful # 0 /\ AllCompleted -> "Exited"
            [] OTHER -> "Indeterminate")
  /\ UNCHANGED <<reports, stdout, buffer, codec, observations>> /\ ObserverUnchanged

(* The child has been waited for and the writer joined.                    *)
PublishAfterCleanup ==
  /\ observer = "cleanup" /\ HasExited /\ writer = "done"
  /\ Publish(verdict, NoTurn)
  /\ Goes("done")
  /\ UNCHANGED <<reports, stdout, child, buffer, codec, verdict>> /\ ObserverUnchanged

ObserverStep ==
  \/ ConsumeReports("reports", "poll") \/ Poll \/ Again
  \/ LineStep \/ LinesEnd \/ StillRuns \/ HasEnded \/ Classify \/ PublishAfterCleanup

----------------------------------------------------------------------------

Over == observer = "done" /\ UNCHANGED vars

Next == \/ Send \/ Close \/ Cancel \/ Kill
        \/ Permission \/ WriterStep
        \/ ChildStep \/ Rambles \/ Exits \/ Dies
        \/ ObserverStep
        \/ Over

Spec == Init /\ [][Next]_vars

(* The two threads run, Control grants or denies, and a kill that has      *)
(* begun ends the child.                                                   *)
FairSpec ==
  /\ Spec
  /\ WF_vars(ObserverStep) /\ WF_vars(Permission \/ WriterStep) /\ WF_vars(Kill \/ Dies)

----------------------------------------------------------------------------
(* Properties *)

Promise == INSTANCE LiveObservations

(* Whatever the child writes, Control receives the sequence it can apply   *)
(* to its durable turns.                                                   *)
ImplementsLiveObservations == Promise!ObservationSpec

(* A child that follows the protocol is never found ambiguous, however     *)
(* its answers, the reports of its turns and its exit are interleaved:     *)
(* only a denied permission or a cancellation ends it otherwise.           *)
Denied   == writer = "done" /\ next = 1
Faithful == strays = 0

FaithfulIsBelieved ==
  Faithful /\ verdict = "Indeterminate" => Denied \/ stopping # "none"

(* Exited means that every turn written to the child was answered,         *)
(* whatever the child did: one that ends well after a graceful close       *)
(* without having read its last turn is not taken for a success.           *)
ExitedIsComplete ==
  verdict = "Exited" => \A t \in Turns : t < next => Promise!Said("TurnCompleted", t)

(* No verdict wrongs the child or its turns.                               *)
VerdictIsJust == TypeOK /\ FaithfulIsBelieved /\ ExitedIsComplete

(* After a graceful close a faithful child that goes on comes to its end,  *)
(* and is told to have: the writer, the pipes, the codec and the exit do   *)
(* not wait for each other in a circle, however small the pipes are.       *)
GracefulEnds ==
  WF_vars(ChildStep) => ((Faithful /\ graceful # 0) ~> observer = "done")

(* A cancellation ends a child that reads nothing, fills its output or     *)
(* stays silent, also while the writer is blocked in a write to it.        *)
CancelEnds == (stopping # "none") ~> observer = "done"

=============================================================================
