------------------------------- MODULE Timeline -------------------------------
(***************************************************************************)
(* The event timeline of one durable conversation: the transactions of     *)
(* State that write it together with the turns they are about, the SQLite  *)
(* connection they share with every reader, and clients that follow it     *)
(* with conversation_wait, reconnect and resume from their cursor.         *)
(*                                                                         *)
(* The tables of the conversation are one record; a transaction computes   *)
(* the record it wants to leave behind.  Observations arrive in an order   *)
(* the turns admit: LiveConversation has the others, and the child.        *)
(***************************************************************************)
EXTENDS Naturals, Sequences, FiniteSets, SequencesExt

CONSTANTS
  MaxTurns,        (* bound: turns of the conversation                     *)
  Identities,      (* the models and versions a child may report           *)
  Clients,         (* readers of the timeline                              *)
  MaxSequence,     (* the largest INTEGER of SQLite                        *)
  MaxChatter,      (* bound: events that change no turn: init lines,       *)
                   (* acknowledgements, and pieces of text                 *)
  MaxTroubles,     (* bound: daemon crashes and failed COMMITs             *)
  OpenCrash        (* may the daemon stop while a failed COMMIT has left   *)
                   (* its transaction open?                                *)

ASSUME TimelineAssumption == /\ MaxTurns \in Nat \ {0} /\ "none" \notin Identities
                             /\ {MaxSequence, MaxChatter, MaxTroubles} \subseteq Nat
                             /\ OpenCrash \in BOOLEAN

VARIABLES
  disk,        (* the tables as committed: survives a crash                *)
  mem,         (* the tables as the daemon's one connection sees them      *)
  open,        (* the connection is inside a transaction nobody runs       *)
  up,          (* the daemon serves requests                               *)
  refusal,     (* the OnceLock that refuses every later request            *)
  observer,    (* Control's observation thread                             *)
  call,        (* per client: its conversation_wait                        *)
  reply,       (* per client: the snapshot on its way back                 *)
  received,    (* per client: the events it has                            *)
  troubles     (* crashes and failed COMMITs so far                        *)

store   == <<disk, mem, open>>
clients == <<call, reply, received>>
vars    == <<store, up, refusal, observer, clients, troubles>>

----------------------------------------------------------------------------
(* Types *)

(* The UUIDs that clients choose, in the order in which they are used.     *)
Turns      == 1..MaxTurns

Admitting  == {"Open", "Closing"}
Terminal   == {"Succeeded", "Failed", "Cancelled", "Indeterminate"}
Unfinished == {"Queued", "Started"}
Outcomes   == {"Completed", "Cancelled", "Discarded", "Failed", "Indeterminate"}

(* The observer could not apply an observation.  When its first error, as  *)
(* composed with a stop and an end that succeeded, is still one of State,  *)
(* it latches the refusal.                                                 *)
Failing == {"stateError", "otherError"}

(* Events: what happened, and to what.  The seventh kind, the text of an   *)
(* answer, is like an acknowledgement here.                                *)
TurnEvents  == {"TurnQueued", "TurnAcknowledged", "TurnStarted", "TurnCompleted",
                "TurnCancelled", "TurnDiscarded", "TurnFailed", "TurnIndeterminate"}
Payloads    == (TurnEvents \X Turns) \cup ({"Initialized"} \X Identities)
               \cup ({"ConversationTerminal"} \X Terminal)
Events      == [seq : 1..MaxSequence, payload : Payloads]
FinalEvents == {e \in Events : e.payload[1] = "ConversationTerminal"}

TurnRows == [state : {"absent"} \cup Unfinished \cup Outcomes, position : 0..MaxSequence]
Tables   == [conv : {"absent"} \cup Admitting \cup Terminal,
             turn : [Turns -> TurnRows],
             observed : {"none"} \cup Identities,
             log : Seq(Events)]
NoTables == [conv |-> "absent",
             turn |-> [t \in Turns |-> [state |-> "absent", position |-> 0]],
             observed |-> "none",
             log |-> <<>>]

Replies == [ended : BOOLEAN, events : Seq(Events)]
NoReply == [ended |-> FALSE, events |-> <<>>]

TypeOK ==
  /\ {disk, mem} \subseteq Tables
  /\ {open, up, refusal} \subseteq BOOLEAN
  /\ observer \in {"none", "active", "ending", "done"} \cup Failing
  /\ call \in [Clients -> {"idle", "waiting", "answered", "stopped"}]
  /\ reply \in [Clients -> Replies]
  /\ received \in [Clients -> Seq(Events)]
  /\ troubles \in 0..MaxTroubles

Init ==
  /\ disk = NoTables /\ mem = NoTables /\ open = FALSE
  /\ up = TRUE /\ refusal = FALSE /\ observer = "none"
  /\ call = [c \in Clients |-> "idle"]
  /\ reply = [c \in Clients |-> NoReply]
  /\ received = [c \in Clients |-> <<>>]
  /\ troubles = 0

----------------------------------------------------------------------------
(* Rows: numbering, and what is written for a turn *)

Highest(numbers) == CHOOSE n \in numbers \cup {0} : \A m \in numbers : m <= n

Sequences(d) == {d.log[i].seq : i \in DOMAIN d.log}
Positions(d) == {d.turn[t].position : t \in Turns}

NextSequence(d) == Highest(Sequences(d)) + 1

(* Mutant: a turn takes the position of the events. *)
PositionBySequence(d) == NextSequence(d)
NextPosition(d)       == Highest(Positions(d)) + 1

Event(n, kind, about) == [seq |-> n, payload |-> <<kind, about>>]

(* Mutant: an event without a number is left out. *)
AppendedIfFits(d, kind, about) ==
  IF NextSequence(d) > MaxSequence THEN d
  ELSE [d EXCEPT !.log = Append(@, Event(NextSequence(d), kind, about))]
(* conversation_timeline::append *)
Appended(d, kind, about) ==
  [d EXCEPT !.log = Append(@, Event(NextSequence(d), kind, about))]

(* Mutant: a number beyond the range is stored. *)
Unchecked(d) == TRUE
(* A number beyond the range makes the insert, and the transaction, fail.  *)
Fits(d)      == \A n \in Sequences(d) \cup Positions(d) : n <= MaxSequence

(* The event of each state a turn can be in.                               *)
StateEvents ==
  [Queued |-> "TurnQueued", Started |-> "TurnStarted", Completed |-> "TurnCompleted",
   Cancelled |-> "TurnCancelled", Discarded |-> "TurnDiscarded", Failed |-> "TurnFailed",
   Indeterminate |-> "TurnIndeterminate"]

(* Mutant: a turn the child never started is reported as cancelled. *)
DiscardedAsCancelled(state) ==
  StateEvents[IF state = "Discarded" THEN "Cancelled" ELSE state]
EventOf(state) == StateEvents[state]

(* conversation_turn::resolve_unfinished: the turns that are not over, in  *)
(* the order of their positions.                                           *)
InState(d, states) == {t \in Turns : d.turn[t].state \in states}
Rank(d, t) ==
  Cardinality({s \in InState(d, Unfinished) : d.turn[s].position <= d.turn[t].position})
UnfinishedTurns(d) ==
  LET late == InState(d, Unfinished)
  IN  [i \in 1..Cardinality(late) |-> CHOOSE t \in late : Rank(d, t) = i]

Resolved(state, t) ==
  CASE state # "Cancelled" -> state
    [] state = "Cancelled" /\ t = "Queued" -> "Discarded"
    [] OTHER -> "Cancelled"

ResolveUnfinished(d, state) ==
  LET late == UnfinishedTurns(d)
  IN  [d EXCEPT !.turn = [t \in Turns |-> IF d.turn[t].state \in Unfinished
                            THEN [d.turn[t] EXCEPT !.state = Resolved(state, @)] ELSE d.turn[t]],
                !.log = @ \o [i \in 1..Len(late) |->
                    Event(NextSequence(d) + i - 1,
                          EventOf(Resolved(state, d.turn[late[i]].state)), late[i])]]

(* terminalize, and what recover does to a conversation: turns, record and *)
(* event in one transaction.                                               *)
Ended(d, state) ==
  Appended([ResolveUnfinished(d, state) EXCEPT !.conv = state], "ConversationTerminal", state)

----------------------------------------------------------------------------
(* One transaction: BEGIN IMMEDIATE, the action, COMMIT *)

Keeps == UNCHANGED store

Commits(new) ==
  /\ ~open /\ Fits(new)
  /\ mem' = new /\ disk' = new
  /\ UNCHANGED <<open, troubles>>

(* BEGIN inside a transaction fails; a failed action is rolled back; a     *)
(* failed COMMIT has either rolled back or left the transaction open, with *)
(* its rows visible to this connection.                                    *)
Errs(new) ==
  \/ open /\ Keeps /\ UNCHANGED troubles
  \/ ~open /\ ~Fits(new) /\ Keeps /\ UNCHANGED troubles
  \/ /\ ~open /\ Fits(new) /\ troubles < MaxTroubles
     /\ troubles' = troubles + 1
     /\ \/ Keeps
        \/ mem' = new /\ open' = TRUE /\ UNCHANGED disk

Served == up /\ ~refusal

(* A request thread answers its client with the error, and that is all.    *)
Request(new) ==
  /\ Served
  /\ Commits(new) \/ Errs(new)
  /\ UNCHANGED <<up, refusal, observer, clients>>

(* persist_start, persist_turn: the turn is queued with its event.  A turn *)
(* that is there already is answered from the table.                       *)
Queue(d, t) ==
  Appended([d EXCEPT !.turn[t] = [state |-> "Queued", position |-> NextPosition(d)]],
           "TurnQueued", t)

PersistStart ==
  /\ Served /\ mem.conv = "absent"
  /\ LET new == Queue([mem EXCEPT !.conv = "Open"], 1)
     IN  \/ Commits(new) /\ observer' = "active"
         \/ Errs(new) /\ UNCHANGED observer
  /\ UNCHANGED <<up, refusal, clients>>

PersistTurn(t) ==
  /\ mem.conv = "Open" /\ mem.turn[t].state = "absent"
  /\ \A u \in 1..(t - 1) : mem.turn[u].state # "absent"
  /\ Request(Queue(mem, t))

(* close: no event says so.                                                *)
Close ==
  /\ mem.conv = "Open"
  /\ Request([mem EXCEPT !.conv = "Closing"])

(* The observation thread: an error stops it. *)
Observes(new, next, failed) ==
  /\ up /\ observer = "active"
  /\ \/ Commits(new) /\ observer' = next
     \/ Errs(new) /\ observer' = failed
  /\ UNCHANGED <<up, refusal, clients>>

(* record_turn_observation with a state.                                   *)
TurnAllowed(from, to) ==
  \/ from = "Queued" /\ to \in {"Started", "Failed"}
  \/ from = "Started" /\ to \in {"Completed", "Failed"}

RecordTurn(t, state) ==
  /\ TurnAllowed(mem.turn[t].state, state)
  /\ Observes(Appended([mem EXCEPT !.turn[t].state = state], EventOf(state), t),
              "active", "stateError")

Chatters ==
  Cardinality({i \in DOMAIN mem.log : mem.log[i].payload[1] \in {"Initialized", "TurnAcknowledged"}})
    < MaxChatter

(* record_turn_observation without one.                                    *)
RecordAcknowledged(t) ==
  /\ mem.turn[t].state \in Unfinished
  /\ Chatters
  /\ Observes(Appended(mem, "TurnAcknowledged", t), "active", "stateError")

Initializations(d) == {i \in DOMAIN d.log : d.log[i].payload[1] = "Initialized"}

(* Mutant: only the operation's identity is compared, and only the first   *)
(* time.                                                                   *)
FirstOnly(d, id)  == Initializations(d) = {} => d.observed \in {"none", id}
Consistent(d, id) ==
  /\ \A i \in Initializations(d) : d.log[i].payload[2] = id
  /\ d.observed = id \/ (Initializations(d) = {} /\ d.observed = "none")

(* record_initialization: the child repeats its init line; another         *)
(* identity is a Conflict, when the transaction begins at all.             *)
RecordInitialization(id) ==
  /\ mem.conv \in Admitting
  /\ Chatters
  /\ IF open \/ Consistent(mem, id)
     THEN Observes(Appended([mem EXCEPT !.observed = id], "Initialized", id),
                   "active", "stateError")
     ELSE /\ up /\ observer = "active" /\ observer' = "otherError"
          /\ UNCHANGED <<store, up, refusal, clients, troubles>>

(* terminalize, with the verdict of Target.  Its runtime is gone by then,  *)
(* so after a failure the stop fails too: the error is no longer State's.  *)
Terminalize(state) ==
  /\ mem.conv \in Admitting
  /\ state = "Succeeded" => InState(mem, Unfinished) = {}
  /\ Observes(Ended(mem, state), "done", "otherError")

(* Mutant: the loop is left at the first error, and nobody looks behind.   *)
LeavesAnyway ==
  /\ up /\ observer \in Failing \cup {"ending"}
  /\ observer' = "done"
  /\ UNCHANGED <<store, up, refusal, clients, troubles>>
(* The reads that follow a failure: the tables may hold the verdict, in a  *)
(* transaction that a failed COMMIT left open.                             *)
FindsEnded ==
  /\ up /\ observer \in Failing \cup {"ending"}
  /\ mem.conv \in Terminal
  /\ observer' = "done"
  /\ UNCHANGED <<store, up, refusal, clients, troubles>>

(* The child is stopped and the conversation ended.  With that done an     *)
(* error of State latches the refusal unless the stop failed; an end that  *)
(* fails is itself an error of State.                                      *)
GiveUp ==
  /\ up /\ observer \in Failing
  /\ mem.conv \notin Terminal
  /\ \/ Commits(Ended(mem, "Indeterminate"))
        /\ refusal' \in {refusal, refusal \/ observer = "stateError"}
     \/ Errs(Ended(mem, "Indeterminate")) /\ refusal' = TRUE
  /\ observer' = "ending"
  /\ UNCHANGED <<up, clients>>

(* Behind the loop a conversation that goes on is ended once more.         *)
EndsUnfinished ==
  /\ up /\ observer = "ending"
  /\ mem.conv \notin Terminal
  /\ \/ Commits(Ended(mem, "Indeterminate")) /\ UNCHANGED refusal
     \/ Errs(Ended(mem, "Indeterminate")) /\ refusal' = TRUE
  /\ observer' = "done"
  /\ UNCHANGED <<up, clients>>

----------------------------------------------------------------------------
(* conversation_wait: control/conversation.rs wait *)

ClientUnchanged == UNCHANGED <<store, up, refusal, observer, troubles>>

Cursor(c) == IF received[c] = <<>> THEN 0 ELSE Last(received[c]).seq

(* Mutant: the event after the cursor is taken for the one at the cursor.  *)
LaterByTwo(d, after) ==
  SubSeq(d.log, Cardinality({i \in DOMAIN d.log : d.log[i].seq <= after + 1}) + 1, Len(d.log))
(* list_after: the rows beyond the cursor, in the order of their numbers,   *)
(* which is that of the log.                                               *)
ListAfter(d, after)  ==
  SubSeq(d.log, Cardinality({i \in DOMAIN d.log : d.log[i].seq <= after}) + 1, Len(d.log))

(* Mutant: a terminal conversation is answered without its last events.    *)
EndedOnly(c) == [ended |-> mem.conv \in Terminal,
                 events |-> IF mem.conv \in Terminal THEN <<>> ELSE ListAfter(mem, Cursor(c))]
(* Mutant: an indeterminate conversation does not count as ended.          *)
KnownEnds(c) == [ended |-> mem.conv \in Terminal \ {"Indeterminate"},
                 events |-> ListAfter(mem, Cursor(c))]
(* get_conversation_snapshot: conversation and events in one read.         *)
Snapshot(c)  == [ended |-> mem.conv \in Terminal, events |-> ListAfter(mem, Cursor(c))]

(* A client asks for what comes after its last event.                      *)
Ask(c) ==
  /\ Served /\ mem.conv # "absent"
  /\ call[c] = "idle"
  /\ call' = [call EXCEPT ![c] = "waiting"]
  /\ UNCHANGED <<reply, received>> /\ ClientUnchanged

Answer(c) ==
  /\ Served /\ call[c] = "waiting"
  /\ reply' = [reply EXCEPT ![c] = Snapshot(c)]
  /\ call' = [call EXCEPT ![c] = "answered"]
  /\ UNCHANGED received /\ ClientUnchanged

(* The loop ends with something to tell, or at the deadline.               *)
WaitAnswers(c)  == (Snapshot(c).events # <<>> \/ Snapshot(c).ended) /\ Answer(c)
WaitTimesOut(c) == Snapshot(c).events = <<>> /\ ~Snapshot(c).ended /\ Answer(c)

WaitRefused(c) ==
  /\ up /\ refusal /\ call[c] = "waiting"
  /\ call' = [call EXCEPT ![c] = "idle"]
  /\ UNCHANGED <<reply, received>> /\ ClientUnchanged

(* The client adds the events to what it has, and is done when the         *)
(* conversation of the snapshot is terminal.                               *)
Receive(c) ==
  /\ call[c] = "answered"
  /\ received' = [received EXCEPT ![c] = @ \o reply[c].events]
  /\ call' = [call EXCEPT ![c] = IF reply[c].ended THEN "stopped" ELSE "idle"]
  /\ reply' = [reply EXCEPT ![c] = NoReply]
  /\ ClientUnchanged

(* The connection or the MCP process ends before the answer is there.      *)
Disconnect(c) ==
  /\ call[c] \in {"waiting", "answered"}
  /\ call' = [call EXCEPT ![c] = "idle"]
  /\ reply' = [reply EXCEPT ![c] = NoReply]
  /\ UNCHANGED received /\ ClientUnchanged

----------------------------------------------------------------------------
(* The daemon stops, and a later one opens the same State file *)

Crash ==
  /\ up /\ troubles < MaxTroubles
  /\ open => OpenCrash
  /\ troubles' = troubles + 1
  /\ up' = FALSE /\ refusal' = FALSE /\ observer' = "none"
  /\ mem' = disk /\ open' = FALSE
  /\ call' = [c \in Clients |-> IF call[c] = "stopped" THEN "stopped" ELSE "idle"]
  /\ reply' = [c \in Clients |-> NoReply]
  /\ UNCHANGED <<disk, received>>

(* recover: a conversation that is not terminal becomes Indeterminate.     *)
Recovered == IF mem.conv \in Admitting THEN Ended(mem, "Indeterminate") ELSE mem

(* Without a number for its events the daemon does not start.              *)
Restart ==
  /\ ~up
  /\ \/ Commits(Recovered) /\ up' = TRUE
     \/ Errs(Recovered) /\ open' = FALSE /\ UNCHANGED <<up, mem, disk>>
  /\ UNCHANGED <<refusal, observer, clients>>

(* Every client is done, or the daemon refuses them: it serves no wait.    *)
Quiescent ==
  /\ up /\ \A c \in Clients : call[c] = "stopped" \/ (refusal /\ call[c] = "idle")
  /\ UNCHANGED vars

----------------------------------------------------------------------------

Next ==
  \/ \E t \in Turns : PersistTurn(t) \/ RecordAcknowledged(t)
  \/ \E t \in Turns, s \in {"Started", "Completed", "Failed"} : RecordTurn(t, s)
  \/ \E id \in Identities : RecordInitialization(id)
  \/ \E s \in Terminal : Terminalize(s)
  \/ PersistStart \/ Close \/ FindsEnded \/ GiveUp \/ EndsUnfinished
  \/ \E c \in Clients :
       \/ Ask(c) \/ WaitAnswers(c) \/ WaitTimesOut(c) \/ WaitRefused(c)
       \/ Receive(c) \/ Disconnect(c)
  \/ Crash \/ Restart \/ Quiescent

Spec == Init /\ [][Next]_vars

(* A client that is not done asks again, the daemon answers it when there  *)
(* is something to tell, and the connection is not lost for ever.          *)
Fairness ==
  \A c \in Clients : /\ WF_vars(Ask(c))
                     /\ SF_vars(WaitAnswers(c)) /\ SF_vars(Receive(c))

FairSpec == Spec /\ Fairness

----------------------------------------------------------------------------
(* Properties *)

(* The events alone tell what the tables say: the last event of a turn     *)
(* names its state, over rollbacks, crashes and the resolution of turns    *)
(* that were never answered; and the timeline of a conversation that is    *)
(* over ends with its outcome.                                             *)
About(t, d) == {i \in DOMAIN d.log : /\ d.log[i].payload[1] \in TurnEvents \ {"TurnAcknowledged"}
                                     /\ d.log[i].payload[2] = t}

EventsExplainTables ==
  /\ \A t \in Turns :
       IF mem.turn[t].state = "absent" THEN About(t, mem) = {}
       ELSE /\ About(t, mem) # {}
            /\ mem.log[Highest(About(t, mem))].payload[1] = StateEvents[mem.turn[t].state]
  /\ mem.conv \in Terminal =>
       mem.log # <<>> /\ Last(mem.log).payload = <<"ConversationTerminal", mem.conv>>

(* Turns are numbered without a gap in the order in which they were        *)
(* queued, so the writer that delivers them by position never waits for a  *)
(* position nobody has.                                                    *)
QueuedBy(t) == CHOOSE i \in DOMAIN mem.log : mem.log[i].payload = <<"TurnQueued", t>>

PositionsFollowEvents ==
  LET queued == {t \in Turns : mem.turn[t].state # "absent"}
  IN  /\ {mem.turn[t].position : t \in queued} = 1..Cardinality(queued)
      /\ \A s, t \in queued :
           (mem.turn[s].position < mem.turn[t].position <=> QueuedBy(s) < QueuedBy(t))

(* Every Initialized event names the identity the operation has, so the    *)
(* evidence of a session is what every client of it was told.              *)
OneIdentity == \A i \in Initializations(mem) : mem.log[i].payload[2] = mem.observed

(* What the tables say and what the timeline tells agree.                  *)
TablesAgree == TypeOK /\ EventsExplainTables /\ PositionsFollowEvents /\ OneIdentity

(* A client stops at the first snapshot of a terminal conversation: it has *)
(* every event then, however often it was disconnected before.             *)
StoppedHasAll == \A c \in Clients : call[c] = "stopped" => received[c] = mem.log

(* The timeline and its clients implement the promise of CursorStream.     *)
Promise == INSTANCE CursorStream
  WITH Items <- Events, Final <- FinalEvents, log <- mem.log

ImplementsCursorStream == Promise!StreamSpec

(* Once the conversation is over, or nobody observes it any more, a client *)
(* that keeps asking is told the end, unless the daemon refuses or is      *)
(* gone: a failure that latches no refusal has ended the conversation.     *)
TerminalIsTold ==
  \A c \in Clients :
    (mem.conv \in Terminal \/ observer = "done") ~> (call[c] = "stopped" \/ refusal \/ ~up)

=============================================================================
