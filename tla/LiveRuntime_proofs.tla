-------------------------- MODULE LiveRuntime_proofs --------------------------
(***************************************************************************)
(* Proofs about LiveRuntime, for any number of turns, pipes of any size,   *)
(* and a child that departs from the protocol as often as it likes.        *)
(*                                                                         *)
(* First the invariant that ties the codec to what Control was told, and   *)
(* from it that the observer tells the sequence of LiveObservations.  Then *)
(* the child that follows the protocol: its lines are a walk from what the *)
(* codec knows to what the child works on, so that none is refused.        *)
(***************************************************************************)
EXTENDS LiveRuntime, SequenceTheorems, TLAPS

(* The definitions that group variables or say what a step leaves alone.   *)
USE DEF handle, input, agent, codec, vars, HandleUnchanged, WriterUnchanged, ChildUnchanged,
        ObserverUnchanged, Goes, NoTurn

----------------------------------------------------------------------------
(* The inductive invariant *)

Answered == {"ResultObserved", "Completed"}
Begun    == {"Started"} \cup Answered
Unqueued == {"none", "AwaitingQueue"}
Ending   == {"cleanup", "done"}

(* The turn that is being written was sent. *)
Writing == writer = "write" => next <= sent

(* The phase of a turn is what Control was told of it. *)
PhasesTold ==
  /\ \A t \in Turns : /\ phase[t] \in Unqueued <=> ~Promise!Said("TurnQueued", t)
                      /\ phase[t] \in Begun <=> Promise!Said("TurnStarted", t)
                      /\ phase[t] = "Completed" <=> Promise!Said("TurnCompleted", t)
                      /\ phase[t] \in Answered => initialized
  /\ \A t, u \in Turns : /\ phase[t] \in {"Started", "ResultObserved"}
                         /\ phase[u] \in {"Started", "ResultObserved"}
                         => t = u
  /\ initialized => Promise!Said("Initialized", NoTurn)

(* The observer ends once, with the verdict that it has reached. *)
VerdictTold ==
  /\ verdict = "none" <=> observer \notin Ending
  /\ \A t \in Turns : Promise!Said("TurnFailed", t) => verdict = "Failed"
  /\ verdict = "Failed" => \E t \in Turns : Promise!Said("TurnFailed", t)
  /\ \A v \in Promise!Terminal : Promise!Said(v, NoTurn) => observer = "done"

(* A turn the writer took is reported or registered, and no other is. *)
Reporting(t) == \E i \in DOMAIN reports : reports[i] = <<"prepared", t>>
Known(t)     == Reporting(t) \/ phase[t] # "none"

ReportsKnown ==
  /\ \A t \in Turns : Reporting(t) => phase[t] = "none"
  /\ \A t \in Turns : t < next \/ (t = next /\ writer = "write") => Known(t)
  /\ \A t \in Turns : t > next \/ (t = next /\ writer \in {"permission", "ready"}) => ~Known(t)

(* After the exit the reports were read again, and no turn is written. *)
Rested ==
  /\ observer = "rest" => HasExited /\ \A t \in Turns : t < next => phase[t] # "none"
  /\ verdict = "Exited" => /\ HasExited /\ AllCompleted
                           /\ \A t \in Turns : t < next => phase[t] = "Completed"

IInv == TypeOK /\ Writing /\ PhasesTold /\ VerdictTold /\ ReportsKnown /\ Rested
----------------------------------------------------------------------------
(* Types *)

WriterReports  == ({"prepared"} \X Turns) \cup {<<"closed", NoTurn>>, <<"failed", NoTurn>>}
ControlReports == (TurnKinds \X Turns) \cup (({"Initialized"} \cup Verdicts) \X {NoTurn})

HandleOK == sent \in Turns /\ graceful \in 0..sent /\ stopping \in {"none", "cancelled", "killed"}
WriterOK == /\ next \in 1..(sent + 1) /\ writer \in {"permission", "ready", "write", "done"}
            /\ reports \in Seq(WriterReports)
ChildOK  == /\ child \in {"alive", "killed", "exited_ok", "exited_bad"}
            /\ stdin \in Seq(Turns) /\ Len(stdin) <= StdinRoom
            /\ stdout \in Seq(Line) /\ Len(stdout) <= StdoutRoom
            /\ inbox \in Seq(Turns) /\ work \in Seq(Line) /\ strays \in 0..MaxStrays
ObserverOK ==
  /\ observer \in {"reports", "poll", "again", "lines", "status", "rest", "cleanup", "done"}
  /\ buffer \in Seq(Line)
  /\ initialized \in BOOLEAN /\ phase \in [Turns -> Phases]
  /\ verdict \in {"none"} \cup Verdicts
  /\ observations \in Seq(ControlReports)

LEMMA TypeParts == TypeOK <=> HandleOK /\ WriterOK /\ ChildOK /\ ObserverOK
BY DEF TypeOK, HandleOK, WriterOK, ChildOK, ObserverOK, WriterReports, ControlReports

LEMMA TurnsAre == Turns = 1..MaxTurns /\ MaxTurns \in Nat /\ 1 \in Turns /\ Turns \subseteq Nat
BY RuntimeAssumption DEF Turns

LEMMA SequenceTypes ==
  ASSUME NEW S, NEW s \in Seq(S)
  PROVE  /\ \A x \in S : Append(s, x) \in Seq(S) /\ Len(Append(s, x)) = Len(s) + 1
         /\ \A u \in Seq(S) : s \o u \in Seq(S)
         /\ s # <<>> => Head(s) \in S /\ Tail(s) \in Seq(S) /\ Len(Tail(s)) = Len(s) - 1
         /\ Len(s) \in Nat
  OBVIOUS

LEMMA TypeInit == Init => TypeOK
<1> SUFFICES ASSUME Init
             PROVE  HandleOK /\ WriterOK /\ ChildOK /\ ObserverOK
  BY TypeParts
<1>1. HandleOK /\ WriterOK
  BY TurnsAre DEF Init, HandleOK, WriterOK
<1>2. ChildOK
  BY RuntimeAssumption DEF Init, ChildOK
<1>3. ObserverOK
  <2>1. initialized \in BOOLEAN
    BY Zenon DEF Init
  <2>2. QED BY <2>1 DEF Init, ObserverOK, Phases
<1>4. QED BY <1>1, <1>2, <1>3

(* Lines of an answer. *)
LEMMA AnswerType ==
  ASSUME NEW t \in Turns
  PROVE  Answer(t) \subseteq Seq(Line)
<1>1. /\ \A k \in OfTurn : Event(k, t) \in Line
      /\ \A k \in OfChild : Event(k, NoTurn) \in Line
  BY DEF Event, Line
<1>2. /\ Event("init", NoTurn) \in Line /\ Event("replay", t) \in Line
      /\ Event("delta", NoTurn) \in Line /\ Event("assistant", NoTurn) \in Line
      /\ Event("started", t) \in Line /\ Event("result", NoTurn) \in Line
      /\ Event("completed", t) \in Line /\ Event("error", NoTurn) \in Line
  BY <1>1 DEF OfTurn, OfChild
<1> DEFINE S == Seq(Line)
<1>3. \A l \in Line : <<l>> \in S
  OBVIOUS
<1>4. /\ Says("init", NoTurn) \in S /\ Says("replay", t) \in S
      /\ Says("delta", NoTurn) \in S /\ Says("assistant", NoTurn) \in S
  BY <1>2, <1>3 DEF Says
<1>5. \A a, b \in S : a \o b \in S
  OBVIOUS
<1>6. <<Event("started", t)>> \in S /\ <<Event("error", NoTurn)>> \in S
      /\ <<Event("result", NoTurn), Event("completed", t)>> \in S
  BY <1>2
<1> HIDE DEF S
<1>7. Spoken(t) \in S
  BY <1>4, <1>5 DEF Spoken
<1>8. \A outcome \in S : <<Event("started", t)>> \o Spoken(t) \o outcome \in S
  BY <1>5, <1>6, <1>7
<1>9. QED BY <1>6, <1>8 DEF Answer, S

(* More turns may be sent. *)
LEMMA Later ==
  ASSUME NEW n \in Nat, NEW k \in Nat, NEW m \in Nat, k <= m, n \in 1..(k + 1)
  PROVE  n \in 1..(m + 1) /\ (n <= k => n <= m)
  OBVIOUS

LEMMA TypeHandle ==
  ASSUME TypeOK, Writing, Send \/ Close \/ Cancel \/ Kill
  PROVE  TypeOK' /\ Writing'
<1>1. HandleOK /\ WriterOK /\ ChildOK /\ ObserverOK
  BY TypeParts
<1>2. HandleOK' /\ sent' \in Nat /\ sent <= sent'
  <2>1. CASE Send
    BY <1>1, <2>1, TurnsAre DEF Send, HandleOK
  <2>2. CASE Close \/ Cancel \/ Kill
    BY <1>1, <2>2, TurnsAre DEF Close, Cancel, Kill, HandleOK
  <2>3. QED BY <2>1, <2>2
<1>3. /\ <<input, stdin, stdout, agent, observer, buffer, codec, verdict, observations>>' =
           <<input, stdin, stdout, agent, observer, buffer, codec, verdict, observations>>
      /\ child' \in {child, Killed}
  BY DEF Send, Close, Cancel, Kill, Terminated
<1>4. WriterOK' /\ Writing'
  <2>1. next' = next /\ writer' = writer /\ reports' = reports
    BY <1>3
  <2>2. sent \in Nat /\ next \in Nat
    BY <1>1, TurnsAre DEF HandleOK, WriterOK
  <2>3. next' \in 1..(sent' + 1) /\ (next <= sent => next' <= sent')
    <3>1. next \in 1..(sent + 1) /\ sent' \in Nat /\ sent <= sent'
      BY <1>1, <1>2 DEF WriterOK
    <3>2. QED BY <2>1, <2>2, <3>1, Later
  <2>4. QED BY <1>1, <2>1, <2>3 DEF WriterOK, Writing
<1>5. ChildOK'
  BY <1>1, <1>3 DEF ChildOK, Killed
<1>6. ObserverOK'
  BY <1>1, <1>3 DEF ObserverOK
<1>7. (HandleOK /\ WriterOK /\ ChildOK /\ ObserverOK => TypeOK)'
  BY TypeParts, PTL
<1>8. QED BY <1>2, <1>4, <1>5, <1>6, <1>7

LEMMA TypeWriter ==
  ASSUME TypeOK, Writing, Permission \/ WriterStep
  PROVE  TypeOK' /\ Writing'
<1>1. HandleOK /\ WriterOK /\ ChildOK /\ ObserverOK
  BY TypeParts
<1>2. <<handle, child, stdout, agent, observer, buffer, codec, verdict, observations>>' =
        <<handle, child, stdout, agent, observer, buffer, codec, verdict, observations>>
  BY DEF Permission, WriterStep, Prepare, Write, WriteFails, CloseStdin, Leave
<1>3. HandleOK' /\ ObserverOK'
  BY <1>1, <1>2 DEF HandleOK, ObserverOK
<1>4. sent \in Nat /\ sent \in Turns /\ next \in Nat /\ (next <= sent => next \in Turns)
  BY <1>1, TurnsAre DEF HandleOK, WriterOK
<1>5. /\ Append(reports, <<"failed", NoTurn>>) \in Seq(WriterReports)
      /\ Append(reports, <<"closed", NoTurn>>) \in Seq(WriterReports)
      /\ next <= sent => Append(reports, <<"prepared", next>>) \in Seq(WriterReports)
  <2>1. /\ <<"failed", NoTurn>> \in WriterReports /\ <<"closed", NoTurn>> \in WriterReports
        /\ next <= sent => <<"prepared", next>> \in WriterReports
    BY <1>4 DEF WriterReports
  <2>2. reports \in Seq(WriterReports)
    BY <1>1 DEF WriterOK
  <2> HIDE DEF NoTurn
  <2>3. QED BY <2>1, <2>2, SequenceTypes
<1>6. WriterOK' /\ ChildOK'
  <2>1. CASE Permission
    BY <1>1, <1>2, <1>5, <2>1 DEF Permission, Report, WriterOK, ChildOK
  <2>2. CASE Prepare
    BY <1>1, <1>2, <1>4, <1>5, <2>2 DEF Prepare, Ready, Report, WriterOK, ChildOK
  <2>3. CASE Write
    <3>1. next <= sent
      BY <2>3 DEF Write, Writing
    <3>2. next + 1 \in 1..(sent + 1)
      BY <1>4, <3>1
    <3>3. Append(stdin, next) \in Seq(Turns) /\ Len(Append(stdin, next)) = Len(stdin) + 1
          /\ Len(stdin) \in Nat
      BY <1>1, <1>4, <3>1, SequenceTypes DEF ChildOK
    <3>4. WriterOK'
      BY <1>1, <1>2, <2>3, <3>2 DEF Write, WriterOK
    <3>5. Len(stdin)' <= StdinRoom
      BY <2>3, <3>3, RuntimeAssumption DEF Write
    <3>6. ChildOK'
      BY <1>1, <1>2, <2>3, <3>3, <3>5 DEF Write, ChildOK
    <3>7. QED BY <3>4, <3>6
  <2>4. CASE WriteFails
    BY <1>1, <1>2, <1>5, <2>4 DEF WriteFails, Report, WriterOK, ChildOK
  <2>5. CASE CloseStdin
    BY <1>1, <1>2, <1>5, <2>5 DEF CloseStdin, Report, WriterOK, ChildOK
  <2>6. CASE Leave
    BY <1>1, <1>2, <2>6 DEF Leave, WriterOK, ChildOK
  <2>7. QED BY <2>1, <2>2, <2>3, <2>4, <2>5, <2>6 DEF WriterStep
<1>7. Writing'
  BY <1>2, <1>4 DEF Permission, WriterStep, Prepare, Ready, Write, WriteFails, CloseStdin, Leave,
     Writing
<1>8. (HandleOK /\ WriterOK /\ ChildOK /\ ObserverOK => TypeOK)'
  BY TypeParts, PTL
<1>9. QED BY <1>3, <1>6, <1>7, <1>8

LEMMA TypeChild ==
  ASSUME TypeOK, Writing, ChildStep \/ Rambles \/ Exits \/ Dies
  PROVE  TypeOK' /\ Writing'
<1>1. HandleOK /\ WriterOK /\ ChildOK /\ ObserverOK
  BY TypeParts
<1>2. <<handle, input, observer, buffer, codec, verdict, observations>>' =
        <<handle, input, observer, buffer, codec, verdict, observations>>
  BY DEF ChildStep, ReadsTurn, BeginsTurn, Answers, Finishes, Rambles, Exits, Dies
<1>3. HandleOK' /\ WriterOK' /\ ObserverOK' /\ Writing'
  BY <1>1, <1>2 DEF HandleOK, WriterOK, ObserverOK, Writing
<1>4. \A l \in Line : Emit(l) => stdout' \in Seq(Line) /\ Len(stdout') <= StdoutRoom
  <2> SUFFICES ASSUME NEW l \in Line, Emit(l)
               PROVE  stdout' \in Seq(Line) /\ Len(stdout') <= StdoutRoom
    OBVIOUS
  <2>1. stdout \in Seq(Line)
    BY <1>1 DEF ChildOK
  <2>2. Append(stdout, l) \in Seq(Line) /\ Len(Append(stdout, l)) = Len(stdout) + 1
        /\ Len(stdout) \in Nat
    BY <2>1, SequenceTypes
  <2>3. QED BY <2>2, RuntimeAssumption DEF Emit
<1>5. /\ stdin \in Seq(Turns) /\ inbox \in Seq(Turns) /\ work \in Seq(Line)
      /\ Len(stdin) <= StdinRoom
  BY <1>1 DEF ChildOK
<1>6. /\ stdin # <<>> => /\ Head(stdin) \in Turns /\ Tail(stdin) \in Seq(Turns)
                         /\ Len(Tail(stdin)) <= StdinRoom
                         /\ Append(inbox, Head(stdin)) \in Seq(Turns)
      /\ inbox # <<>> => Head(inbox) \in Turns /\ Tail(inbox) \in Seq(Turns)
      /\ work # <<>> => Head(work) \in Line /\ Tail(work) \in Seq(Line)
  BY <1>5, SequenceTypes, RuntimeAssumption
<1>7. ChildOK'
  <2>1. CASE ReadsTurn
    <3>1. Event("queued", Head(stdin)) \in Line
      BY <1>6, <2>1 DEF ReadsTurn, Event, Line, OfTurn
    <3>2. stdout' \in Seq(Line) /\ Len(stdout') <= StdoutRoom
      BY <1>4, <2>1, <3>1 DEF ReadsTurn
    <3>3. stdin' \in Seq(Turns) /\ Len(stdin') <= StdinRoom /\ inbox' \in Seq(Turns)
      BY <1>6, <2>1 DEF ReadsTurn
    <3>4. QED BY <1>1, <2>1, <3>2, <3>3 DEF ReadsTurn, ChildOK
  <2>2. CASE BeginsTurn
    <3>1. inbox' \in Seq(Turns) /\ work' \in Seq(Line)
      BY <1>6, <2>2, AnswerType DEF BeginsTurn
    <3>2. QED BY <1>1, <2>2, <3>1 DEF BeginsTurn, ChildOK
  <2>3. CASE Answers
    <3>1. stdout' \in Seq(Line) /\ Len(stdout') <= StdoutRoom /\ work' \in Seq(Line)
      BY <1>4, <1>6, <2>3 DEF Answers
    <3>2. QED BY <1>1, <2>3, <3>1 DEF Answers, ChildOK
  <2>4. CASE Rambles
    <3>1. stdout' \in Seq(Line) /\ Len(stdout') <= StdoutRoom
      BY <1>4, <2>4 DEF Rambles
    <3>2. work' \in Seq(Line)
      BY <1>5, <1>6, <2>4 DEF Rambles
    <3>3. strays' \in 0..MaxStrays
      BY <1>1, <2>4, RuntimeAssumption DEF Rambles, Departs, ChildOK
    <3>4. QED BY <1>1, <2>4, <3>1, <3>2, <3>3 DEF Rambles, Departs, ChildOK
  <2>5. CASE Exits
    <3>1. strays' \in 0..MaxStrays
      BY <1>1, <2>5, RuntimeAssumption DEF Exits, Departs, ChildOK
    <3>2. QED BY <1>1, <2>5, <3>1 DEF Exits, Departs, ChildOK
  <2>6. CASE Finishes \/ Dies
    BY <1>1, <2>6 DEF Finishes, Dies, ChildOK
  <2>7. QED BY <2>1, <2>2, <2>3, <2>4, <2>5, <2>6 DEF ChildStep
<1>8. (HandleOK /\ WriterOK /\ ChildOK /\ ObserverOK => TypeOK)'
  BY TypeParts, PTL
<1>9. QED BY <1>3, <1>7, <1>8

----------------------------------------------------------------------------
(* What a line does to the codec, with the turn it is about as a value *)

GoesOn == UNCHANGED <<child, observer, verdict>>

Advances(t, from, to) == /\ phase[t] = from
                         /\ phase' = [phase EXCEPT ![t] = to]
                         /\ UNCHANGED initialized /\ GoesOn

Tells(kind, t, from) == phase[t] \in from /\ UNCHANGED codec /\ Publish(kind, t)

Queues(t)       == Advances(t, "AwaitingQueue", "Queued") /\ Publish("TurnQueued", t)
Starts(t)       == /\ Advances(t, "Queued", "Started") /\ Publish("TurnStarted", t)
                   /\ ~HasActiveTurn
Acknowledges(t) == /\ Tells("TurnAcknowledged", t, {"Queued", "Started"})
                   /\ initialized /\ GoesOn
Speaks(t)       == Tells("AssistantTextDelta", t, {"Started"}) /\ initialized /\ GoesOn
Results(t)      == /\ Advances(t, "Started", "ResultObserved") /\ UNCHANGED observations
                   /\ initialized
Completes(t)    == Advances(t, "ResultObserved", "Completed") /\ Publish("TurnCompleted", t)
Fails(t)        == Tells("TurnFailed", t, {"Started"}) /\ Ends("Failed")
Initializes     == /\ initialized' = TRUE /\ UNCHANGED phase /\ GoesOn
                   /\ Publish("Initialized", NoTurn)
Refuses         == UNCHANGED <<codec, observations>> /\ Ends("Indeterminate")
Ignores         == UNCHANGED <<codec, observations>> /\ GoesOn

OfOneTurn(t) == \/ Queues(t) \/ Starts(t) \/ Acknowledges(t) \/ Speaks(t) \/ Results(t)
                \/ Completes(t) \/ Fails(t)

Reads == \/ Initializes \/ Refuses \/ Ignores
         \/ \E t \in Turns : OfOneTurn(t)

(* The turn of a line, and the only started turn. *)
LEMMA TurnOfLine ==
  ASSUME NEW l \in Line
  PROVE  l.kind \in OfTurn => l.turn \in Turns
  BY DEF Line, OfTurn, OfChild

LEMMA TheCurrent ==
  ASSUME Answering
  PROVE  Current \in Turns /\ phase[Current] = "Started" /\ initialized
<1>1. PICK t \in Turns : Started = {t}
  BY DEF Answering
<1>2. Current \in Turns /\ Started = {Current}
  BY <1>1, Zenon DEF Current
<1>3. QED BY <1>2 DEF Started, Answering

LEMMA LineCases ==
  ASSUME TypeOK, LineStep
  PROVE  /\ observer \in {"lines", "rest"} /\ buffer # <<>> /\ buffer' = Tail(buffer)
         /\ UNCHANGED <<handle, writer, next, stdin, agent, reports, stdout>>
         /\ Reads
<1>1. /\ observer \in {"lines", "rest"} /\ buffer # <<>> /\ buffer' = Tail(buffer)
      /\ UNCHANGED <<handle, writer, next, stdin, agent, reports, stdout>>
  BY DEF LineStep, InitLine, QueuedLine, StartedLine, ReplayLine, DeltaLine, ResultLine,
     CompletedLine, SilentLine, ErrorLine, RefusedLine, NextLine, Took
<1>2. Head(buffer) \in Line
  BY <1>1, TypeParts, SequenceTypes DEF ObserverOK
<1>3. Head(buffer).kind \in OfTurn => Turn \in Turns
  BY <1>2, TurnOfLine DEF Turn
<1>4. CASE InitLine
  <2>1. Initializes
    BY <1>4 DEF InitLine, Took, Initializes, GoesOn
  <2>2. QED BY <1>1, <2>1 DEF Reads
<1>5. CASE QueuedLine
  <2>1. Turn \in Turns /\ Queues(Turn)
    BY <1>3, <1>5 DEF QueuedLine, NextLine, OfTurn, Took, Phase, Queues, Advances, GoesOn
  <2>2. QED BY <1>1, <2>1 DEF Reads, OfOneTurn
<1>6. CASE StartedLine
  <2>1. Turn \in Turns /\ Starts(Turn)
    BY <1>3, <1>6 DEF StartedLine, NextLine, OfTurn, Took, Phase, Starts, Advances, GoesOn
  <2>2. QED BY <1>1, <2>1 DEF Reads, OfOneTurn
<1>7. CASE ReplayLine
  <2>1. Turn \in Turns /\ Acknowledges(Turn)
    BY <1>3, <1>7 DEF ReplayLine, NextLine, OfTurn, Took, Acknowledges, Tells, GoesOn
  <2>2. QED BY <1>1, <2>1 DEF Reads, OfOneTurn
<1>8. CASE DeltaLine
  <2>1. Current \in Turns /\ Speaks(Current)
    BY <1>8, TheCurrent DEF DeltaLine, Took, Speaks, Tells, GoesOn
  <2>2. QED BY <1>1, <2>1 DEF Reads, OfOneTurn
<1>9. CASE ResultLine
  <2>1. Current \in Turns /\ Results(Current)
    BY <1>9, TheCurrent DEF ResultLine, Took, Phase, Results, Advances, GoesOn
  <2>2. QED BY <1>1, <2>1 DEF Reads, OfOneTurn
<1>10. CASE CompletedLine
  <2>1. Turn \in Turns /\ Completes(Turn)
    BY <1>3, <1>10 DEF CompletedLine, NextLine, OfTurn, Took, Phase, Completes, Advances, GoesOn
  <2>2. QED BY <1>1, <2>1 DEF Reads, OfOneTurn
<1>11. CASE SilentLine
  <2>1. Ignores
    BY <1>11 DEF SilentLine, Took, Ignores, GoesOn
  <2>2. QED BY <1>1, <2>1 DEF Reads
<1>12. CASE ErrorLine
  <2>1. Current \in Turns /\ Fails(Current)
    BY <1>12, TheCurrent DEF ErrorLine, Fails, Tells
  <2>2. QED BY <1>1, <2>1 DEF Reads, OfOneTurn
<1>13. CASE RefusedLine
  <2>1. Refuses
    BY <1>13 DEF RefusedLine, Refuses
  <2>2. QED BY <1>1, <2>1 DEF Reads
<1>14. QED
  BY <1>4, <1>5, <1>6, <1>7, <1>8, <1>9, <1>10, <1>11, <1>12, <1>13 DEF LineStep

----------------------------------------------------------------------------
(* Types of the observer's steps *)

LEMMA PublishedType ==
  ASSUME TypeOK
  PROVE  /\ \A k \in TurnKinds, t \in Turns :
              Publish(k, t) => observations' \in Seq(ControlReports)
         /\ \A k \in {"Initialized"} \cup Verdicts :
              Publish(k, NoTurn) => observations' \in Seq(ControlReports)
<1>1. observations \in Seq(ControlReports)
  BY TypeParts DEF ObserverOK
<1>2. \A r \in ControlReports : Append(observations, r) \in Seq(ControlReports)
  BY <1>1, SequenceTypes
<1>3. /\ \A k \in TurnKinds, t \in Turns : <<k, t>> \in ControlReports
      /\ \A k \in {"Initialized"} \cup Verdicts : <<k, NoTurn>> \in ControlReports
  BY DEF ControlReports
<1>4. QED BY <1>2, <1>3 DEF Publish

LEMMA Published ==
  ASSUME TypeOK, NEW kind, NEW t, Publish(kind, t)
  PROVE  \A k, u : Promise!Said(k, u)' <=> Promise!Said(k, u) \/ (k = kind /\ u = t)
<1>1. observations \in Seq(ControlReports)
  BY TypeParts DEF ObserverOK
<1>2. /\ DOMAIN observations = 1..Len(observations) /\ Len(observations) \in Nat
      /\ DOMAIN observations' = 1..(Len(observations) + 1)
      /\ \A i \in 1..Len(observations) : observations'[i] = observations[i]
      /\ observations'[Len(observations) + 1] = <<kind, t>>
  BY <1>1 DEF Publish
<1>3. \A i : i \in 1..(Len(observations) + 1) <=> i \in 1..Len(observations)
                                                  \/ i = Len(observations) + 1
  BY <1>2
<1>4. SUFFICES ASSUME NEW k, NEW u
               PROVE  Promise!Said(k, u)' <=> Promise!Said(k, u) \/ (k = kind /\ u = t)
  OBVIOUS
<1>5. <<k, u>> = <<kind, t>> <=> k = kind /\ u = t
  OBVIOUS
<1>6. QED BY <1>2, <1>3, <1>5 DEF Promise!Said

(* The type of what a line changes. *)
LEMMA TypeReads ==
  ASSUME TypeOK, Reads
  PROVE  /\ initialized' \in BOOLEAN /\ phase' \in [Turns -> Phases]
         /\ observations' \in Seq(ControlReports)
         /\ \/ GoesOn
            \/ observer' = "cleanup" /\ verdict' \in Verdicts /\ child' = Killed
<1>1. /\ initialized \in BOOLEAN /\ phase \in [Turns -> Phases]
      /\ observations \in Seq(ControlReports)
  BY TypeParts DEF ObserverOK
<1>2. CASE Initializes
  <2>1. initialized' \in BOOLEAN
    BY <1>2, Zenon DEF Initializes
  <2>2. QED BY <1>1, <1>2, <2>1, PublishedType DEF Initializes
<1>3. CASE Refuses \/ Ignores
  BY <1>1, <1>3 DEF Refuses, Ignores, Ends, Verdicts
<1>4. ASSUME NEW t \in Turns, OfOneTurn(t)
      PROVE  /\ initialized' \in BOOLEAN /\ phase' \in [Turns -> Phases]
             /\ observations' \in Seq(ControlReports)
             /\ \/ GoesOn
                \/ observer' = "cleanup" /\ verdict' \in Verdicts /\ child' = Killed
  <2>1. /\ initialized' = initialized
        /\ \/ GoesOn
           \/ observer' = "cleanup" /\ verdict' \in Verdicts /\ child' = Killed
    BY <1>4 DEF OfOneTurn, Queues, Starts, Acknowledges, Speaks, Results, Completes, Fails,
       Advances, Tells, Ends, Verdicts
  <2>2. \/ phase' = phase
        \/ \E p \in Phases : phase' = [phase EXCEPT ![t] = p]
    BY <1>4 DEF OfOneTurn, Queues, Starts, Acknowledges, Speaks, Results, Completes, Fails,
       Advances, Tells, Phases
  <2>3. phase' \in [Turns -> Phases]
    BY <1>1, <2>2
  <2>4. \/ observations' = observations
        \/ \E k \in TurnKinds : Publish(k, t)
    BY <1>4 DEF OfOneTurn, Queues, Starts, Acknowledges, Speaks, Results, Completes, Fails,
       Tells, TurnKinds
  <2>5. observations' \in Seq(ControlReports)
    BY <1>1, <2>4, PublishedType
  <2>6. QED BY <1>1, <2>1, <2>3, <2>5
<1>5. QED BY <1>2, <1>3, <1>4 DEF Reads

LEMMA RegisteredType ==
  ASSUME TypeOK
  PROVE  Registered \in [Turns -> Phases]
  BY TypeParts DEF ObserverOK, Registered, Phases

(* How the rest of the observer's loop treats the pipes and the reports. *)
LoopStep == \/ ConsumeReports("reports", "poll") \/ Poll \/ Again
            \/ LinesEnd \/ StillRuns \/ HasEnded \/ Classify

LEMMA LoopCases ==
  ASSUME LoopStep
  PROVE  /\ UNCHANGED <<handle, writer, next, stdin, agent, initialized, observations>>
         /\ reports' \in {reports, <<>>} /\ stdout' \in {stdout, <<>>}
         /\ buffer' \in {buffer, buffer \o stdout}
         /\ phase' \in {phase, Registered}
         /\ \/ /\ UNCHANGED <<child, verdict>>
               /\ observer' \in {"reports", "poll", "again", "lines", "status", "rest"}
            \/ /\ observer' = "cleanup" /\ child' = Killed
               /\ verdict' \in {"Cancelled", "Exited", "Indeterminate"}
<1>1. CASE ConsumeReports("reports", "poll")
  BY <1>1 DEF ConsumeReports, Ends
<1>2. CASE Again
  BY <1>2 DEF Again, ConsumeReports, Ends
<1>3. CASE Poll \/ LinesEnd \/ StillRuns
  BY <1>3 DEF Poll, LinesEnd, StillRuns
<1>4. CASE HasEnded
  BY <1>4 DEF HasEnded, DrainReady, AllTurns, Ends
<1>5. CASE Classify
  BY <1>5 DEF Classify, Ends
<1>6. QED BY <1>1, <1>2, <1>3, <1>4, <1>5 DEF LoopStep

LEMMA TypeObserver ==
  ASSUME TypeOK, Writing, VerdictTold, ObserverStep
  PROVE  TypeOK' /\ Writing'
<1>1. HandleOK /\ WriterOK /\ ChildOK /\ ObserverOK
  BY TypeParts
<1>2. /\ UNCHANGED <<handle, writer, next, stdin, agent>>
      /\ child' \in {child, Killed}
      /\ reports' \in {reports, <<>>} /\ stdout' \in {stdout, <<>>}
      /\ ObserverOK'
  <2>1. CASE LoopStep
    <3>1. buffer' \in Seq(Line)
      <4>1. buffer \in Seq(Line) /\ stdout \in Seq(Line)
        BY <1>1 DEF ObserverOK, ChildOK
      <4>2. buffer \o stdout \in Seq(Line)
        BY <4>1, SequenceTypes
      <4>3. QED BY <2>1, <4>1, <4>2, LoopCases
    <3>2. phase' \in [Turns -> Phases]
      BY <1>1, <2>1, LoopCases, RegisteredType DEF ObserverOK
    <3>3. QED BY <1>1, <2>1, <3>1, <3>2, LoopCases DEF ObserverOK, Verdicts
  <2>2. CASE LineStep
    <3>1. buffer' \in Seq(Line)
      BY <1>1, <2>2, LineCases, SequenceTypes DEF ObserverOK
    <3>2. QED BY <1>1, <2>2, <3>1, LineCases, TypeReads DEF ObserverOK, GoesOn
  <2>3. CASE PublishAfterCleanup
    <3>1. verdict \in Verdicts
      BY <1>1, <2>3 DEF PublishAfterCleanup, VerdictTold, Ending, ObserverOK
    <3>2. observations' \in Seq(ControlReports)
      BY <2>3, <3>1, PublishedType DEF PublishAfterCleanup
    <3>3. QED BY <1>1, <2>3, <3>2 DEF PublishAfterCleanup, ObserverOK
  <2>4. QED BY <2>1, <2>2, <2>3 DEF ObserverStep, LoopStep
<1>3. HandleOK' /\ Writing'
  BY <1>1, <1>2 DEF HandleOK, Writing
<1>4. WriterOK' /\ ChildOK'
  <2>1. Len(<<>>) <= StdoutRoom /\ \A S : <<>> \in Seq(S)
    BY RuntimeAssumption
  <2>2. QED BY <1>1, <1>2, <2>1 DEF WriterOK, ChildOK, Killed
<1>5. (HandleOK /\ WriterOK /\ ChildOK /\ ObserverOK => TypeOK)'
  BY TypeParts, PTL
<1>6. QED BY <1>2, <1>3, <1>4, <1>5

----------------------------------------------------------------------------
(* What Control was told and the phases of the turns *)

LEMMA PhasesInit == Init => PhasesTold /\ VerdictTold /\ ReportsKnown /\ Rested /\ Writing
<1> SUFFICES ASSUME Init
             PROVE  PhasesTold /\ VerdictTold /\ ReportsKnown /\ Rested /\ Writing
  OBVIOUS
<1>1. \A k, u : ~Promise!Said(k, u)
  BY DEF Init, Promise!Said
<1>2. \A t \in Turns : phase[t] = "none"
  BY DEF Init
<1>3. \A t \in Turns : ~Reporting(t)
  BY DEF Init, Reporting
<1>4. PhasesTold
  BY <1>1, <1>2 DEF Init, PhasesTold, Unqueued, Begun, Answered
<1>5. VerdictTold
  BY <1>1 DEF Init, VerdictTold, Ending
<1>6. ReportsKnown
  BY <1>2, <1>3, TurnsAre DEF Init, ReportsKnown, Known
<1>7. Rested /\ Writing
  BY DEF Init, Rested, Writing
<1>8. QED BY <1>4, <1>5, <1>6, <1>7

LEMMA PhasesKept ==
  ASSUME PhasesTold, UNCHANGED <<codec, observations>>
  PROVE  PhasesTold'
<1>1. \A k, u : Promise!Said(k, u)' <=> Promise!Said(k, u)
  BY DEF Promise!Said
<1>2. phase' = phase /\ initialized' = initialized
  OBVIOUS
<1>3. QED BY <1>1, <1>2 DEF PhasesTold

LEMMA PhasesRegistered ==
  ASSUME TypeOK, PhasesTold, ReportsKnown, phase' \in {phase, Registered},
         UNCHANGED <<initialized, observations>>
  PROVE  PhasesTold'
<1>1. \A k, u : Promise!Said(k, u)' <=> Promise!Said(k, u)
  BY DEF Promise!Said
<1>2. \A t \in Turns : \/ phase'[t] = phase[t]
                       \/ phase[t] = "none" /\ phase'[t] = "AwaitingQueue"
  BY DEF Registered, ReportsKnown, Reporting
<1>3. QED BY <1>1, <1>2 DEF PhasesTold, Unqueued, Begun, Answered

LEMMA PhasesReads ==
  ASSUME TypeOK, PhasesTold, Reads
  PROVE  PhasesTold'
<1>1. phase \in [Turns -> Phases]
  BY TypeParts DEF ObserverOK
<1>2. CASE Refuses \/ Ignores
  BY <1>2, PhasesKept DEF Refuses, Ignores
<1>3. CASE Initializes
  <2>1. \A k, u : Promise!Said(k, u)' <=> Promise!Said(k, u)
                                          \/ (k = "Initialized" /\ u = NoTurn)
    BY <1>3, Published DEF Initializes
  <2>2. initialized' /\ phase' = phase
    BY <1>3 DEF Initializes
  <2>3. QED BY <2>1, <2>2 DEF PhasesTold
<1>4. ASSUME NEW t \in Turns, OfOneTurn(t)
      PROVE  PhasesTold'
  <2>1. CASE Queues(t)
    <3>1. \A k, u : Promise!Said(k, u)' <=> Promise!Said(k, u) \/ (k = "TurnQueued" /\ u = t)
      BY <2>1, Published DEF Queues
    <3>2. /\ phase[t] = "AwaitingQueue" /\ initialized' = initialized
          /\ \A u \in Turns : phase'[u] = IF u = t THEN "Queued" ELSE phase[u]
      BY <1>1, <2>1 DEF Queues, Advances
    <3>3. QED BY <3>1, <3>2 DEF PhasesTold, Unqueued, Begun, Answered
  <2>2. CASE Starts(t)
    <3>1. \A k, u : Promise!Said(k, u)' <=> Promise!Said(k, u) \/ (k = "TurnStarted" /\ u = t)
      BY <2>2, Published DEF Starts
    <3>2. /\ phase[t] = "Queued" /\ initialized' = initialized
          /\ \A u \in Turns : phase'[u] = IF u = t THEN "Started" ELSE phase[u]
          /\ \A u \in Turns : phase[u] \notin {"Started", "ResultObserved"}
      BY <1>1, <2>2 DEF Starts, Advances, HasActiveTurn
    <3>3. QED BY <3>1, <3>2 DEF PhasesTold, Unqueued, Begun, Answered
  <2>3. CASE Acknowledges(t) \/ Speaks(t) \/ Fails(t)
    <3>1. PICK kind \in {"TurnAcknowledged", "AssistantTextDelta", "TurnFailed"} :
            \A k, u : Promise!Said(k, u)' <=> Promise!Said(k, u) \/ (k = kind /\ u = t)
      BY <2>3, Published DEF Acknowledges, Speaks, Fails, Tells
    <3>2. phase' = phase /\ initialized' = initialized
      BY <2>3 DEF Acknowledges, Speaks, Fails, Tells
    <3>3. QED BY <3>1, <3>2 DEF PhasesTold
  <2>4. CASE Results(t)
    <3>1. \A k, u : Promise!Said(k, u)' <=> Promise!Said(k, u)
      BY <2>4 DEF Results, Promise!Said
    <3>2. /\ phase[t] = "Started" /\ initialized' = initialized /\ initialized
          /\ \A u \in Turns : phase'[u] = IF u = t THEN "ResultObserved" ELSE phase[u]
      BY <1>1, <2>4 DEF Results, Advances
    <3>3. QED BY <3>1, <3>2 DEF PhasesTold, Unqueued, Begun, Answered
  <2>5. CASE Completes(t)
    <3>1. \A k, u : Promise!Said(k, u)' <=> Promise!Said(k, u) \/ (k = "TurnCompleted" /\ u = t)
      BY <2>5, Published DEF Completes
    <3>2. /\ phase[t] = "ResultObserved" /\ initialized' = initialized
          /\ \A u \in Turns : phase'[u] = IF u = t THEN "Completed" ELSE phase[u]
      BY <1>1, <2>5 DEF Completes, Advances
    <3>3. QED BY <3>1, <3>2 DEF PhasesTold, Unqueued, Begun, Answered
  <2>6. QED BY <1>4, <2>1, <2>2, <2>3, <2>4, <2>5 DEF OfOneTurn
<1>5. QED BY <1>2, <1>3, <1>4 DEF Reads

----------------------------------------------------------------------------
(* The verdict *)

LEMMA VerdictKept ==
  ASSUME VerdictTold, UNCHANGED <<observer, verdict, observations>>
  PROVE  VerdictTold'
<1>1. \A k, u : Promise!Said(k, u)' <=> Promise!Said(k, u)
  BY DEF Promise!Said
<1>2. QED BY <1>1 DEF VerdictTold

LEMMA VerdictLoop ==
  ASSUME VerdictTold, LoopStep
  PROVE  VerdictTold'
<1>1. \A k, u : Promise!Said(k, u)' <=> Promise!Said(k, u)
  BY LoopCases DEF Promise!Said
<1>2. observer \notin Ending
  BY DEF LoopStep, ConsumeReports, Poll, Again, LinesEnd, StillRuns, HasEnded, Classify, Ending
<1>3. /\ verdict = "none" /\ \A t \in Turns : ~Promise!Said("TurnFailed", t)
      /\ \A v \in Promise!Terminal : ~Promise!Said(v, NoTurn)
  BY <1>2 DEF VerdictTold, Ending
<1>4. \/ verdict' = "none" /\ observer' \notin Ending
      \/ verdict' \in {"Cancelled", "Exited", "Indeterminate"} /\ observer' = "cleanup"
  BY <1>3, LoopCases DEF Ending
<1>5. QED BY <1>1, <1>3, <1>4 DEF VerdictTold, Ending

LEMMA VerdictReads ==
  ASSUME TypeOK, VerdictTold, LineStep
  PROVE  VerdictTold'
<1>1. observer \in {"lines", "rest"} /\ Reads
  BY LineCases
<1>2. /\ verdict = "none" /\ \A t \in Turns : ~Promise!Said("TurnFailed", t)
      /\ \A v \in Promise!Terminal : ~Promise!Said(v, NoTurn)
  BY <1>1 DEF VerdictTold, Ending
<1>3. CASE UNCHANGED observations /\ (GoesOn \/ Ends("Indeterminate"))
  <2>1. \A k, u : Promise!Said(k, u)' <=> Promise!Said(k, u)
    BY <1>3 DEF Promise!Said
  <2>2. \/ verdict' = "none" /\ observer' \in {"lines", "rest"}
        \/ verdict' = "Indeterminate" /\ observer' = "cleanup"
    BY <1>1, <1>2, <1>3 DEF GoesOn, Ends
  <2>3. QED BY <1>2, <2>1, <2>2 DEF VerdictTold, Ending
<1>4. ASSUME NEW kind \in {"Initialized", "TurnQueued", "TurnStarted", "TurnAcknowledged",
                           "AssistantTextDelta", "TurnCompleted"},
             NEW t, Publish(kind, t), GoesOn
      PROVE  VerdictTold'
  <2>1. \A k, u : Promise!Said(k, u)' <=> Promise!Said(k, u) \/ (k = kind /\ u = t)
    BY <1>4, Published
  <2>2. kind \notin Promise!Terminal /\ kind # "TurnFailed"
    BY DEF Promise!Terminal
  <2>3. verdict' = "none" /\ observer' \in {"lines", "rest"}
    BY <1>1, <1>2, <1>4 DEF GoesOn
  <2>4. QED BY <1>2, <2>1, <2>2, <2>3 DEF VerdictTold, Ending
<1>5. ASSUME NEW t \in Turns, Fails(t)
      PROVE  VerdictTold'
  <2>1. \A k, u : Promise!Said(k, u)' <=> Promise!Said(k, u) \/ (k = "TurnFailed" /\ u = t)
    BY <1>5, Published DEF Fails, Tells
  <2>2. "TurnFailed" \notin Promise!Terminal
    BY DEF Promise!Terminal
  <2>3. verdict' = "Failed" /\ observer' = "cleanup"
    BY <1>5 DEF Fails, Ends
  <2>4. QED BY <1>2, <2>1, <2>2, <2>3 DEF VerdictTold, Ending
<1>6. QED
  BY <1>1, <1>3, <1>4, <1>5 DEF Reads, OfOneTurn, Initializes, Refuses, Ignores, Queues, Starts,
     Acknowledges, Speaks, Results, Completes, Advances, Tells

LEMMA VerdictPublished ==
  ASSUME TypeOK, VerdictTold, PublishAfterCleanup
  PROVE  VerdictTold'
<1>1. \A k, u : Promise!Said(k, u)' <=> Promise!Said(k, u) \/ (k = verdict /\ u = NoTurn)
  BY Published DEF PublishAfterCleanup
<1>2. verdict' = verdict /\ observer = "cleanup" /\ observer' = "done" /\ NoTurn \notin Turns
  BY TurnsAre DEF PublishAfterCleanup
<1>3. QED BY <1>1, <1>2 DEF VerdictTold, Ending

----------------------------------------------------------------------------
(* The reports *)

LEMMA ReportsKept ==
  ASSUME ReportsKnown, UNCHANGED <<writer, next, reports, phase>>
  PROVE  ReportsKnown'
  BY DEF ReportsKnown, Known, Reporting

LEMMA OneReport ==
  ASSUME TypeOK, NEW kind, NEW n, Report(kind, n)
  PROVE  \A t : Reporting(t)' <=> Reporting(t) \/ (kind = "prepared" /\ t = n)
<1>1. reports \in Seq(WriterReports)
  BY TypeParts DEF WriterOK
<1>2. /\ DOMAIN reports = 1..Len(reports) /\ Len(reports) \in Nat
      /\ DOMAIN reports' = 1..(Len(reports) + 1)
      /\ \A i \in 1..Len(reports) : reports'[i] = reports[i]
      /\ reports'[Len(reports) + 1] = <<kind, n>>
  BY <1>1 DEF Report
<1>3. \A i : i \in 1..(Len(reports) + 1) <=> i \in 1..Len(reports) \/ i = Len(reports) + 1
  BY <1>2
<1>4. SUFFICES ASSUME NEW t
               PROVE  Reporting(t)' <=> Reporting(t) \/ (kind = "prepared" /\ t = n)
  OBVIOUS
<1>5. <<kind, n>> = <<"prepared", t>> <=> kind = "prepared" /\ t = n
  OBVIOUS
<1>6. QED BY <1>2, <1>3, <1>5 DEF Reporting

LEMMA ReportsWritten ==
  ASSUME TypeOK, ReportsKnown, Permission \/ WriterStep
  PROVE  ReportsKnown'
<1>1. phase' = phase
  BY DEF Permission, WriterStep, Prepare, Write, WriteFails, CloseStdin, Leave
<1>2. next \in Nat /\ Turns \subseteq Nat
  BY TypeParts, TurnsAre DEF WriterOK, HandleOK
<1>3. CASE next' = next /\ writer \in {"permission", "ready", "write"}
           /\ writer' \in {"ready", "done"} /\ (writer = "write" => writer' = "done")
           /\ (reports' = reports \/ Report("failed", NoTurn) \/ Report("closed", NoTurn))
  <2>1. \A t : Reporting(t)' <=> Reporting(t)
    <3>1. CASE reports' = reports
      BY <3>1 DEF Reporting
    <3>2. CASE Report("failed", NoTurn) \/ Report("closed", NoTurn)
      BY <3>2, OneReport
    <3>3. QED BY <1>3, <3>1, <3>2
  <2>2. QED BY <1>1, <1>3, <2>1 DEF ReportsKnown, Known
<1>4. CASE Prepare
  <2>1. /\ \A t : Reporting(t)' <=> Reporting(t) \/ t = next
        /\ next' = next /\ writer = "ready" /\ writer' = "write"
    BY <1>4, OneReport DEF Prepare, Ready
  <2>2. \A t \in Turns : t > next => t # next
    BY <1>2
  <2>3. QED BY <1>1, <2>1, <2>2 DEF ReportsKnown, Known
<1>5. CASE Write
  <2>1. next' = next + 1 /\ writer = "write" /\ writer' = "ready" /\ reports' = reports
    BY <1>5 DEF Write
  <2>2. \A t : Reporting(t)' <=> Reporting(t)
    BY <2>1 DEF Reporting
  <2>3. \A t \in Turns : /\ t < next' => t < next \/ t = next
                         /\ t > next' \/ t = next' => t > next
    BY <1>2, <2>1
  <2>4. QED BY <1>1, <2>1, <2>2, <2>3 DEF ReportsKnown, Known
<1>6. QED
  BY <1>3, <1>4, <1>5 DEF Permission, WriterStep, WriteFails, CloseStdin, Leave, Drained, Ready

LEMMA ReportsTaken ==
  ASSUME TypeOK, ReportsKnown, UNCHANGED <<writer, next>>, reports' = <<>>, phase' = Registered
  PROVE  /\ ReportsKnown'
         /\ \A t \in Turns : t < next => phase'[t] # "none"
<1>1. \A t : ~Reporting(t)'
  BY DEF Reporting
<1>2. \A t \in Turns : phase'[t] # "none" <=> Known(t)
  BY DEF Registered, Known, Reporting
<1>3. QED BY <1>1, <1>2 DEF ReportsKnown, Known

LEMMA ReportsRead ==
  ASSUME TypeOK, ReportsKnown, UNCHANGED <<writer, next, reports>>, Reads
  PROVE  /\ ReportsKnown'
         /\ \A t \in Turns : phase[t] # "none" => phase'[t] # "none"
<1>1. phase \in [Turns -> Phases]
  BY TypeParts DEF ObserverOK
<1>2. \A t \in Turns : phase'[t] = "none" <=> phase[t] = "none"
  BY <1>1 DEF Reads, OfOneTurn, Initializes, Refuses, Ignores, Queues, Starts, Acknowledges,
     Speaks, Results, Completes, Fails, Advances, Tells
<1>3. \A t : Reporting(t)' <=> Reporting(t)
  BY DEF Reporting
<1>4. QED BY <1>2, <1>3 DEF ReportsKnown, Known

LEMMA ReportsLoop ==
  ASSUME TypeOK, ReportsKnown, LoopStep
  PROVE  ReportsKnown'
<1>1. CASE ConsumeReports("reports", "poll") \/ Again
  BY <1>1, ReportsTaken DEF Again, ConsumeReports
<1>2. CASE HasEnded
  BY <1>2, ReportsTaken DEF HasEnded, AllTurns
<1>3. CASE Poll \/ LinesEnd \/ StillRuns \/ Classify
  BY <1>3, ReportsKept DEF Poll, LinesEnd, StillRuns, Classify
<1>4. QED BY <1>1, <1>2, <1>3 DEF LoopStep

----------------------------------------------------------------------------
(* After the exit *)

(* A child that has exited stays so, and the writer writes nothing to it. *)
LEMMA RestedKept ==
  ASSUME TypeOK, Rested, UNCHANGED <<observer, verdict, phase>>,
         HasExited => HasExited' /\ next' = next
  PROVE  Rested'
  BY DEF Rested, AllCompleted

LEMMA ExitedStays ==
  ASSUME \/ Send \/ Close \/ Cancel \/ Kill \/ Permission \/ WriterStep
         \/ ChildStep \/ Rambles \/ Exits \/ Dies,
         HasExited
  PROVE  HasExited' /\ next' = next
<1>1. child # "alive" /\ child # "killed"
  BY DEF HasExited
<1>2. child' = child /\ next' = next
  BY <1>1 DEF Send, Close, Cancel, Kill, Terminated, Killed, Permission, WriterStep, Prepare, Write,
     WriteFails, CloseStdin, Leave, ChildStep, ReadsTurn, BeginsTurn, Answers, Finishes, Rambles,
     Exits, Departs, Dies
<1>3. QED BY <1>2 DEF HasExited

LEMMA RestedLoop ==
  ASSUME TypeOK, VerdictTold, ReportsKnown, Rested, LoopStep
  PROVE  Rested'
<1>1. observer \notin Ending
  BY DEF LoopStep, ConsumeReports, Poll, Again, LinesEnd, StillRuns, HasEnded, Classify, Ending
<1>2. verdict = "none" /\ next' = next
  BY <1>1, LoopCases DEF VerdictTold
<1>3. CASE HasEnded
  <2>1. /\ \A t \in Turns : t < next => phase'[t] # "none"
        /\ observer' = "rest" => HasExited'
        /\ verdict' # "Exited"
    BY <1>2, <1>3, ReportsTaken DEF HasEnded, AllTurns, Ends, HasExited
  <2>2. QED BY <1>2, <2>1 DEF Rested
<1>4. CASE Classify
  <2>1. /\ observer' = "cleanup" /\ phase' = phase
        /\ verdict' = "Exited" => child = "exited_ok" /\ AllCompleted /\ child' = Killed
    BY <1>4 DEF Classify, Ends
  <2>2. \A t \in Turns : t < next => phase[t] # "none"
    BY <1>4 DEF Classify, Rested
  <2>3. ASSUME verdict' = "Exited"
        PROVE  /\ HasExited' /\ AllCompleted'
               /\ \A t \in Turns : t < next' => phase'[t] = "Completed"
    BY <1>2, <2>1, <2>2, <2>3 DEF HasExited, Killed, AllCompleted
  <2>4. QED BY <2>1, <2>3 DEF Rested
<1>5. CASE ConsumeReports("reports", "poll") \/ Poll \/ Again \/ LinesEnd \/ StillRuns
  <2>1. observer' # "rest" /\ verdict' # "Exited"
    BY <1>2, <1>5 DEF ConsumeReports, Poll, Again, LinesEnd, StillRuns, Ends
  <2>2. QED BY <2>1 DEF Rested
<1>6. QED BY <1>3, <1>4, <1>5 DEF LoopStep

LEMMA RestedReads ==
  ASSUME TypeOK, VerdictTold, ReportsKnown, Rested, LineStep
  PROVE  Rested'
<1>1. /\ observer \in {"lines", "rest"} /\ Reads
      /\ UNCHANGED <<writer, next, reports>>
  BY LineCases
<1>2. verdict = "none"
  BY <1>1 DEF VerdictTold, Ending
<1>3. \/ GoesOn
      \/ observer' = "cleanup" /\ verdict' \in {"Failed", "Indeterminate"}
  BY <1>1 DEF Reads, OfOneTurn, Initializes, Refuses, Ignores, Queues, Starts, Acknowledges,
     Speaks, Results, Completes, Fails, Advances, Ends
<1>4. verdict' # "Exited"
  BY <1>2, <1>3 DEF GoesOn
<1>5. observer' = "rest" => /\ HasExited'
                            /\ \A t \in Turns : t < next' => phase'[t] # "none"
  BY <1>1, <1>3, ReportsRead DEF Rested, GoesOn, HasExited
<1>6. QED BY <1>4, <1>5 DEF Rested

LEMMA RestedPublished ==
  ASSUME Rested, PublishAfterCleanup
  PROVE  Rested'
<1>1. observer' = "done" /\ UNCHANGED <<verdict, phase, next, child>>
  BY DEF PublishAfterCleanup
<1>2. QED BY <1>1 DEF Rested, AllCompleted, HasExited

----------------------------------------------------------------------------
(* The invariant is inductive *)

LEMMA IInvOutside ==
  ASSUME IInv, \/ Send \/ Close \/ Cancel \/ Kill \/ Permission \/ WriterStep
               \/ ChildStep \/ Rambles \/ Exits \/ Dies
  PROVE  IInv'
<1>1. TypeOK /\ Writing /\ PhasesTold /\ VerdictTold /\ ReportsKnown /\ Rested
  BY DEF IInv
<1>2. UNCHANGED <<observer, verdict, codec, observations>>
  BY DEF Send, Close, Cancel, Kill, Permission, WriterStep, Prepare, Write, WriteFails, CloseStdin,
     Leave, ChildStep, ReadsTurn, BeginsTurn, Answers, Finishes, Rambles, Exits, Dies
<1>3. TypeOK' /\ Writing'
  BY <1>1, TypeHandle, TypeWriter, TypeChild
<1>4. PhasesTold' /\ VerdictTold' /\ Rested'
  BY <1>1, <1>2, PhasesKept, VerdictKept, RestedKept, ExitedStays
<1>5. ReportsKnown'
  <2>1. CASE Permission \/ WriterStep
    BY <1>1, <2>1, ReportsWritten
  <2>2. CASE Send \/ Close \/ Cancel \/ Kill \/ ChildStep \/ Rambles \/ Exits \/ Dies
    <3>1. UNCHANGED <<writer, next, reports, phase>>
      BY <2>2 DEF Send, Close, Cancel, Kill, ChildStep, ReadsTurn, BeginsTurn, Answers, Finishes,
         Rambles, Exits, Dies
    <3>2. QED BY <1>1, <3>1, ReportsKept
  <2>3. QED BY <2>1, <2>2
<1>6. QED BY <1>3, <1>4, <1>5 DEF IInv

LEMMA IInvObserver ==
  ASSUME IInv, ObserverStep
  PROVE  IInv'
<1>1. TypeOK /\ Writing /\ PhasesTold /\ VerdictTold /\ ReportsKnown /\ Rested
  BY DEF IInv
<1>2. TypeOK' /\ Writing'
  BY <1>1, TypeObserver
<1>3. CASE LoopStep
  <2>1. phase' \in {phase, Registered} /\ UNCHANGED <<initialized, observations>>
    BY <1>3, LoopCases
  <2>2. PhasesTold'
    BY <1>1, <2>1, PhasesRegistered
  <2>3. QED BY <1>1, <1>2, <1>3, <2>2, VerdictLoop, ReportsLoop, RestedLoop DEF IInv
<1>4. CASE LineStep
  <2>1. Reads /\ UNCHANGED <<writer, next, reports>>
    BY <1>1, <1>4, LineCases
  <2>2. PhasesTold' /\ ReportsKnown'
    BY <1>1, <2>1, PhasesReads, ReportsRead
  <2>3. QED BY <1>1, <1>2, <1>4, <2>2, VerdictReads, RestedReads DEF IInv
<1>5. CASE PublishAfterCleanup
  <2>1. UNCHANGED <<writer, next, reports, phase, initialized>>
    BY <1>5 DEF PublishAfterCleanup
  <2>2. PhasesTold'
    <3>1. \A k, u : Promise!Said(k, u)' <=> Promise!Said(k, u) \/ (k = verdict /\ u = NoTurn)
      BY <1>1, <1>5, Published DEF PublishAfterCleanup
    <3>2. NoTurn \notin Turns
      BY TurnsAre
    <3>3. QED BY <1>1, <2>1, <3>1, <3>2 DEF PhasesTold
  <2>3. ReportsKnown' /\ VerdictTold' /\ Rested'
    BY <1>1, <1>5, <2>1, ReportsKept, VerdictPublished, RestedPublished
  <2>4. QED BY <1>2, <2>2, <2>3 DEF IInv
<1>6. QED BY <1>3, <1>4, <1>5 DEF ObserverStep, LoopStep

LEMMA IInvStutters ==
  ASSUME IInv, UNCHANGED vars
  PROVE  IInv'
<1>1. TypeOK /\ Writing /\ PhasesTold /\ VerdictTold /\ ReportsKnown /\ Rested
  BY DEF IInv
<1>2. HandleOK' /\ WriterOK' /\ ChildOK' /\ ObserverOK'
  BY <1>1, TypeParts DEF HandleOK, WriterOK, ChildOK, ObserverOK
<1>3. (HandleOK /\ WriterOK /\ ChildOK /\ ObserverOK => TypeOK)'
  BY TypeParts, PTL
<1>4. PhasesTold' /\ VerdictTold' /\ ReportsKnown'
  BY <1>1, PhasesKept, VerdictKept, ReportsKept
<1>5. Writing' /\ Rested'
  BY <1>1 DEF Writing, Rested, HasExited, AllCompleted
<1>6. QED BY <1>2, <1>3, <1>4, <1>5 DEF IInv

(* The invariant of the runtime holds in every reachable state: types, the *)
(* phases of the codec as Control was told them, the verdict, and the      *)
(* reports of the writer against the turns that the observer knows.        *)
THEOREM Inductive == Spec => []IInv
<1>1. Init => IInv
  BY TypeInit, PhasesInit DEF IInv
<1>2. IInv /\ [Next]_vars => IInv'
  BY IInvOutside, IInvObserver, IInvStutters, Zenon DEF Next, Over
<1>3. QED BY <1>1, <1>2, PTL DEF Spec

----------------------------------------------------------------------------
(* The observer implements the sequence that Control is promised *)

LEMMA StepTells ==
  ASSUME IInv, LineStep
  PROVE  [Promise!Next]_observations
<1>1. TypeOK /\ PhasesTold /\ VerdictTold
  BY DEF IInv
<1>2. observer \in {"lines", "rest"} /\ Reads
  BY <1>1, LineCases
<1>3. ~Promise!Over /\ ~Promise!Failing
  BY <1>1, <1>2 DEF VerdictTold, Ending, Promise!Over, Promise!Failing, Promise!NoTurn
<1>4. \A k, t : Publish(k, t) => Promise!Tell(k, t)
  BY <1>3 DEF Publish, Promise!Tell, Promise!Say
<1>5. CASE Initializes
  <2>1. Promise!Initialized
    BY <1>4, <1>5 DEF Initializes, Promise!Initialized, Promise!NoTurn
  <2>2. QED BY <2>1 DEF Promise!Next
<1>6. ASSUME NEW t \in Turns, OfOneTurn(t)
      PROVE  [Promise!Next]_observations
  <2>1. CASE Queues(t)
    <3>1. Promise!Queued(t)
      BY <1>1, <1>4, <2>1 DEF Queues, Advances, Promise!Queued, PhasesTold, Unqueued
    <3>2. QED BY <3>1 DEF Promise!Next
  <2>2. CASE Starts(t)
    <3>1. \A u \in Turns : ~Promise!Active(u)
      BY <1>1, <2>2 DEF Starts, HasActiveTurn, Promise!Active, PhasesTold, Begun, Answered
    <3>2. phase[t] = "Queued"
      BY <2>2 DEF Starts, Advances
    <3>3. Promise!Started(t)
      BY <1>1, <1>4, <2>2, <3>1, <3>2
      DEF Starts, Promise!Started, PhasesTold, Unqueued, Begun, Answered
    <3>4. QED BY <3>3 DEF Promise!Next
  <2>3. CASE Acknowledges(t)
    <3>1. Promise!Acknowledged(t)
      BY <1>1, <1>4, <2>3 DEF Acknowledges, Tells, Promise!Acknowledged, PhasesTold, Unqueued,
         Promise!NoTurn
    <3>2. QED BY <3>1 DEF Promise!Next
  <2>4. CASE Speaks(t)
    <3>1. Promise!Text(t)
      BY <1>1, <1>4, <2>4 DEF Speaks, Tells, Promise!Text, Promise!Active, PhasesTold, Begun,
         Promise!NoTurn
    <3>2. QED BY <3>1 DEF Promise!Next
  <2>5. CASE Results(t)
    BY <2>5 DEF Results
  <2>6. CASE Completes(t)
    <3>1. Promise!Completed(t)
      BY <1>1, <1>4, <2>6 DEF Completes, Advances, Promise!Completed, Promise!Active, PhasesTold,
         Begun, Answered, Promise!NoTurn
    <3>2. QED BY <3>1 DEF Promise!Next
  <2>7. CASE Fails(t)
    <3>1. Promise!TurnFailed(t)
      BY <1>1, <1>4, <2>7 DEF Fails, Tells, Promise!TurnFailed, Promise!Active, PhasesTold, Begun
    <3>2. QED BY <3>1 DEF Promise!Next
  <2>8. QED BY <1>6, <2>1, <2>2, <2>3, <2>4, <2>5, <2>6, <2>7 DEF OfOneTurn
<1>7. CASE Refuses \/ Ignores
  BY <1>7 DEF Refuses, Ignores
<1>8. QED BY <1>2, <1>5, <1>6, <1>7 DEF Reads

LEMMA StepEnds ==
  ASSUME IInv, PublishAfterCleanup
  PROVE  Promise!Next
<1>1. TypeOK /\ PhasesTold /\ VerdictTold /\ Rested
  BY DEF IInv
<1>2. observer = "cleanup" /\ Publish(verdict, NoTurn)
  BY DEF PublishAfterCleanup
<1>3. verdict \in Promise!Terminal
  BY <1>1, <1>2, TypeParts DEF VerdictTold, Ending, ObserverOK, Verdicts, Promise!Terminal
<1>4. ~Promise!Over
  BY <1>1, <1>2 DEF VerdictTold, Promise!Over, Promise!NoTurn
<1>5. verdict = "Failed" => Promise!Failing
  BY <1>1 DEF VerdictTold, Promise!Failing
<1>6. verdict = "Exited" =>
        \A t \in Turns : Promise!Said("TurnQueued", t) => Promise!Said("TurnCompleted", t)
  BY <1>1 DEF Rested, AllCompleted, PhasesTold, Unqueued
<1>7. Promise!Ended(verdict)
  BY <1>2, <1>4, <1>5, <1>6 DEF Publish, Promise!Ended, Promise!Say, Promise!NoTurn
<1>8. QED BY <1>3, <1>7 DEF Promise!Next

(* Whatever the child writes, and however its answers, the reports of the  *)
(* writer and its exit are interleaved, the observer of                    *)
(* conversation_observe.rs tells Control the sequence that its durable     *)
(* turns can follow: `ImplementsLiveObservations`.                         *)
THEOREM RuntimeImplementsLiveObservations == Spec => ImplementsLiveObservations
<1>1. Init => Promise!Init
  BY DEF Init, Promise!Init
<1>2. IInv /\ [Next]_vars => [Promise!Next]_observations
  <2> SUFFICES ASSUME IInv, [Next]_vars
               PROVE  [Promise!Next]_observations
    OBVIOUS
  <2>1. CASE LineStep
    BY <2>1, StepTells
  <2>2. CASE PublishAfterCleanup
    BY <2>2, StepEnds
  <2>3. CASE LoopStep
    BY <2>3, LoopCases
  <2>4. CASE Send \/ Close \/ Cancel \/ Kill \/ Permission \/ WriterStep
    BY <2>4 DEF Send, Close, Cancel, Kill, Permission, WriterStep, Prepare, Write, WriteFails,
       CloseStdin, Leave
  <2>5. CASE ChildStep \/ Rambles \/ Exits \/ Dies \/ UNCHANGED vars
    BY <2>5 DEF ChildStep, ReadsTurn, BeginsTurn, Answers, Finishes, Rambles, Exits, Dies
  <2>6. QED BY <2>1, <2>2, <2>3, <2>4, <2>5 DEF Next, Over, ObserverStep, LoopStep
<1>3. QED
  BY <1>1, <1>2, Inductive, PTL DEF Spec, ImplementsLiveObservations, Promise!ObservationSpec


----------------------------------------------------------------------------
(* A child that follows the protocol                                       *)
(*                                                                         *)
(* Its output is a walk through views: how many turns are queued, how many *)
(* were begun, and how far the answer to the last of them is.  The walk    *)
(* starts at what the codec knows and ends at what the child works on; the *)
(* lines in between are the ones in the pump and in the pipe.  A child     *)
(* that reported an error goes on, and nobody listens.                     *)

Stages == {"idle", "greeting", "speaking", "resulted", "failed"}
View   == [queued : Nat, begun : Nat, stage : Stages]

ViewOf(q, b, s) == [queued |-> q, begun |-> b, stage |-> s]

Chats(b) == {Event("replay", b), Event("delta", NoTurn), Event("assistant", NoTurn)}

(* From view v the line l leads to view w. *)
Leads(v, l, w) ==
  \/ v.stage = "failed" /\ w = v
  \/ /\ v.stage # "failed" /\ l = Event("queued", v.queued + 1)
     /\ w = ViewOf(v.queued + 1, v.begun, v.stage)
  \/ /\ v.stage = "idle" /\ v.begun < v.queued /\ l = Event("started", v.begun + 1)
     /\ w = ViewOf(v.queued, v.begun + 1, "greeting")
  \/ /\ v.stage = "greeting" /\ l = Event("init", NoTurn)
     /\ w = ViewOf(v.queued, v.begun, "speaking")
  \/ v.stage = "speaking" /\ l \in Chats(v.begun) /\ w = v
  \/ /\ v.stage = "speaking" /\ l = Event("result", NoTurn)
     /\ w = ViewOf(v.queued, v.begun, "resulted")
  \/ /\ v.stage = "resulted" /\ l = Event("completed", v.begun)
     /\ w = ViewOf(v.queued, v.begun, "idle")
  \/ /\ v.stage = "speaking" /\ l = Event("error", NoTurn)
     /\ w = ViewOf(v.queued, v.begun, "failed")

Walk(views, lines) ==
  /\ views \in Seq(View) /\ Len(views) = Len(lines) + 1
  /\ \A i \in 1..Len(lines) : Leads(views[i], lines[i], views[i + 1])

(* The codec is at view v. *)
AtCodec(v) ==
  /\ v.stage # "failed" /\ v.begun <= v.queued
  /\ v.stage # "idle" => v.begun >= 1
  /\ v.stage = "speaking" => initialized
  /\ \A t \in Turns :
       /\ t < v.begun \/ (t = v.begun /\ v.stage = "idle") => phase[t] = "Completed"
       /\ t = v.begun /\ v.stage \in {"greeting", "speaking"} => phase[t] = "Started"
       /\ t = v.begun /\ v.stage = "resulted" => phase[t] = "ResultObserved"
       /\ v.begun < t /\ t <= v.queued => phase[t] = "Queued"
       /\ v.queued < t => phase[t] \in Unqueued

(* The lines of w from k on end the answer to turn b. *)
Closes(w, b, k) ==
  \/ /\ Len(w) >= k /\ w[Len(w)] = Event("error", NoTurn)
     /\ \A i \in k..(Len(w) - 1) : w[i] \in Chats(b)
  \/ /\ Len(w) >= k + 1 /\ w[Len(w)] = Event("completed", b)
     /\ w[Len(w) - 1] = Event("result", NoTurn)
     /\ \A i \in k..(Len(w) - 2) : w[i] \in Chats(b)

(* What the child still owes after view v, when it has begun b turns. *)
Owes(v, w, b) ==
  \/ v.stage = "idle" /\ v.begun = b /\ w = <<>>
  \/ /\ v.stage = "idle" /\ v.begun + 1 = b
     /\ w[1] = Event("started", b) /\ w[2] = Event("init", NoTurn) /\ Closes(w, b, 3)
  \/ v.stage = "greeting" /\ v.begun = b /\ w[1] = Event("init", NoTurn) /\ Closes(w, b, 2)
  \/ v.stage = "speaking" /\ v.begun = b /\ Closes(w, b, 1)
  \/ v.stage = "resulted" /\ v.begun = b /\ w = <<Event("completed", b)>>

(* The child is at view v. *)
AtChild(v) ==
  \/ v.stage = "failed"
  \/ /\ v.queued + Len(stdin) + 1 = next
     /\ \A i \in 1..Len(stdin) : stdin[i] = v.queued + i
     /\ \E b \in Nat : /\ b + Len(inbox) = v.queued
                       /\ \A i \in 1..Len(inbox) : inbox[i] = b + i
                       /\ Owes(v, work, b)

Output == buffer \o stdout

(* A turn that is queued in the output was written, and is registered      *)
(* before the line is read.                                                *)
Expected(views) ==
  /\ \A i \in 1..Len(views) : views[i].queued < next
  /\ observer \in {"lines", "rest"} =>
       \A i \in 1..(Len(buffer) + 1) :
         \A t \in Turns : t <= views[i].queued => phase[t] # "none"

Explains(views) ==
  Walk(views, Output) /\ AtCodec(views[1]) /\ AtChild(views[Len(views)]) /\ Expected(views)

Explained == \E views \in Seq(View) : Explains(views)

(* Nothing but the protocol has happened. *)
Unharmed == Faithful /\ stopping = "none" /\ ~Denied /\ verdict = "none"

Orderly ==
  /\ child \in {"alive", "exited_ok"}
  /\ child = "exited_ok" => writer = "done" /\ stdin = <<>> /\ inbox = <<>> /\ work = <<>>
  /\ writer = "permission" => next = 1
  /\ writer = "done" => graceful # 0 /\ \A t \in Turns : t >= next => ~Known(t)
  /\ \A i \in DOMAIN reports : reports[i][1] # "failed"
  /\ observer \in {"reports", "poll", "status"} => buffer = <<>>
  /\ observer = "rest" => child = "exited_ok" /\ stdout = <<>>

FInv == /\ IInv /\ FaithfulIsBelieved
        /\ Unharmed => Orderly /\ Explained

LEMMA WalkAppend ==
  ASSUME NEW vs, NEW ls \in Seq(Line), NEW l \in Line, NEW w \in View,
         Walk(vs, ls), Leads(vs[Len(vs)], l, w)
  PROVE  /\ Walk(Append(vs, w), Append(ls, l))
         /\ Len(Append(vs, w)) = Len(vs) + 1 /\ Append(vs, w)[Len(vs) + 1] = w
         /\ \A i \in 1..Len(vs) : Append(vs, w)[i] = vs[i]
<1>1. vs \in Seq(View) /\ Len(vs) = Len(ls) + 1 /\ Len(ls) \in Nat
  BY DEF Walk
<1>2. /\ Append(vs, w) \in Seq(View) /\ Len(Append(vs, w)) = Len(vs) + 1
      /\ Append(vs, w)[Len(vs) + 1] = w
      /\ \A i \in 1..Len(vs) : Append(vs, w)[i] = vs[i]
  BY <1>1
<1>3. /\ Append(ls, l) \in Seq(Line) /\ Len(Append(ls, l)) = Len(ls) + 1
      /\ Append(ls, l)[Len(ls) + 1] = l
      /\ \A i \in 1..Len(ls) : Append(ls, l)[i] = ls[i]
  BY <1>1
<1>4. ASSUME NEW i \in 1..Len(Append(ls, l))
      PROVE  Leads(Append(vs, w)[i], Append(ls, l)[i], Append(vs, w)[i + 1])
  <2>1. CASE i = Len(ls) + 1
    <3>1. Append(vs, w)[i] = vs[Len(vs)] /\ Append(vs, w)[i + 1] = w /\ Append(ls, l)[i] = l
      BY <1>1, <1>2, <1>3, <2>1
    <3>2. QED BY <3>1
  <2>2. CASE i \in 1..Len(ls)
    <3>1. i \in 1..Len(vs) /\ i + 1 \in 1..Len(vs)
      BY <1>1, <2>2
    <3>2. QED BY <1>2, <1>3, <2>2, <3>1 DEF Walk
  <2>3. QED BY <1>1, <1>3, <2>1, <2>2
<1>5. QED BY <1>1, <1>2, <1>3, <1>4 DEF Walk

LEMMA WalkTail ==
  ASSUME NEW vs, NEW ls \in Seq(Line), ls # <<>>, Walk(vs, ls)
  PROVE  /\ Walk(Tail(vs), Tail(ls)) /\ Leads(vs[1], Head(ls), vs[2])
         /\ Len(Tail(vs)) = Len(vs) - 1 /\ Len(vs) >= 2 /\ Tail(vs)[1] = vs[2]
         /\ Tail(vs)[Len(vs) - 1] = vs[Len(vs)]
         /\ \A i \in 1..(Len(vs) - 1) : Tail(vs)[i] = vs[i + 1]
<1>1. vs \in Seq(View) /\ Len(vs) = Len(ls) + 1 /\ Len(ls) \in Nat /\ Len(ls) >= 1
  BY DEF Walk
<1>2. vs # <<>> /\ Len(vs) \in Nat /\ Len(vs) >= 2
  BY <1>1
<1>3. /\ Tail(vs) \in Seq(View) /\ Len(Tail(vs)) = Len(vs) - 1
      /\ \A i \in 1..(Len(vs) - 1) : Tail(vs)[i] = vs[i + 1]
  BY <1>1, <1>2
<1>4. /\ Head(ls) = ls[1] /\ Tail(ls) \in Seq(Line) /\ Len(Tail(ls)) = Len(ls) - 1
      /\ \A i \in 1..(Len(ls) - 1) : Tail(ls)[i] = ls[i + 1]
  BY <1>1
<1>5. Leads(vs[1], Head(ls), vs[2])
  <2>1. 1 \in 1..Len(ls) /\ 1 + 1 = 2
    BY <1>1
  <2>2. QED BY <1>4, <2>1 DEF Walk
<1>6. ASSUME NEW i \in 1..Len(Tail(ls))
      PROVE  Leads(Tail(vs)[i], Tail(ls)[i], Tail(vs)[i + 1])
  <2>1. /\ i \in 1..(Len(vs) - 1) /\ i + 1 \in 1..(Len(vs) - 1)
        /\ i \in 1..(Len(ls) - 1) /\ i + 1 \in 1..Len(ls)
    BY <1>1, <1>4
  <2>2. Leads(vs[i + 1], ls[i + 1], vs[(i + 1) + 1])
    BY <2>1 DEF Walk
  <2>3. QED BY <1>3, <1>4, <2>1, <2>2
<1>7. /\ Tail(vs)[1] = vs[2] /\ Tail(vs)[Len(vs) - 1] = vs[Len(vs)]
  <2>1. 1 \in 1..(Len(vs) - 1) /\ Len(vs) - 1 \in 1..(Len(vs) - 1) /\ (Len(vs) - 1) + 1 = Len(vs)
        /\ 1 + 1 = 2
    BY <1>2
  <2>2. QED BY <1>3, <2>1
<1>8. Walk(Tail(vs), Tail(ls))
  BY <1>1, <1>3, <1>4, <1>6 DEF Walk
<1>9. QED BY <1>2, <1>3, <1>5, <1>7, <1>8

(* The output as one sequence. *)
LEMMA OutputParts ==
  ASSUME NEW s \in Seq(Line), NEW u \in Seq(Line)
  PROVE  /\ s \o u \in Seq(Line) /\ (s \o u) \o <<>> = s \o u /\ <<>> \o u = u
         /\ \A l \in Line : s \o Append(u, l) = Append(s \o u, l)
         /\ s # <<>> => /\ s \o u # <<>> /\ Head(s \o u) = Head(s)
                        /\ Tail(s) \o u = Tail(s \o u)
<1>1. s \o u \in Seq(Line) /\ (s \o u) \o <<>> = s \o u /\ <<>> \o u = u
  BY ConcatProperties
<1>2. ASSUME NEW l \in Line
      PROVE  s \o Append(u, l) = Append(s \o u, l)
  <2>1. Append(u, l) = u \o <<l>> /\ Append(s \o u, l) = (s \o u) \o <<l>>
    BY <1>1, AppendIsConcat
  <2>2. QED BY <2>1, ConcatAssociative
<1>3. ASSUME s # <<>>
      PROVE  s \o u # <<>> /\ Head(s \o u) = Head(s) /\ Tail(s) \o u = Tail(s \o u)
  BY <1>3
<1>4. QED BY <1>1, <1>2, <1>3

LEMMA Records ==
  /\ \A k, t : Event(k, t).kind = k /\ Event(k, t).turn = t
  /\ \A q, b, s : /\ ViewOf(q, b, s).queued = q /\ ViewOf(q, b, s).begun = b
                  /\ ViewOf(q, b, s).stage = s
  /\ \A q, b \in Nat, s \in Stages : ViewOf(q, b, s) \in View
  /\ \A v \in View : v.queued \in Nat /\ v.begun \in Nat /\ v.stage \in Stages
BY DEF Event, ViewOf, View

----------------------------------------------------------------------------
(* The answers *)

Opens(s, b) == /\ s \in Seq(Line) /\ Len(s) >= 1 /\ s[1] = Event("init", NoTurn)
               /\ \A i \in 2..Len(s) : s[i] \in Chats(b)

LEMMA OpensConcat ==
  ASSUME NEW b \in Turns, NEW s, NEW u \in Seq(Line), Opens(s, b),
         \A i \in 1..Len(u) : u[i] \in Chats(b)
  PROVE  Opens(s \o u, b)
<1>1. s \in Seq(Line) /\ Len(s) \in Nat /\ Len(u) \in Nat /\ Len(s) >= 1
  BY DEF Opens
<1>2. /\ s \o u \in Seq(Line) /\ Len(s \o u) = Len(s) + Len(u)
      /\ \A i \in 1..(Len(s) + Len(u)) :
           (s \o u)[i] = IF i <= Len(s) THEN s[i] ELSE u[i - Len(s)]
  BY <1>1, ConcatProperties
<1>3. (s \o u)[1] = Event("init", NoTurn)
  BY <1>1, <1>2 DEF Opens
<1>4. ASSUME NEW i \in 2..Len(s \o u)
      PROVE  (s \o u)[i] \in Chats(b)
  <2>1. CASE i <= Len(s)
    <3>1. i \in 2..Len(s) /\ (s \o u)[i] = s[i]
      BY <1>1, <1>2, <2>1
    <3>2. QED BY <3>1 DEF Opens
  <2>2. CASE ~(i <= Len(s))
    <3>1. i - Len(s) \in 1..Len(u) /\ (s \o u)[i] = u[i - Len(s)]
      BY <1>1, <1>2, <2>2
    <3>2. QED BY <3>1
  <2>3. QED BY <2>1, <2>2
<1>5. QED BY <1>1, <1>2, <1>3, <1>4 DEF Opens

LEMMA SpokenOpens ==
  ASSUME NEW b \in Turns
  PROVE  Opens(Spoken(b), b)
<1>1. /\ Event("init", NoTurn) \in Line /\ Event("replay", b) \in Line
      /\ Event("delta", NoTurn) \in Line /\ Event("assistant", NoTurn) \in Line
  <2>1. /\ \A k \in OfTurn : Event(k, b) \in Line
        /\ \A k \in OfChild : Event(k, NoTurn) \in Line
    BY DEF Event, Line
  <2>2. QED BY <2>1 DEF OfTurn, OfChild
<1> DEFINE Chatting(u) == u \in Seq(Line) /\ \A i \in 1..Len(u) : u[i] \in Chats(b)
<1>2. \A e \in Chats(b) : e \in Line => Chatting(<<e>>)
  OBVIOUS
<1>3. Chatting(<<>>)
  OBVIOUS
<1>4. Chatting(Says("replay", b)) /\ Chatting(Says("delta", NoTurn))
      /\ Chatting(Says("assistant", NoTurn))
  <2> HIDE DEF Chatting
  <2>1. QED BY <1>1, <1>2, <1>3 DEF Says, Chats
<1>5. Opens(Says("init", NoTurn), b)
  BY <1>1, RuntimeAssumption DEF Says, Opens
<1>6. \A s, u : Opens(s, b) /\ Chatting(u) => Opens(s \o u, b)
  BY OpensConcat
<1> HIDE DEF Chatting
<1>7. Opens(Says("init", NoTurn) \o Says("replay", b), b)
  BY <1>4, <1>5, <1>6
<1>8. Opens((Says("init", NoTurn) \o Says("replay", b)) \o Says("delta", NoTurn), b)
  BY <1>4, <1>6, <1>7
<1>9. QED BY <1>4, <1>6, <1>8 DEF Spoken

(* A whole answer is owed after the turn before it. *)
LEMMA AnswerCloses ==
  ASSUME NEW b \in Turns, NEW a \in Answer(b)
  PROVE  /\ a[1] = Event("started", b) /\ a[2] = Event("init", NoTurn) /\ Closes(a, b, 3)
<1> DEFINE first == <<Event("started", b)>>
           errs  == <<Event("error", NoTurn)>>
           ends  == <<Event("result", NoTurn), Event("completed", b)>>
           s     == Spoken(b)
<1>1. PICK o \in {ends, errs} : a = first \o s \o o
  BY DEF Answer
<1>2. /\ s \in Seq(Line) /\ Len(s) \in Nat /\ Len(s) >= 1 /\ s[1] = Event("init", NoTurn)
      /\ \A i \in 2..Len(s) : s[i] \in Chats(b)
  BY SpokenOpens DEF Opens
<1>3. /\ \A k \in OfTurn : Event(k, b) \in Line
      /\ \A k \in OfChild : Event(k, NoTurn) \in Line
  BY DEF Event, Line
<1>4. /\ Event("started", b) \in Line /\ Event("result", NoTurn) \in Line
      /\ Event("completed", b) \in Line /\ Event("error", NoTurn) \in Line
  BY <1>3 DEF OfTurn, OfChild
<1>5. first \in Seq(Line) /\ Len(first) = 1 /\ first[1] = Event("started", b)
  BY <1>4
<1>6. /\ ends \in Seq(Line) /\ Len(ends) = 2
      /\ ends[1] = Event("result", NoTurn) /\ ends[2] = Event("completed", b)
      /\ errs \in Seq(Line) /\ Len(errs) = 1 /\ errs[1] = Event("error", NoTurn)
  BY <1>4
<1> HIDE DEF first, errs, ends, s
<1>7. /\ first \o s \in Seq(Line) /\ Len(first \o s) = 1 + Len(s)
      /\ \A i \in 1..(1 + Len(s)) : (first \o s)[i] = IF i <= 1 THEN first[i] ELSE s[i - 1]
  BY <1>2, <1>5, ConcatProperties
<1> DEFINE h == first \o s
           m == Len(s) + 1
<1>8. /\ h \in Seq(Line) /\ Len(h) = m /\ m \in Nat /\ m >= 2
      /\ h[1] = Event("started", b) /\ h[2] = Event("init", NoTurn)
      /\ \A i \in 3..m : h[i] \in Chats(b)
  <2>1. h \in Seq(Line) /\ Len(h) = m /\ m \in Nat /\ m >= 2
    BY <1>2, <1>7
  <2>2. h[1] = Event("started", b)
    BY <1>2, <1>5, <1>7
  <2>3. h[2] = Event("init", NoTurn)
    BY <1>2, <1>7
  <2>4. ASSUME NEW i \in 3..m
        PROVE  h[i] \in Chats(b)
    <3>1. i - 1 \in 2..Len(s) /\ h[i] = s[i - 1]
      BY <1>2, <1>7
    <3>2. QED BY <1>2, <3>1
  <2>5. QED BY <2>1, <2>2, <2>3, <2>4
<1> HIDE DEF h, m
<1>9. a = h \o o
  BY <1>1 DEF h
<1>10. o \in Seq(Line) /\ Len(o) \in Nat
  BY <1>1, <1>6
<1>11. /\ Len(a) = m + Len(o)
       /\ \A i \in 1..(m + Len(o)) : a[i] = IF i <= m THEN h[i] ELSE o[i - m]
  BY <1>8, <1>9, <1>10, ConcatProperties
<1>12. \A i \in 1..m : a[i] = h[i]
  BY <1>8, <1>10, <1>11
<1>13. \A i \in 3..m : a[i] \in Chats(b)
  BY <1>8, <1>12
<1>14. a[1] = Event("started", b) /\ a[2] = Event("init", NoTurn)
  BY <1>8, <1>12
<1>15. CASE o = errs
  <2>1. Len(a) = m + 1 /\ a[m + 1] = Event("error", NoTurn)
    <3>1. Len(o) = 1 /\ o[1] = Event("error", NoTurn)
      BY <1>6, <1>15
    <3>2. m + 1 \in 1..(m + 1) /\ ~(m + 1 <= m) /\ (m + 1) - m = 1
      BY <1>8
    <3>3. QED BY <1>11, <3>1, <3>2
  <2>2. Len(a) >= 3 /\ Len(a) - 1 = m
    BY <1>8, <2>1
  <2>3. QED BY <1>13, <1>14, <2>1, <2>2 DEF Closes
<1>16. CASE o = ends
  <2>1. Len(a) = m + 2 /\ a[m + 1] = Event("result", NoTurn) /\ a[m + 2] = Event("completed", b)
    <3>1. Len(o) = 2 /\ o[1] = Event("result", NoTurn) /\ o[2] = Event("completed", b)
      BY <1>6, <1>16
    <3>2. /\ m + 1 \in 1..(m + 2) /\ ~(m + 1 <= m) /\ (m + 1) - m = 1
          /\ m + 2 \in 1..(m + 2) /\ ~(m + 2 <= m) /\ (m + 2) - m = 2
      BY <1>8
    <3>3. QED BY <1>11, <3>1, <3>2
  <2>2. Len(a) >= 3 + 1 /\ Len(a) - 1 = m + 1 /\ Len(a) - 2 = m
    BY <1>8, <2>1
  <2>3. QED BY <1>13, <1>14, <2>1, <2>2 DEF Closes
<1>17. QED BY <1>1, <1>15, <1>16

(* The line that a child owes next leads to a view after which it owes the *)
(* others.                                                                 *)
LEMMA ClosesTail ==
  ASSUME NEW w \in Seq(Line), NEW b, NEW k \in Nat, k >= 2, w # <<>>, Closes(w, b, k)
  PROVE  Closes(Tail(w), b, k - 1)
<1>1. /\ Len(Tail(w)) = Len(w) - 1 /\ Len(w) \in Nat
      /\ \A i \in 1..(Len(w) - 1) : Tail(w)[i] = w[i + 1]
  OBVIOUS
<1>2. CASE /\ Len(w) >= k /\ w[Len(w)] = Event("error", NoTurn)
           /\ \A i \in k..(Len(w) - 1) : w[i] \in Chats(b)
  <2>1. Len(Tail(w)) >= k - 1 /\ Tail(w)[Len(Tail(w))] = w[Len(w)]
    BY <1>1, <1>2
  <2>2. ASSUME NEW i \in (k - 1)..(Len(Tail(w)) - 1)
        PROVE  Tail(w)[i] \in Chats(b)
    <3>1. i + 1 \in k..(Len(w) - 1) /\ Tail(w)[i] = w[i + 1]
      BY <1>1
    <3>2. QED BY <1>2, <3>1
  <2>3. QED BY <1>2, <2>1, <2>2 DEF Closes
<1>3. CASE /\ Len(w) >= k + 1 /\ w[Len(w)] = Event("completed", b)
           /\ w[Len(w) - 1] = Event("result", NoTurn)
           /\ \A i \in k..(Len(w) - 2) : w[i] \in Chats(b)
  <2>1. /\ Len(Tail(w)) >= (k - 1) + 1 /\ Tail(w)[Len(Tail(w))] = w[Len(w)]
        /\ Tail(w)[Len(Tail(w)) - 1] = w[Len(w) - 1]
    BY <1>1, <1>3
  <2>2. ASSUME NEW i \in (k - 1)..(Len(Tail(w)) - 2)
        PROVE  Tail(w)[i] \in Chats(b)
    <3>1. i + 1 \in k..(Len(w) - 2) /\ Tail(w)[i] = w[i + 1]
      BY <1>1
    <3>2. QED BY <1>3, <3>1
  <2>3. QED BY <1>3, <2>1, <2>2 DEF Closes
<1>4. QED BY <1>2, <1>3 DEF Closes

LEMMA OneLine ==
  ASSUME NEW s \in Seq(Line), Len(s) = 1
  PROVE  s = <<s[1]>>
  OBVIOUS

LEMMA OwesNext ==
  ASSUME NEW v \in View, NEW w \in Seq(Line), NEW b \in Nat, w # <<>>, b <= v.queued,
         Owes(v, w, b)
  PROVE  \E u \in View : /\ Leads(v, Head(w), u) /\ u.queued = v.queued
                         /\ u.stage = "failed" \/ Owes(u, Tail(w), b)
<1>1. /\ v.queued \in Nat /\ v.begun \in Nat
      /\ \A n, c \in Nat, s \in Stages : ViewOf(n, c, s) \in View
      /\ \A n, c, s : /\ ViewOf(n, c, s).queued = n /\ ViewOf(n, c, s).begun = c
                      /\ ViewOf(n, c, s).stage = s
  BY Records
<1>2. /\ Head(w) = w[1] /\ Len(w) \in Nat /\ Len(w) >= 1 /\ Tail(w) \in Seq(Line)
      /\ Len(Tail(w)) = Len(w) - 1 /\ \A i \in 1..(Len(w) - 1) : Tail(w)[i] = w[i + 1]
  OBVIOUS
<1>3. CASE /\ v.stage = "idle" /\ v.begun + 1 = b
           /\ w[1] = Event("started", b) /\ w[2] = Event("init", NoTurn) /\ Closes(w, b, 3)
  <2> DEFINE u == ViewOf(v.queued, b, "greeting")
  <2>1. u \in View /\ u.queued = v.queued /\ u.begun = b /\ u.stage = "greeting"
    BY <1>1 DEF Stages
  <2> HIDE DEF u
  <2>2. Leads(v, Head(w), u)
    BY <1>1, <1>2, <1>3 DEF Leads, u
  <2>3. Closes(Tail(w), b, 2)
    <3>1. Closes(Tail(w), b, 3 - 1)
      BY <1>3, ClosesTail
    <3>2. QED BY <3>1
  <2>4. Len(w) >= 3
    BY <1>2, <1>3 DEF Closes
  <2>5. Tail(w)[1] = Event("init", NoTurn)
    BY <1>2, <1>3, <2>4
  <2>6. Owes(u, Tail(w), b)
    BY <2>1, <2>3, <2>5 DEF Owes
  <2>7. QED BY <2>1, <2>2, <2>6
<1>4. CASE v.stage = "greeting" /\ v.begun = b /\ w[1] = Event("init", NoTurn) /\ Closes(w, b, 2)
  <2> DEFINE u == ViewOf(v.queued, b, "speaking")
  <2>1. u \in View /\ u.queued = v.queued /\ u.begun = b /\ u.stage = "speaking"
    BY <1>1 DEF Stages
  <2> HIDE DEF u
  <2>2. Leads(v, Head(w), u)
    BY <1>2, <1>4 DEF Leads, u
  <2>3. Closes(Tail(w), b, 1)
    <3>1. Closes(Tail(w), b, 2 - 1)
      BY <1>4, ClosesTail
    <3>2. QED BY <3>1
  <2>4. Owes(u, Tail(w), b)
    BY <2>1, <2>3 DEF Owes
  <2>5. QED BY <2>1, <2>2, <2>4
<1>5. CASE v.stage = "speaking" /\ v.begun = b /\ Closes(w, b, 1)
  <2>1. CASE w[1] \in Chats(b) /\ Closes(Tail(w), b, 1)
    <3>1. Leads(v, Head(w), v)
      BY <1>2, <1>5, <2>1 DEF Leads
    <3>2. Owes(v, Tail(w), b)
      BY <1>5, <2>1 DEF Owes
    <3>3. QED BY <3>1, <3>2
  <2>2. CASE w[1] = Event("error", NoTurn)
    <3> DEFINE u == ViewOf(v.queued, b, "failed")
    <3>1. u \in View /\ u.queued = v.queued /\ u.stage = "failed"
      BY <1>1 DEF Stages
    <3> HIDE DEF u
    <3>2. Leads(v, Head(w), u)
      BY <1>2, <1>5, <2>2 DEF Leads, u
    <3>3. QED BY <3>1, <3>2
  <2>3. CASE w[1] = Event("result", NoTurn) /\ Tail(w) = <<Event("completed", b)>>
    <3> DEFINE u == ViewOf(v.queued, b, "resulted")
    <3>1. u \in View /\ u.queued = v.queued /\ u.begun = b /\ u.stage = "resulted"
      BY <1>1 DEF Stages
    <3> HIDE DEF u
    <3>2. Leads(v, Head(w), u)
      BY <1>2, <1>5, <2>3 DEF Leads, u
    <3>3. Owes(u, Tail(w), b)
      BY <2>3, <3>1 DEF Owes
    <3>4. QED BY <3>1, <3>2, <3>3
  <2>4. CASE /\ w[Len(w)] = Event("error", NoTurn)
             /\ \A i \in 1..(Len(w) - 1) : w[i] \in Chats(b)
    <3>1. CASE Len(w) = 1
      BY <2>2, <2>4, <3>1
    <3>2. CASE Len(w) >= 2
      <4>1. 1 \in 1..(Len(w) - 1)
        BY <1>2, <3>2
      <4>2. /\ Len(Tail(w)) >= 1 /\ Tail(w)[Len(Tail(w))] = w[Len(w)]
        BY <1>2, <3>2
      <4>3. ASSUME NEW i \in 1..(Len(Tail(w)) - 1)
            PROVE  Tail(w)[i] \in Chats(b)
        <5>1. i + 1 \in 1..(Len(w) - 1) /\ Tail(w)[i] = w[i + 1]
          BY <1>2
        <5>2. QED BY <2>4, <5>1
      <4>4. Closes(Tail(w), b, 1)
        BY <2>4, <4>2, <4>3 DEF Closes
      <4>5. QED BY <2>1, <2>4, <4>1, <4>4
    <3>3. QED BY <1>2, <3>1, <3>2
  <2>5. CASE /\ Len(w) >= 1 + 1 /\ w[Len(w)] = Event("completed", b)
             /\ w[Len(w) - 1] = Event("result", NoTurn)
             /\ \A i \in 1..(Len(w) - 2) : w[i] \in Chats(b)
    <3>1. CASE Len(w) = 2
      <4>1. Len(Tail(w)) = 1 /\ Tail(w)[1] = Event("completed", b)
        <5>1. 1 \in 1..(Len(w) - 1) /\ 1 + 1 = Len(w) /\ Len(Tail(w)) = 1
          BY <1>2, <3>1
        <5>2. Tail(w)[1] = w[Len(w)]
          BY <1>2, <5>1
        <5>3. QED BY <2>5, <5>1, <5>2
      <4>2. Tail(w) = <<Event("completed", b)>>
        BY <1>2, <4>1, OneLine
      <4>3. QED BY <2>3, <2>5, <3>1, <4>2
    <3>2. CASE Len(w) >= 3
      <4>1. 1 \in 1..(Len(w) - 2)
        BY <1>2, <3>2
      <4>2. /\ Len(Tail(w)) >= 1 + 1 /\ Tail(w)[Len(Tail(w))] = w[Len(w)]
            /\ Tail(w)[Len(Tail(w)) - 1] = w[Len(w) - 1]
        BY <1>2, <3>2
      <4>3. ASSUME NEW i \in 1..(Len(Tail(w)) - 2)
            PROVE  Tail(w)[i] \in Chats(b)
        <5>1. i + 1 \in 1..(Len(w) - 2) /\ Tail(w)[i] = w[i + 1]
          BY <1>2
        <5>2. QED BY <2>5, <5>1
      <4>4. Closes(Tail(w), b, 1)
        BY <2>5, <4>2, <4>3 DEF Closes
      <4>5. QED BY <2>1, <2>5, <4>1, <4>4
    <3>3. QED BY <1>2, <2>5, <3>1, <3>2
  <2>6. QED BY <1>5, <2>4, <2>5 DEF Closes
<1>6. CASE v.stage = "resulted" /\ v.begun = b /\ w = <<Event("completed", b)>>
  <2> DEFINE u == ViewOf(v.queued, b, "idle")
  <2>1. u \in View /\ u.queued = v.queued /\ u.begun = b /\ u.stage = "idle"
    BY <1>1 DEF Stages
  <2> HIDE DEF u
  <2>2. Leads(v, Head(w), u)
    BY <1>2, <1>6 DEF Leads, u
  <2>3. Tail(w) = <<>>
    BY <1>6
  <2>4. Owes(u, Tail(w), b)
    BY <2>1, <2>3 DEF Owes
  <2>5. QED BY <2>1, <2>2, <2>4
<1>7. QED BY <1>3, <1>4, <1>5, <1>6 DEF Owes

LEMMA OwesAnswer ==
  ASSUME NEW v \in View, NEW b \in Nat, Owes(v, <<>>, b), b + 1 \in Turns,
         NEW a \in Answer(b + 1)
  PROVE  v.stage = "idle" /\ v.begun = b /\ Owes(v, a, b + 1)
<1>1. ~Closes(<<>>, b, 1) /\ ~Closes(<<>>, b, 2) /\ ~Closes(<<>>, b, 3)
  BY DEF Closes
<1>2. <<>> # <<Event("completed", b)>>
  OBVIOUS
<1>3. v.stage = "idle" /\ v.begun = b
  BY <1>1, <1>2 DEF Owes
<1>4. a[1] = Event("started", b + 1) /\ a[2] = Event("init", NoTurn) /\ Closes(a, b + 1, 3)
  BY AnswerCloses
<1>5. QED BY <1>3, <1>4 DEF Owes

----------------------------------------------------------------------------
(* The codec accepts a line that leads on *)

LEMMA ActiveTurn ==
  ASSUME NEW v \in View, AtCodec(v), v.queued <= MaxTurns
  PROVE  /\ v.queued \in Nat /\ v.begun \in Nat
         /\ v.stage # "idle" => v.begun \in Turns
         /\ v.stage = "idle" => ~HasActiveTurn
         /\ v.stage \in {"greeting", "speaking"} => Started = {v.begun}
         /\ v.stage = "speaking" => Answering /\ Current = v.begun /\ initialized
<1>1. /\ v.queued \in Nat /\ v.begun \in Nat /\ v.begun <= v.queued
      /\ v.stage \in {"idle", "greeting", "speaking", "resulted"}
      /\ MaxTurns \in Nat /\ Turns = 1..MaxTurns /\ Turns \subseteq Nat
  BY Records, TurnsAre DEF AtCodec, Stages
<1>2. v.stage # "idle" => v.begun \in Turns
  BY <1>1 DEF AtCodec
<1>3. \A t \in Turns : \/ t < v.begun \/ t = v.begun \/ (v.begun < t /\ t <= v.queued)
                       \/ v.queued < t
  BY <1>1
<1>4. v.stage = "idle" => ~HasActiveTurn
  BY <1>3 DEF AtCodec, HasActiveTurn, Unqueued
<1>5. v.stage \in {"greeting", "speaking"} =>
        \A t \in Turns : phase[t] = "Started" <=> t = v.begun
  BY <1>1, <1>2, <1>3 DEF AtCodec, Unqueued
<1>6. v.stage \in {"greeting", "speaking"} => Started = {v.begun}
  BY <1>2, <1>5 DEF Started
<1>7. ASSUME v.stage = "speaking"
      PROVE  Answering /\ Current = v.begun /\ initialized
  <2>1. v.begun \in Turns /\ Started = {v.begun} /\ initialized
    BY <1>2, <1>6, <1>7 DEF AtCodec
  <2>2. Answering
    BY <2>1 DEF Answering
  <2>3. Current = v.begun
    BY <2>1, <2>2, TheCurrent DEF Started
  <2>4. QED BY <2>1, <2>2, <2>3
<1>8. QED BY <1>1, <1>2, <1>4, <1>6, <1>7

(* The step that the kind of a line selects. *)
LEMMA StepOfKind ==
  ASSUME LineStep, ~Refused(Head(buffer))
  PROVE  LET k == Head(buffer).kind
         IN  /\ k = "init" => InitLine
             /\ k = "queued" => QueuedLine
             /\ k = "started" => StartedLine
             /\ k = "replay" => ReplayLine
             /\ k = "delta" => DeltaLine
             /\ k = "assistant" => SilentLine
             /\ k = "result" => ResultLine
             /\ k = "completed" => CompletedLine
             /\ k = "error" => ErrorLine
<1>1. ~RefusedLine
  BY DEF RefusedLine
<1>2. QED
  BY <1>1 DEF LineStep, InitLine, QueuedLine, StartedLine, ReplayLine, DeltaLine, ResultLine,
     CompletedLine, SilentLine, ErrorLine, NextLine

LEMMA CodecReads ==
  ASSUME TypeOK, NEW v \in View, NEW u \in View, AtCodec(v), Leads(v, Head(buffer), u),
         v.queued <= MaxTurns, u.queued <= MaxTurns, buffer # <<>>,
         \A t \in Turns : t <= u.queued => phase[t] # "none"
  PROVE  /\ ~Refused(Head(buffer))
         /\ LineStep => \/ GoesOn /\ AtCodec(u)'
                        \/ verdict' = "Failed"
<1> DEFINE l == Head(buffer)
           Good == /\ ~Refused(l)
                   /\ LineStep => \/ GoesOn /\ AtCodec(u)'
                                  \/ verdict' = "Failed"
<1>1. l \in Line /\ phase \in [Turns -> Phases]
  BY TypeParts, SequenceTypes DEF ObserverOK
<1>2. /\ v.queued \in Nat /\ v.begun \in Nat /\ v.begun <= v.queued /\ v.stage # "failed"
      /\ Turns = 1..MaxTurns /\ MaxTurns \in Nat /\ Turns \subseteq Nat
      /\ \A n, c, s : /\ ViewOf(n, c, s).queued = n /\ ViewOf(n, c, s).begun = c
                      /\ ViewOf(n, c, s).stage = s
      /\ \A k, t : Event(k, t).kind = k /\ Event(k, t).turn = t
  BY Records, TurnsAre DEF AtCodec
<1>3. /\ v.stage # "idle" => v.begun \in Turns
      /\ v.stage = "idle" => ~HasActiveTurn
      /\ v.stage = "speaking" => Answering /\ Current = v.begun /\ initialized
  BY ActiveTurn
<1>4. CASE l = Event("queued", v.queued + 1) /\ u = ViewOf(v.queued + 1, v.begun, v.stage)
  <2>1. /\ l.kind = "queued" /\ l.turn = v.queued + 1
        /\ u.queued = v.queued + 1 /\ u.begun = v.begun /\ u.stage = v.stage
    BY <1>2, <1>4
  <2> DEFINE n == v.queued + 1
  <2>2. n \in Turns /\ v.queued < n /\ n <= u.queued
    BY <1>2, <2>1
  <2>3. phase[n] = "AwaitingQueue"
    BY <2>1, <2>2 DEF AtCodec, Unqueued
  <2>4. ~Refused(l)
    BY <2>1, <2>3 DEF Refused
  <2>5. ASSUME LineStep
        PROVE  GoesOn /\ AtCodec(u)'
    <3>1. QueuedLine
      BY <2>1, <2>4, <2>5, StepOfKind
    <3>2. GoesOn /\ initialized' = initialized /\ phase' = [phase EXCEPT ![n] = "Queued"]
      BY <2>1, <3>1 DEF QueuedLine, Took, Phase, Turn, GoesOn
    <3>3. \A t \in Turns : /\ phase'[t] = IF t = n THEN "Queued" ELSE phase[t]
                           /\ t # n /\ t <= u.queued => t <= v.queued
                           /\ u.queued < t => v.queued < t /\ t # n
                           /\ t = n => v.begun < t
      BY <1>1, <1>2, <2>1, <2>2, <3>2
    <3>4. u.begun <= u.queued
      BY <1>2, <2>1
    <3>5. QED BY <1>2, <2>1, <2>2, <3>2, <3>3, <3>4 DEF AtCodec
  <2>6. QED BY <2>4, <2>5
<1>5. CASE /\ v.stage = "idle" /\ v.begun < v.queued /\ l = Event("started", v.begun + 1)
           /\ u = ViewOf(v.queued, v.begun + 1, "greeting")
  <2>1. /\ l.kind = "started" /\ l.turn = v.begun + 1
        /\ u.queued = v.queued /\ u.begun = v.begun + 1 /\ u.stage = "greeting"
    BY <1>2, <1>5
  <2> DEFINE n == v.begun + 1
  <2>2. n \in Turns /\ v.begun < n /\ n <= v.queued
    BY <1>2, <1>5
  <2>3. phase[n] = "Queued" /\ ~HasActiveTurn
    BY <1>3, <1>5, <2>2 DEF AtCodec
  <2>4. ~Refused(l)
    BY <2>1, <2>3 DEF Refused
  <2>5. ASSUME LineStep
        PROVE  GoesOn /\ AtCodec(u)'
    <3>1. StartedLine
      BY <2>1, <2>4, <2>5, StepOfKind
    <3>2. GoesOn /\ initialized' = initialized /\ phase' = [phase EXCEPT ![n] = "Started"]
      BY <2>1, <3>1 DEF StartedLine, Took, Phase, Turn, GoesOn
    <3>3. \A t \in Turns : /\ phase'[t] = IF t = n THEN "Started" ELSE phase[t]
                           /\ t < n => t < v.begun \/ t = v.begun
                           /\ n < t => v.begun < t /\ t # n
                           /\ v.queued < t => t # n
                           /\ t < n => t # n
      BY <1>1, <1>2, <2>1, <2>2, <3>2
    <3>4. u.begun <= u.queued /\ u.begun >= 1
      BY <1>2, <1>5, <2>1
    <3>5. QED BY <1>2, <1>5, <2>1, <2>2, <3>2, <3>3, <3>4 DEF AtCodec
  <2>6. QED BY <2>4, <2>5
<1>6. CASE /\ v.stage = "greeting" /\ l = Event("init", NoTurn)
           /\ u = ViewOf(v.queued, v.begun, "speaking")
  <2>1. l.kind = "init" /\ u.queued = v.queued /\ u.begun = v.begun /\ u.stage = "speaking"
    BY <1>2, <1>6
  <2>2. ~Refused(l)
    BY <2>1 DEF Refused
  <2>3. ASSUME LineStep
        PROVE  GoesOn /\ AtCodec(u)'
    <3>1. InitLine
      BY <2>1, <2>2, <2>3, StepOfKind
    <3>2. GoesOn /\ initialized' /\ phase' = phase
      BY <3>1 DEF InitLine, Took, GoesOn
    <3>3. QED BY <1>6, <2>1, <3>2 DEF AtCodec
  <2>4. QED BY <2>2, <2>3
<1>7. CASE v.stage = "speaking" /\ l \in Chats(v.begun) /\ u = v
  <2>1. v.begun \in Turns /\ initialized /\ Answering /\ phase[v.begun] = "Started"
    BY <1>3, <1>7 DEF AtCodec
  <2>2. \/ l.kind = "replay" /\ l.turn = v.begun
        \/ l.kind \in {"delta", "assistant"}
    BY <1>2, <1>7 DEF Chats
  <2>3. ~Refused(l)
    BY <2>1, <2>2 DEF Refused
  <2>4. ASSUME LineStep
        PROVE  GoesOn /\ AtCodec(u)'
    <3>1. ReplayLine \/ DeltaLine \/ SilentLine
      BY <2>2, <2>3, <2>4, StepOfKind
    <3>2. GoesOn /\ initialized' = initialized /\ phase' = phase
      BY <3>1 DEF ReplayLine, DeltaLine, SilentLine, Took, GoesOn
    <3>3. QED BY <1>7, <3>2 DEF AtCodec
  <2>5. QED BY <2>3, <2>4
<1>8. CASE /\ v.stage = "speaking" /\ l = Event("result", NoTurn)
           /\ u = ViewOf(v.queued, v.begun, "resulted")
  <2>1. l.kind = "result" /\ u.queued = v.queued /\ u.begun = v.begun /\ u.stage = "resulted"
    BY <1>2, <1>8
  <2>2. v.begun \in Turns /\ Answering /\ Current = v.begun
    BY <1>3, <1>8
  <2>3. ~Refused(l)
    BY <2>1, <2>2 DEF Refused
  <2>4. ASSUME LineStep
        PROVE  GoesOn /\ AtCodec(u)'
    <3>1. ResultLine
      BY <2>1, <2>3, <2>4, StepOfKind
    <3>2. GoesOn /\ phase' = [phase EXCEPT ![v.begun] = "ResultObserved"]
      BY <2>2, <3>1 DEF ResultLine, Took, Phase, GoesOn
    <3>3. \A t \in Turns : /\ phase'[t] = IF t = v.begun THEN "ResultObserved" ELSE phase[t]
                           /\ t < v.begun \/ v.begun < t \/ v.queued < t => t # v.begun
      BY <1>1, <1>2, <3>2
    <3>4. QED BY <1>8, <2>1, <3>2, <3>3 DEF AtCodec
  <2>5. QED BY <2>3, <2>4
<1>9. CASE /\ v.stage = "resulted" /\ l = Event("completed", v.begun)
           /\ u = ViewOf(v.queued, v.begun, "idle")
  <2>1. /\ l.kind = "completed" /\ l.turn = v.begun
        /\ u.queued = v.queued /\ u.begun = v.begun /\ u.stage = "idle"
    BY <1>2, <1>9
  <2>2. v.begun \in Turns /\ phase[v.begun] = "ResultObserved"
    BY <1>3, <1>9 DEF AtCodec
  <2>3. ~Refused(l)
    BY <2>1, <2>2 DEF Refused
  <2>4. ASSUME LineStep
        PROVE  GoesOn /\ AtCodec(u)'
    <3>1. CompletedLine
      BY <2>1, <2>3, <2>4, StepOfKind
    <3>2. GoesOn /\ phase' = [phase EXCEPT ![v.begun] = "Completed"]
      BY <2>1, <3>1 DEF CompletedLine, Took, Phase, Turn, GoesOn
    <3>3. \A t \in Turns : /\ phase'[t] = IF t = v.begun THEN "Completed" ELSE phase[t]
                           /\ t < v.begun \/ v.begun < t \/ v.queued < t => t # v.begun
      BY <1>1, <1>2, <3>2
    <3>4. QED BY <1>9, <2>1, <3>2, <3>3 DEF AtCodec
  <2>5. QED BY <2>3, <2>4
<1>10. CASE v.stage = "speaking" /\ l = Event("error", NoTurn)
  <2>1. l.kind = "error" /\ Answering
    BY <1>2, <1>3, <1>10
  <2>2. ~Refused(l)
    BY <2>1 DEF Refused
  <2>3. ASSUME LineStep
        PROVE  verdict' = "Failed"
    <3>1. ErrorLine
      BY <2>1, <2>2, <2>3, StepOfKind
    <3>2. QED BY <3>1 DEF ErrorLine, Ends
  <2>4. QED BY <2>2, <2>3
<1>11. QED
  BY <1>2, <1>4, <1>5, <1>6, <1>7, <1>8, <1>9, <1>10 DEF Leads

----------------------------------------------------------------------------
(* The output stays explained *)

LEMMA LinesTyped ==
  ASSUME TypeOK
  PROVE  /\ buffer \in Seq(Line) /\ stdout \in Seq(Line) /\ Output \in Seq(Line)
         /\ Len(Output) = Len(buffer) + Len(stdout)
         /\ Len(buffer) \in Nat /\ Len(stdout) \in Nat /\ next \in Nat
         /\ stdin \in Seq(Turns) /\ inbox \in Seq(Turns) /\ work \in Seq(Line)
         /\ next <= MaxTurns + 1 /\ MaxTurns \in Nat
<1>1. /\ buffer \in Seq(Line) /\ stdout \in Seq(Line)
      /\ stdin \in Seq(Turns) /\ inbox \in Seq(Turns) /\ work \in Seq(Line)
  BY TypeParts DEF ObserverOK, ChildOK
<1>2. Output \in Seq(Line) /\ Len(Output) = Len(buffer) + Len(stdout)
  BY <1>1, ConcatProperties DEF Output
<1>3. next \in Nat /\ next <= MaxTurns + 1 /\ MaxTurns \in Nat
  BY TypeParts, TurnsAre DEF HandleOK, WriterOK
<1>4. Len(buffer) \in Nat /\ Len(stdout) \in Nat
  BY <1>1
<1>5. QED BY <1>1, <1>2, <1>3, <1>4

LEMMA ExplainedSame ==
  ASSUME Explained, UNCHANGED <<buffer, stdout, phase, initialized, stdin, inbox, work, next>>,
         observer' \in {"lines", "rest"} => observer' = observer
  PROVE  Explained'
<1>1. PICK vs \in Seq(View) : Explains(vs)
  BY DEF Explained
<1>2. Output' = Output
  BY DEF Output
<1>3. Explains(vs)'
  BY <1>1, <1>2 DEF Explains, AtCodec, AtChild, Expected
<1>4. QED BY <1>3 DEF Explained

LEMMA ExplainedWritten ==
  ASSUME TypeOK, Explained, Write
  PROVE  Explained'
<1>1. PICK vs \in Seq(View) : Explains(vs)
  BY DEF Explained
<1>2. /\ UNCHANGED <<buffer, stdout, phase, initialized, inbox, work, observer>>
      /\ next' = next + 1 /\ stdin' = Append(stdin, next)
  BY DEF Write
<1>3. Output' = Output
  BY <1>2 DEF Output
<1>4. next \in Nat /\ stdin \in Seq(Turns) /\ Len(stdin) \in Nat
  BY LinesTyped
<1>5. /\ Len(vs) \in Nat /\ Len(vs) >= 1 /\ \A i \in 1..Len(vs) : vs[i] \in View
      /\ vs[Len(vs)] \in View
  BY <1>1, LinesTyped DEF Explains, Walk
<1>6. Expected(vs)'
  <2>1. \A i \in 1..Len(vs) : vs[i].queued < next'
    <3>1. \A i \in 1..Len(vs) : vs[i].queued \in Nat /\ vs[i].queued < next
      BY <1>1, <1>5, Records DEF Explains, Expected
    <3>2. QED BY <1>2, <1>4, <3>1
  <2>2. QED BY <1>1, <1>2, <2>1 DEF Explains, Expected
<1>7. AtChild(vs[Len(vs)])'
  <2> DEFINE v == vs[Len(vs)]
  <2>1. v.queued \in Nat
    BY <1>5, Records
  <2>2. CASE v.stage = "failed"
    BY <2>2 DEF AtChild
  <2>3. CASE v.stage # "failed"
    <3>1. /\ v.queued + Len(stdin) + 1 = next
          /\ \A i \in 1..Len(stdin) : stdin[i] = v.queued + i
          /\ \E b \in Nat : /\ b + Len(inbox) = v.queued
                            /\ \A i \in 1..Len(inbox) : inbox[i] = b + i
                            /\ Owes(v, work, b)
      BY <1>1, <2>3 DEF Explains, AtChild
    <3>2. /\ Len(stdin') = Len(stdin) + 1
          /\ \A i \in 1..Len(stdin) : stdin'[i] = stdin[i]
          /\ stdin'[Len(stdin) + 1] = next
      BY <1>2, <1>4
    <3> HIDE DEF v
    <3>3. v.queued + Len(stdin') + 1 = next'
      BY <1>2, <1>4, <2>1, <3>1, <3>2
    <3>4. ASSUME NEW i \in 1..Len(stdin')
          PROVE  stdin'[i] = v.queued + i
      <4>1. i \in 1..Len(stdin) \/ i = Len(stdin) + 1
        BY <1>4, <3>2
      <4>2. CASE i \in 1..Len(stdin)
        BY <3>1, <3>2, <4>2
      <4>3. CASE i = Len(stdin) + 1
        <5>1. v.queued + i = next
          BY <1>4, <2>1, <3>1, <4>3
        <5>2. QED BY <3>2, <4>3, <5>1
      <4>4. QED BY <4>1, <4>2, <4>3
    <3>5. QED BY <1>2, <3>1, <3>3, <3>4 DEF AtChild, v
  <2>4. QED BY <2>2, <2>3
<1>8. Walk(vs, Output)' /\ AtCodec(vs[1])'
  BY <1>1, <1>2, <1>3 DEF Explains, AtCodec
<1>9. QED BY <1>6, <1>7, <1>8 DEF Explains, Explained

(* The child writes a line that leads from its view to the next one.       *)
LEMMA ExplainedEmitted ==
  ASSUME TypeOK, NEW vs \in Seq(View), Explains(vs), NEW l \in Line, NEW u \in View,
         Emit(l), Leads(vs[Len(vs)], l, u), u.queued < next, AtChild(u)',
         UNCHANGED <<buffer, phase, initialized, next, observer>>
  PROVE  Explained'
<1>1. /\ Walk(vs, Output) /\ AtCodec(vs[1]) /\ Expected(vs)
      /\ Len(vs) = Len(Output) + 1 /\ Len(Output) \in Nat
      /\ buffer \in Seq(Line) /\ stdout \in Seq(Line) /\ Output \in Seq(Line)
      /\ Len(Output) = Len(buffer) + Len(stdout) /\ Len(buffer) \in Nat /\ Len(stdout) \in Nat
  BY LinesTyped DEF Explains, Walk
<1>2. Output' = Append(Output, l)
  BY <1>1, OutputParts DEF Output, Emit
<1> DEFINE ws == Append(vs, u)
<1>3. /\ Walk(ws, Append(Output, l)) /\ Len(ws) = Len(vs) + 1 /\ ws[Len(vs) + 1] = u
      /\ \A i \in 1..Len(vs) : ws[i] = vs[i]
  BY <1>1, WalkAppend
<1>4. ws \in Seq(View)
  BY <1>3 DEF Walk
<1> HIDE DEF ws
<1>5. ws[1] = vs[1] /\ ws[Len(ws)] = u
  BY <1>1, <1>3
<1>6. Walk(ws, Output)'
  BY <1>2, <1>3
<1>7. AtCodec(ws[1])'
  BY <1>1, <1>5 DEF AtCodec
<1>8. Expected(ws)'
  <2>1. \A i \in 1..Len(ws) : i \in 1..Len(vs) \/ i = Len(vs) + 1
    <3>1. Len(ws) = Len(vs) + 1 /\ Len(vs) \in Nat
      BY <1>1, <1>3
    <3>2. QED BY <3>1
  <2>2. \A i \in 1..(Len(buffer) + 1) : i \in 1..Len(vs)
    BY <1>1
  <2>3. QED BY <1>1, <1>3, <2>1, <2>2 DEF Expected
<1>9. AtChild(ws[Len(ws)])'
  BY <1>5
<1>10. QED BY <1>4, <1>6, <1>7, <1>8, <1>9 DEF Explains, Explained

LEMMA LastView ==
  ASSUME TypeOK, NEW vs \in Seq(View), Explains(vs)
  PROVE  /\ Len(vs) >= 1 /\ Len(vs) \in Nat /\ vs[Len(vs)] \in View /\ AtChild(vs[Len(vs)])
         /\ vs[Len(vs)].queued < next /\ vs[Len(vs)].queued \in Nat
         /\ \A i \in 1..Len(vs) : /\ vs[i] \in View /\ vs[i].queued \in Nat
                                  /\ vs[i].queued < next /\ vs[i].queued <= MaxTurns
<1>1. /\ Len(vs) = Len(Output) + 1 /\ Len(Output) \in Nat /\ next \in Nat
      /\ next <= MaxTurns + 1 /\ MaxTurns \in Nat
  BY LinesTyped DEF Explains, Walk
<1>2. Len(vs) >= 1 /\ Len(vs) \in Nat /\ Len(vs) \in 1..Len(vs)
  BY <1>1
<1>3. \A i \in 1..Len(vs) : vs[i] \in View
  BY <1>2
<1>4. \A i \in 1..Len(vs) : vs[i].queued \in Nat /\ vs[i].queued < next
  BY <1>3, Records DEF Explains, Expected
<1>5. \A i \in 1..Len(vs) : vs[i].queued <= MaxTurns
  BY <1>1, <1>4
<1>6. QED BY <1>2, <1>3, <1>4, <1>5 DEF Explains

(* The owed lines depend on how many turns are begun, not on the queue.    *)
LEMMA OwesQueued ==
  ASSUME NEW v, NEW u, NEW w, NEW b, u.stage = v.stage, u.begun = v.begun, Owes(v, w, b)
  PROVE  Owes(u, w, b)
  BY DEF Owes

LEMMA ExplainedRead ==
  ASSUME TypeOK, Explained, ReadsTurn
  PROVE  Explained'
<1>1. PICK vs \in Seq(View) : Explains(vs)
  BY DEF Explained
<1> DEFINE v == vs[Len(vs)]
           h == Head(stdin)
<1>2. /\ v \in View /\ v.queued \in Nat /\ v.begun \in Nat /\ v.stage \in Stages
      /\ v.queued < next /\ AtChild(v)
      /\ \A n, c, s : /\ ViewOf(n, c, s).queued = n /\ ViewOf(n, c, s).begun = c
                      /\ ViewOf(n, c, s).stage = s
      /\ \A n, c \in Nat, s \in Stages : ViewOf(n, c, s) \in View
  BY <1>1, LastView, Records
<1>3. /\ stdin # <<>> /\ Emit(Event("queued", h)) /\ inbox' = Append(inbox, h)
      /\ stdin' = Tail(stdin) /\ work' = work
      /\ UNCHANGED <<buffer, phase, initialized, next, observer>>
  BY DEF ReadsTurn
<1>4. /\ stdin \in Seq(Turns) /\ inbox \in Seq(Turns) /\ Len(stdin) \in Nat /\ Len(inbox) \in Nat
      /\ next \in Nat
  BY LinesTyped
<1>5. /\ h = stdin[1] /\ h \in Turns /\ Len(stdin) >= 1
      /\ Len(Tail(stdin)) = Len(stdin) - 1
      /\ \A i \in 1..(Len(stdin) - 1) : Tail(stdin)[i] = stdin[i + 1]
  BY <1>3, <1>4
<1>6. Event("queued", h) \in Line
  BY <1>5 DEF Event, Line, OfTurn
<1> HIDE DEF v, h
<1>7. CASE v.stage = "failed"
  <2>1. Leads(v, Event("queued", h), v) /\ AtChild(v)'
    BY <1>7 DEF Leads, AtChild
  <2>2. QED BY <1>1, <1>2, <1>3, <1>6, <2>1, ExplainedEmitted DEF v
<1>8. CASE v.stage # "failed"
  <2>1. /\ v.queued + Len(stdin) + 1 = next
        /\ \A i \in 1..Len(stdin) : stdin[i] = v.queued + i
    BY <1>2, <1>8 DEF AtChild
  <2>2. PICK b \in Nat : /\ b + Len(inbox) = v.queued
                         /\ \A i \in 1..Len(inbox) : inbox[i] = b + i
                         /\ Owes(v, work, b)
    BY <1>2, <1>8 DEF AtChild
  <2> DEFINE u == ViewOf(v.queued + 1, v.begun, v.stage)
  <2>3. u \in View /\ u.queued = v.queued + 1 /\ u.begun = v.begun /\ u.stage = v.stage
    BY <1>2
  <2>4. h = v.queued + 1
    <3>1. 1 \in 1..Len(stdin)
      BY <1>4, <1>5
    <3>2. QED BY <1>5, <2>1, <3>1
  <2>5. Leads(v, Event("queued", h), u)
    BY <1>8, <2>4 DEF Leads
  <2> HIDE DEF u
  <2>6. u.queued < next
    BY <1>2, <1>4, <1>5, <2>1, <2>3
  <2>7. u.queued + Len(stdin') + 1 = next'
    BY <1>2, <1>3, <1>4, <1>5, <2>1, <2>3
  <2>8. ASSUME NEW i \in 1..Len(stdin')
        PROVE  stdin'[i] = u.queued + i
    <3>1. i \in 1..(Len(stdin) - 1) /\ i + 1 \in 1..Len(stdin)
      BY <1>3, <1>4, <1>5
    <3>2. stdin'[i] = v.queued + (i + 1)
      BY <1>3, <1>5, <2>1, <3>1
    <3>3. i \in Nat
      BY <1>4, <3>1
    <3>4. \A q, n \in Nat : q + (n + 1) = (q + 1) + n
      OBVIOUS
    <3>5. v.queued + (i + 1) = (v.queued + 1) + i
      BY <1>2, <3>3, <3>4
    <3>6. QED BY <2>3, <3>2, <3>5
  <2>9. /\ Len(inbox') = Len(inbox) + 1 /\ inbox'[Len(inbox) + 1] = h
        /\ \A i \in 1..Len(inbox) : inbox'[i] = inbox[i]
    BY <1>3, <1>4
  <2>10. b + Len(inbox') = u.queued
    BY <1>2, <1>4, <2>2, <2>3, <2>9
  <2>11. ASSUME NEW i \in 1..Len(inbox')
         PROVE  inbox'[i] = b + i
    <3>1. i \in 1..Len(inbox) \/ i = Len(inbox) + 1
      BY <1>4, <2>9
    <3>2. CASE i \in 1..Len(inbox)
      BY <2>2, <2>9, <3>2
    <3>3. CASE i = Len(inbox) + 1
      <4>1. b + i = v.queued + 1
        BY <1>2, <1>4, <2>2, <3>3
      <4>2. QED BY <2>4, <2>9, <3>3, <4>1
    <3>4. QED BY <3>1, <3>2, <3>3
  <2>12. Owes(u, work', b)
    BY <1>3, <2>2, <2>3, OwesQueued
  <2>13. AtChild(u)'
    BY <2>7, <2>8, <2>10, <2>11, <2>12 DEF AtChild
  <2>14. QED BY <1>1, <1>2, <1>3, <1>6, <2>3, <2>5, <2>6, <2>13, ExplainedEmitted DEF v
<1>9. QED BY <1>7, <1>8

LEMMA ExplainedAnswers ==
  ASSUME TypeOK, Explained, Answers
  PROVE  Explained'
<1>1. PICK vs \in Seq(View) : Explains(vs)
  BY DEF Explained
<1> DEFINE v == vs[Len(vs)]
           h == Head(work)
<1>2. v \in View /\ v.queued \in Nat /\ v.queued < next /\ AtChild(v)
  BY <1>1, LastView
<1>3. /\ work # <<>> /\ Emit(h) /\ work' = Tail(work)
      /\ UNCHANGED <<buffer, phase, initialized, next, observer, stdin, inbox>>
  BY DEF Answers
<1>4. work \in Seq(Line) /\ h \in Line /\ Len(inbox) \in Nat /\ next \in Nat
  BY <1>3, LinesTyped
<1> HIDE DEF v, h
<1>5. CASE v.stage = "failed"
  <2>1. Leads(v, h, v) /\ AtChild(v)'
    BY <1>5 DEF Leads, AtChild
  <2>2. QED BY <1>1, <1>2, <1>3, <1>4, <2>1, ExplainedEmitted DEF v
<1>6. CASE v.stage # "failed"
  <2>1. /\ v.queued + Len(stdin) + 1 = next
        /\ \A i \in 1..Len(stdin) : stdin[i] = v.queued + i
    BY <1>2, <1>6 DEF AtChild
  <2>2. PICK b \in Nat : /\ b + Len(inbox) = v.queued
                         /\ \A i \in 1..Len(inbox) : inbox[i] = b + i
                         /\ Owes(v, work, b)
    BY <1>2, <1>6 DEF AtChild
  <2>3. b <= v.queued
    BY <1>2, <1>4, <2>2
  <2>4. PICK u \in View : /\ Leads(v, h, u) /\ u.queued = v.queued
                          /\ u.stage = "failed" \/ Owes(u, Tail(work), b)
    BY <1>2, <1>3, <1>4, <2>2, <2>3, OwesNext DEF h
  <2>5. AtChild(u)'
    BY <1>3, <2>1, <2>2, <2>4 DEF AtChild
  <2>6. QED BY <1>1, <1>2, <1>3, <1>4, <2>4, <2>5, ExplainedEmitted DEF v
<1>7. QED BY <1>5, <1>6

LEMMA ExplainedBegun ==
  ASSUME TypeOK, Explained, BeginsTurn
  PROVE  Explained'
<1>1. PICK vs \in Seq(View) : Explains(vs)
  BY DEF Explained
<1> DEFINE v == vs[Len(vs)]
<1>2. v \in View /\ v.queued \in Nat /\ AtChild(v)
  BY <1>1, LastView
<1>3. /\ work = <<>> /\ inbox # <<>> /\ work' \in Answer(Head(inbox)) /\ inbox' = Tail(inbox)
      /\ UNCHANGED <<buffer, stdout, phase, initialized, next, observer, stdin>>
  BY DEF BeginsTurn
<1>4. /\ inbox \in Seq(Turns) /\ Len(inbox) \in Nat /\ Head(inbox) \in Turns
      /\ Head(inbox) = inbox[1] /\ Len(inbox) >= 1 /\ Len(Tail(inbox)) = Len(inbox) - 1
      /\ \A i \in 1..(Len(inbox) - 1) : Tail(inbox)[i] = inbox[i + 1]
  <2>1. inbox \in Seq(Turns)
    BY LinesTyped
  <2>2. QED BY <1>3, <2>1
<1> HIDE DEF v
<1>5. AtChild(v)'
  <2>1. CASE v.stage = "failed"
    BY <2>1 DEF AtChild
  <2>2. CASE v.stage # "failed"
    <3>1. /\ v.queued + Len(stdin) + 1 = next
          /\ \A i \in 1..Len(stdin) : stdin[i] = v.queued + i
      BY <1>2, <2>2 DEF AtChild
    <3>2. PICK b \in Nat : /\ b + Len(inbox) = v.queued
                           /\ \A i \in 1..Len(inbox) : inbox[i] = b + i
                           /\ Owes(v, work, b)
      BY <1>2, <2>2 DEF AtChild
    <3>3. Head(inbox) = b + 1
      <4>1. 1 \in 1..Len(inbox)
        BY <1>4
      <4>2. QED BY <1>4, <3>2, <4>1
    <3>4. Owes(v, work', b + 1)
      BY <1>2, <1>3, <1>4, <3>2, <3>3, OwesAnswer
    <3>5. b + 1 \in Nat /\ (b + 1) + Len(inbox') = v.queued
      BY <1>2, <1>3, <1>4, <3>2
    <3>6. ASSUME NEW i \in 1..Len(inbox')
          PROVE  inbox'[i] = (b + 1) + i
      <4>1. i \in 1..(Len(inbox) - 1) /\ i + 1 \in 1..Len(inbox)
        BY <1>3, <1>4
      <4>2. inbox'[i] = b + (i + 1)
        BY <1>3, <1>4, <3>2, <4>1
      <4>3. QED BY <4>1, <4>2
    <3>7. QED BY <1>3, <3>1, <3>4, <3>5, <3>6 DEF AtChild
  <2>3. QED BY <2>1, <2>2
<1>6. Output' = Output
  BY <1>3 DEF Output
<1>7. Walk(vs, Output)' /\ AtCodec(vs[1])' /\ Expected(vs)'
  BY <1>1, <1>3, <1>6 DEF Explains, AtCodec, Expected
<1>8. QED BY <1>5, <1>7 DEF Explains, Explained, v

LEMMA ExplainedPolled ==
  ASSUME TypeOK, Explained, Poll
  PROVE  Explained'
<1>1. PICK vs \in Seq(View) : Explains(vs)
  BY DEF Explained
<1>2. /\ buffer' = buffer \o stdout /\ stdout' = <<>> /\ observer' = "again"
      /\ UNCHANGED <<phase, initialized, next, stdin, inbox, work>>
  BY DEF Poll
<1>3. Output' = Output
  BY <1>2, LinesTyped, OutputParts DEF Output
<1>4. Explains(vs)'
  BY <1>1, <1>2, <1>3 DEF Explains, AtCodec, AtChild, Expected
<1>5. QED BY <1>4 DEF Explained

(* All the reports of the turns that were written are registered, also     *)
(* those of the turns that the lines in the pump are about.                *)
LEMMA ExplainedRegistered ==
  ASSUME TypeOK, ReportsKnown, Explained, Output' = Output, phase' = Registered, reports' = <<>>,
         Len(buffer') <= Len(Output), buffer' \in Seq(Line),
         UNCHANGED <<initialized, writer, next, stdin, inbox, work>>
  PROVE  Explained'
<1>1. PICK vs \in Seq(View) : Explains(vs)
  BY DEF Explained
<1>2. \A t \in Turns : \/ phase'[t] = phase[t]
                       \/ phase[t] = "none" /\ phase'[t] = "AwaitingQueue"
  BY DEF Registered, ReportsKnown, Reporting
<1>3. \A t \in Turns : t < next => phase'[t] # "none"
  BY ReportsTaken
<1>4. AtCodec(vs[1])'
  BY <1>1, <1>2 DEF Explains, AtCodec, Unqueued
<1>5. \A i \in 1..Len(vs) : \A t \in Turns : t <= vs[i].queued => phase'[t] # "none"
  <2>1. \A i \in 1..Len(vs) : vs[i].queued \in Nat /\ vs[i].queued < next
    BY <1>1, LastView
  <2>2. next \in Nat /\ Turns \subseteq Nat
    BY LinesTyped, TurnsAre
  <2>3. SUFFICES ASSUME NEW i \in 1..Len(vs), NEW t \in Turns, t <= vs[i].queued
                 PROVE  phase'[t] # "none"
    OBVIOUS
  <2>4. t < next
    <3>1. t \in Nat /\ vs[i].queued \in Nat /\ vs[i].queued < next
      BY <2>1, <2>2
    <3>2. QED BY <2>2, <2>3, <3>1
  <2>5. QED BY <1>3, <2>4
<1>6. \A i \in 1..(Len(buffer') + 1) : i \in 1..Len(vs)
  <2>1. Len(vs) = Len(Output) + 1 /\ Len(Output) \in Nat /\ Len(buffer') \in Nat
    BY <1>1, LinesTyped DEF Explains, Walk
  <2>2. QED BY <2>1
<1>7. Expected(vs)'
  BY <1>1, <1>5, <1>6 DEF Explains, Expected
<1>8. Walk(vs, Output)' /\ AtChild(vs[Len(vs)])'
  BY <1>1 DEF Explains, AtChild
<1>9. QED BY <1>4, <1>7, <1>8 DEF Explains, Explained

LEMMA ExplainedLine ==
  ASSUME TypeOK, Explained, observer \in {"lines", "rest"}, buffer # <<>>
  PROVE  /\ ~RefusedLine
         /\ LineStep => Explained' \/ verdict' = "Failed"
<1>1. PICK vs \in Seq(View) : Explains(vs)
  BY DEF Explained
<1>2. /\ Output \in Seq(Line) /\ Output # <<>> /\ Head(Output) = Head(buffer)
      /\ Tail(buffer) \o stdout = Tail(Output)
      /\ buffer \in Seq(Line) /\ Len(buffer) \in Nat /\ Len(buffer) >= 1
      /\ Len(Tail(buffer)) = Len(buffer) - 1 /\ Len(Output) \in Nat
      /\ Len(Output) = Len(buffer) + Len(stdout) /\ Len(stdout) \in Nat
  <2>1. /\ buffer \in Seq(Line) /\ stdout \in Seq(Line) /\ Output \in Seq(Line)
        /\ Len(Output) = Len(buffer) + Len(stdout)
    BY LinesTyped
  <2>2. QED BY <2>1, OutputParts DEF Output
<1> DEFINE ws == Tail(vs)
<1>3. /\ Walk(vs, Output) /\ Len(vs) = Len(Output) + 1
      /\ AtCodec(vs[1]) /\ AtChild(vs[Len(vs)]) /\ Expected(vs)
  BY <1>1 DEF Explains, Walk
<1>4. /\ Walk(ws, Tail(Output)) /\ Leads(vs[1], Head(Output), vs[2])
      /\ Len(ws) = Len(vs) - 1 /\ Len(vs) >= 2 /\ ws[1] = vs[2]
      /\ ws[Len(ws)] = vs[Len(vs)]
      /\ \A i \in 1..(Len(vs) - 1) : ws[i] = vs[i + 1]
  BY <1>2, <1>3, WalkTail
<1>5. ws \in Seq(View)
  BY <1>4 DEF Walk
<1> HIDE DEF ws
<1>6. 1 \in 1..Len(vs) /\ 2 \in 1..Len(vs) /\ 2 \in 1..(Len(buffer) + 1)
  BY <1>2, <1>3
<1>7. /\ vs[1] \in View /\ vs[2] \in View
      /\ vs[1].queued <= MaxTurns /\ vs[2].queued <= MaxTurns
  BY <1>1, <1>6, LastView
<1>8. \A t \in Turns : t <= vs[2].queued => phase[t] # "none"
  BY <1>3, <1>6 DEF Expected
<1>9. /\ ~Refused(Head(buffer))
      /\ LineStep => \/ GoesOn /\ AtCodec(vs[2])'
                     \/ verdict' = "Failed"
  BY <1>2, <1>3, <1>4, <1>7, <1>8, CodecReads
<1>10. ASSUME LineStep, GoesOn, AtCodec(vs[2])'
       PROVE  Explained'
  <2>1. /\ buffer' = Tail(buffer) /\ Reads
        /\ UNCHANGED <<handle, writer, next, stdin, agent, reports, stdout>>
    BY <1>10, LineCases
  <2>2. Output' = Tail(Output)
    BY <1>2, <2>1 DEF Output
  <2>3. Walk(ws, Output)' /\ AtCodec(ws[1])'
    BY <1>4, <1>10, <2>2
  <2>4. AtChild(ws[Len(ws)])'
    BY <1>3, <1>4, <2>1 DEF AtChild
  <2>5. phase \in [Turns -> Phases]
    BY TypeParts DEF ObserverOK
  <2>6. \A t \in Turns : phase[t] # "none" => phase'[t] # "none"
    BY <2>1, <2>5 DEF Reads, OfOneTurn, Initializes, Refuses, Ignores, Queues, Starts,
       Acknowledges, Speaks, Results, Completes, Fails, Advances, Tells
  <2>7. Expected(ws)'
    <3>1. ASSUME NEW i \in 1..Len(ws)
          PROVE  ws[i].queued < next'
      <4>1. i \in 1..(Len(vs) - 1) /\ i + 1 \in 1..Len(vs)
        BY <1>2, <1>3, <1>4
      <4>2. ws[i] = vs[i + 1] /\ vs[i + 1].queued < next
        BY <1>3, <1>4, <4>1 DEF Expected
      <4>3. QED BY <2>1, <4>2
    <3>2. ASSUME NEW i \in 1..(Len(buffer') + 1), NEW t \in Turns, t <= ws[i].queued
          PROVE  phase'[t] # "none"
      <4>1. i \in 1..(Len(vs) - 1) /\ i + 1 \in 1..(Len(buffer) + 1)
        BY <1>2, <1>3, <2>1
      <4>2. ws[i] = vs[i + 1]
        BY <1>4, <4>1
      <4>3. phase[t] # "none"
        BY <1>3, <3>2, <4>1, <4>2 DEF Expected
      <4>4. QED BY <2>6, <4>3
    <3>3. QED BY <3>1, <3>2 DEF Expected
  <2>8. QED BY <1>5, <2>3, <2>4, <2>7 DEF Explains, Explained
<1>11. ~RefusedLine
  BY <1>9 DEF RefusedLine
<1>12. QED BY <1>9, <1>10, <1>11

----------------------------------------------------------------------------
(* A child that follows the protocol is believed *)

LEMMA ExplainedInit == Init => Orderly /\ Explained /\ FaithfulIsBelieved
<1> SUFFICES ASSUME Init
             PROVE  Orderly /\ Explained /\ FaithfulIsBelieved
  OBVIOUS
<1>1. \A t \in Turns : phase[t] = "none"
  BY DEF Init
<1>2. Orderly /\ FaithfulIsBelieved
  BY DEF Init, Orderly, FaithfulIsBelieved
<1> DEFINE v  == ViewOf(0, 0, "idle")
           vs == <<v>>
<1>3. v \in View /\ v.queued = 0 /\ v.begun = 0 /\ v.stage = "idle"
  BY Records DEF Stages
<1> HIDE DEF v
<1>4. vs \in Seq(View) /\ Len(vs) = 1 /\ vs[1] = v
  BY <1>3
<1> HIDE DEF vs
<1>5. Output = <<>>
  BY DEF Init, Output
<1>6. Walk(vs, Output)
  BY <1>4, <1>5 DEF Walk
<1>7. AtCodec(v)
  <2>1. \A t \in Turns : t \in Nat /\ t >= 1
    BY TurnsAre
  <2>2. QED BY <1>1, <1>3, <2>1 DEF AtCodec, Unqueued
<1>8. AtChild(v)
  <2>1. next = 1 /\ stdin = <<>> /\ inbox = <<>> /\ work = <<>>
    BY DEF Init
  <2>2. v.queued + Len(stdin) + 1 = next /\ 0 + Len(inbox) = v.queued
    BY <1>3, <2>1
  <2>3. Owes(v, work, 0)
    BY <1>3, <2>1 DEF Owes
  <2>4. QED BY <2>1, <2>2, <2>3 DEF AtChild
<1>9. Expected(vs)
  BY <1>3, <1>4 DEF Init, Expected
<1>10. Explained
  BY <1>4, <1>6, <1>7, <1>8, <1>9 DEF Explains, Explained
<1>11. QED BY <1>2, <1>10

(* What has gone wrong stays wrong, and a verdict is final.                *)
LEMMA HarmStays ==
  ASSUME IInv, Next
  PROVE  /\ Faithful' => Faithful
         /\ stopping' = "none" => stopping = "none"
         /\ Denied => Denied'
         /\ verdict # "none" => verdict' = verdict
<1>1. TypeOK /\ VerdictTold
  BY DEF IInv
<1>2. strays \in Nat
  BY <1>1, TypeParts, RuntimeAssumption DEF ChildOK
<1>3. strays' = strays \/ strays' = strays + 1
  <2>1. CASE ObserverStep
    BY <1>1, <2>1, LineCases, LoopCases DEF ObserverStep, LoopStep, PublishAfterCleanup
  <2>2. CASE ~ObserverStep
    BY <2>2 DEF Next, Over, Send, Close, Cancel, Kill, Permission, WriterStep, Prepare, Write,
       WriteFails, CloseStdin, Leave, ChildStep, ReadsTurn, BeginsTurn, Answers, Finishes,
       Rambles, Exits, Departs, Dies
  <2>3. QED BY <2>1, <2>2
<1>4. Faithful' => Faithful
  BY <1>2, <1>3 DEF Faithful
<1>5. stopping' = "none" => stopping = "none"
  <2>1. CASE ObserverStep
    BY <1>1, <2>1, LineCases, LoopCases DEF ObserverStep, LoopStep, PublishAfterCleanup
  <2>2. CASE ~ObserverStep
    BY <2>2 DEF Next, Over, Send, Close, Cancel, Kill, Permission, WriterStep, Prepare, Write,
       WriteFails, CloseStdin, Leave, ChildStep, ReadsTurn, BeginsTurn, Answers, Finishes,
       Rambles, Exits, Departs, Dies
  <2>3. QED BY <2>1, <2>2
<1>6. writer = "done" => writer' = writer /\ next' = next
  <2>1. CASE ObserverStep
    BY <1>1, <2>1, LineCases, LoopCases DEF ObserverStep, LoopStep, PublishAfterCleanup
  <2>2. CASE ~ObserverStep
    BY <2>2 DEF Next, Over, Send, Close, Cancel, Kill, Permission, WriterStep, Prepare, Ready,
       Write, WriteFails, CloseStdin, Leave, Drained, ChildStep, ReadsTurn, BeginsTurn, Answers,
       Finishes, Rambles, Exits, Departs, Dies
  <2>3. QED BY <2>1, <2>2
<1>7. verdict # "none" => verdict' = verdict
  <2>1. CASE LoopStep
    BY <1>1, <2>1 DEF VerdictTold, Ending, LoopStep, ConsumeReports, Poll, Again, LinesEnd,
       StillRuns, HasEnded, Classify
  <2>2. CASE LineStep
    BY <1>1, <2>2, LineCases DEF VerdictTold, Ending
  <2>3. CASE PublishAfterCleanup
    BY <2>3 DEF PublishAfterCleanup
  <2>4. CASE ~ObserverStep
    BY <2>4 DEF Next, Over, Send, Close, Cancel, Kill, Permission, WriterStep, Prepare, Write,
       WriteFails, CloseStdin, Leave, ChildStep, ReadsTurn, BeginsTurn, Answers, Finishes,
       Rambles, Exits, Dies
  <2>5. QED BY <2>1, <2>2, <2>3, <2>4 DEF ObserverStep, LoopStep
<1>8. QED BY <1>4, <1>5, <1>6, <1>7 DEF Denied

LEMMA OrderlyHandle ==
  ASSUME IInv, Unharmed, Orderly, Explained, Send \/ Close \/ Cancel \/ Kill, Unharmed'
  PROVE  Orderly' /\ Explained'
<1>1. sent # 0
  BY TypeParts, TurnsAre DEF IInv, HandleOK
<1>2. Send \/ Close
  BY DEF Unharmed, Cancel, Kill
<1>3. /\ UNCHANGED <<buffer, stdout, phase, initialized, stdin, inbox, work, next, observer,
                     writer, reports, child>>
      /\ graceful # 0 => graceful' # 0
  BY <1>1, <1>2 DEF Send, Close
<1>4. Orderly'
  BY <1>3 DEF Orderly, Known, Reporting
<1>5. QED BY <1>3, <1>4, ExplainedSame

LEMMA OrderlyWriter ==
  ASSUME IInv, Unharmed, Orderly, Explained, Permission \/ WriterStep, Unharmed'
  PROVE  Orderly' /\ Explained'
<1>1. TypeOK /\ ReportsKnown /\ VerdictTold
  BY DEF IInv
<1>2. ~WriteFails /\ ~Leave
  <2>1. observer # "cleanup" /\ stopping = "none"
    BY <1>1 DEF Unharmed, VerdictTold, Ending
  <2>2. QED BY <2>1 DEF Orderly, WriteFails, Leave
<1>3. UNCHANGED <<handle, child, stdout, agent, observer, buffer, codec>>
  BY DEF Permission, WriterStep, Prepare, Write, WriteFails, CloseStdin, Leave
<1>4. \A kind, n : Report(kind, n) =>
        /\ \A t : Reporting(t)' <=> Reporting(t) \/ (kind = "prepared" /\ t = n)
        /\ kind # "failed" => \A i \in DOMAIN reports' : reports'[i][1] # "failed"
  <2> SUFFICES ASSUME NEW kind, NEW n, Report(kind, n)
               PROVE  /\ \A t : Reporting(t)' <=> Reporting(t) \/ (kind = "prepared" /\ t = n)
                      /\ kind # "failed" => \A i \in DOMAIN reports' : reports'[i][1] # "failed"
    OBVIOUS
  <2>1. reports \in Seq(WriterReports)
    BY <1>1, TypeParts DEF WriterOK
  <2>2. /\ DOMAIN reports' = 1..(Len(reports) + 1) /\ DOMAIN reports = 1..Len(reports)
        /\ \A i \in 1..Len(reports) : reports'[i] = reports[i]
        /\ reports'[Len(reports) + 1] = <<kind, n>> /\ Len(reports) \in Nat
    BY <2>1 DEF Report
  <2>3. \A i \in 1..(Len(reports) + 1) : i \in 1..Len(reports) \/ i = Len(reports) + 1
    BY <2>2
  <2>4. <<kind, n>>[1] = kind
    OBVIOUS
  <2>5. kind # "failed" => \A i \in DOMAIN reports' : reports'[i][1] # "failed"
    BY <2>2, <2>3, <2>4 DEF Orderly
  <2>6. QED BY <1>1, <2>5, OneReport
<1>5. CASE Permission
  <2>1. writer' = "ready" /\ UNCHANGED <<reports, next, stdin>>
    BY <1>5 DEF Permission, Orderly, Unharmed, Denied
  <2>2. Orderly'
    BY <1>3, <1>5, <2>1 DEF Orderly, Known, Reporting, Permission
  <2>3. QED BY <1>3, <2>1, <2>2, ExplainedSame
<1>6. CASE Prepare
  <2>1. writer = "ready" /\ writer' = "write" /\ UNCHANGED <<next, stdin>>
        /\ Report("prepared", next)
    BY <1>6 DEF Prepare, Ready
  <2>2. Orderly'
    BY <1>3, <1>4, <2>1 DEF Orderly
  <2>3. QED BY <1>3, <2>1, <2>2, ExplainedSame
<1>7. CASE Write
  <2>1. writer' = "ready" /\ child = "alive" /\ reports' = reports
    BY <1>7 DEF Write
  <2>2. Orderly'
    BY <1>3, <2>1 DEF Orderly
  <2>3. QED BY <1>1, <1>7, <2>2, ExplainedWritten
<1>8. CASE CloseStdin
  <2>1. /\ writer = "ready" /\ writer' = "done" /\ graceful # 0 /\ UNCHANGED <<next, stdin>>
        /\ Report("closed", NoTurn)
    BY <1>8 DEF CloseStdin, Drained, Covered
  <2>2. \A t : Reporting(t)' <=> Reporting(t)
    BY <1>4, <2>1
  <2>3. next \in Nat /\ Turns \subseteq Nat
    BY <1>1, LinesTyped, TurnsAre
  <2>4. \A t \in Turns : t >= next => ~Known(t)
    BY <1>1, <2>1, <2>3 DEF ReportsKnown
  <2>5. \A i \in DOMAIN reports' : reports'[i][1] # "failed"
    BY <1>4, <2>1
  <2>6. \A t \in Turns : t >= next' => ~Known(t)'
    BY <1>3, <2>1, <2>2, <2>4 DEF Known
  <2>7. Orderly'
    BY <1>3, <2>1, <2>5, <2>6 DEF Orderly
  <2>8. QED BY <1>3, <2>1, <2>7, ExplainedSame
<1>9. QED BY <1>2, <1>5, <1>6, <1>7, <1>8 DEF WriterStep

LEMMA OrderlyChild ==
  ASSUME IInv, Unharmed, Orderly, Explained, ChildStep \/ Rambles \/ Exits \/ Dies, Unharmed'
  PROVE  Orderly' /\ Explained'
<1>1. TypeOK
  BY DEF IInv
<1>2. ~Rambles /\ ~Exits /\ ~Dies
  BY DEF Unharmed, Faithful, Orderly, Rambles, Exits, Departs, Dies
<1>3. /\ child = "alive" /\ UNCHANGED <<handle, input, observer, buffer, codec>>
      /\ \/ child' = child
         \/ Finishes
  BY <1>2 DEF ChildStep, ReadsTurn, BeginsTurn, Answers, Finishes
<1>4. Orderly'
  <2>1. CASE child' = child
    BY <1>3, <2>1 DEF Orderly, Known, Reporting
  <2>2. CASE Finishes
    BY <1>3, <2>2 DEF Orderly, Known, Reporting, Finishes, EndOfInput
  <2>3. QED BY <1>3, <2>1, <2>2
<1>5. Explained'
  <2>1. CASE Finishes
    BY <2>1, ExplainedSame DEF Finishes
  <2>2. QED
    BY <1>1, <1>2, <2>1, ExplainedRead, ExplainedBegun, ExplainedAnswers DEF ChildStep
<1>6. QED BY <1>4, <1>5

(* The observer of a child that follows the protocol ends it only because  *)
(* the child failed a turn or has ended well.                              *)
LEMMA OrderlyLoop ==
  ASSUME IInv, Unharmed, Orderly, Explained, LoopStep
  PROVE  \/ UNCHANGED <<child, verdict>> /\ Orderly' /\ Explained'
         \/ verdict' = "Exited"
<1>1. TypeOK /\ ReportsKnown /\ Rested
  BY DEF IInv
<1>2. ~Reported("failed")
  BY DEF Orderly, Reported
<1>3. Turns \subseteq Nat /\ next \in Nat
  BY <1>1, LinesTyped, TurnsAre
<1>4. ASSUME phase' = Registered, reports' = <<>>, UNCHANGED <<writer, next>>
      PROVE  \A t \in Turns : ~Known(t) => ~Known(t)'
  BY <1>4 DEF Registered, Known, Reporting
<1>5. CASE ConsumeReports("reports", "poll") \/ Again
  <2>1. /\ reports' = <<>> /\ phase' = Registered /\ UNCHANGED <<verdict, child>>
        /\ UNCHANGED <<stdout, buffer, initialized, handle, writer, next, stdin, agent>>
        /\ \/ observer = "reports" /\ observer' = "poll"
           \/ observer = "again" /\ observer' = "lines"
    BY <1>2, <1>5 DEF Again, ConsumeReports
  <2>2. /\ Output' = Output /\ Len(buffer') <= Len(Output) /\ buffer' \in Seq(Line)
    <3>1. /\ buffer \in Seq(Line) /\ Len(Output) = Len(buffer) + Len(stdout)
          /\ Len(buffer) \in Nat /\ Len(stdout) \in Nat
      BY <1>1, LinesTyped
    <3>2. Len(buffer) <= Len(Output)
      BY <3>1
    <3>3. QED BY <2>1, <3>1, <3>2 DEF Output
  <2>3. Explained'
    BY <1>1, <2>1, <2>2, ExplainedRegistered
  <2>4. Orderly'
    BY <1>4, <2>1 DEF Orderly
  <2>5. QED BY <2>1, <2>3, <2>4
<1>6. CASE Poll
  <2>1. Explained'
    BY <1>1, <1>6, ExplainedPolled
  <2>2. Orderly'
    BY <1>6 DEF Poll, Orderly, Known, Reporting
  <2>3. QED BY <1>6, <2>1, <2>2 DEF Poll
<1>7. CASE LinesEnd \/ StillRuns
  <2>1. /\ UNCHANGED <<reports, stdout, child, buffer, codec, verdict, handle, writer, next,
                       stdin, agent>>
        /\ \/ observer' = "status" /\ buffer = <<>>
           \/ observer = "status" /\ observer' = "reports"
    BY <1>7 DEF LinesEnd, StillRuns
  <2>2. Explained'
    BY <2>1, ExplainedSame
  <2>3. Orderly'
    BY <2>1 DEF Orderly, Known, Reporting
  <2>4. QED BY <2>1, <2>2, <2>3
<1>8. CASE HasEnded
  <2>1. /\ reports' = <<>> /\ phase' = Registered /\ UNCHANGED <<verdict, child>>
        /\ UNCHANGED <<initialized, handle, writer, next, stdin, agent>>
        /\ buffer' = buffer \o stdout /\ stdout' = <<>> /\ observer' = "rest"
        /\ child = "exited_ok"
    BY <1>2, <1>8 DEF HasEnded, DrainReady, AllTurns, HasExited, Orderly
  <2>2. /\ Output' = Output /\ Len(buffer') <= Len(Output) /\ buffer' \in Seq(Line)
    BY <1>1, <2>1, LinesTyped, OutputParts DEF Output
  <2>3. Explained'
    BY <1>1, <2>1, <2>2, ExplainedRegistered
  <2>4. Orderly'
    BY <1>4, <2>1 DEF Orderly
  <2>5. QED BY <2>1, <2>3, <2>4
<1>9. CASE Classify
  <2>1. /\ observer = "rest" /\ buffer = <<>>
        /\ child = "exited_ok" /\ stdout = <<>> /\ writer = "done" /\ graceful # 0
        /\ stdin = <<>> /\ inbox = <<>> /\ work = <<>> /\ stopping = "none"
    BY <1>9 DEF Classify, Orderly, Unharmed
  <2>2. PICK vs \in Seq(View) : Explains(vs)
    BY DEF Explained
  <2> DEFINE v == vs[1]
  <2>3. Len(vs) = 1
    <3>1. Output = <<>>
      BY <2>1 DEF Output
    <3>2. QED BY <2>2, <3>1 DEF Explains, Walk
  <2>4. AtCodec(v) /\ AtChild(v)
    BY <2>2, <2>3 DEF Explains
  <2>5. v \in View /\ v.queued \in Nat /\ v.begun \in Nat /\ v.stage # "failed"
    <3>1. v \in View
      BY <2>3
    <3>2. QED BY <2>4, <3>1, Records DEF AtCodec
  <2> HIDE DEF v
  <2>6. v.queued + 1 = next
    BY <2>1, <2>4, <2>5 DEF AtChild
  <2>7. PICK b \in Nat : b + Len(inbox) = v.queued /\ Owes(v, work, b)
    BY <2>4, <2>5 DEF AtChild
  <2>8. b = v.queued
    BY <2>1, <2>5, <2>7
  <2>9. v.stage = "idle" /\ v.begun = b
    <3>1. /\ ~Closes(<<>>, b, 1) /\ ~Closes(<<>>, b, 2) /\ ~Closes(<<>>, b, 3)
          /\ <<>> # <<Event("completed", b)>>
      BY DEF Closes
    <3>2. QED BY <2>1, <2>7, <3>1 DEF Owes
  <2>10. ASSUME NEW t \in Turns
         PROVE  phase[t] \in {"none", "Completed"}
    <3>1. t < v.begun \/ t = v.begun \/ t >= next
      BY <1>3, <2>5, <2>6, <2>8, <2>9
    <3>2. CASE t < v.begun \/ t = v.begun
      BY <2>4, <2>9, <3>2 DEF AtCodec
    <3>3. CASE t >= next
      BY <2>1, <3>3 DEF Orderly, Known
    <3>4. QED BY <3>1, <3>2, <3>3
  <2>11. AllCompleted
    BY <2>10 DEF AllCompleted
  <2>12. QED BY <1>9, <2>1, <2>11 DEF Classify, Ends
<1>10. QED BY <1>5, <1>6, <1>7, <1>8, <1>9 DEF LoopStep

LEMMA OrderlyLine ==
  ASSUME IInv, Unharmed, Orderly, Explained, LineStep
  PROVE  \/ UNCHANGED <<child, verdict>> /\ Orderly' /\ Explained'
         \/ verdict' = "Failed"
<1>1. TypeOK
  BY DEF IInv
<1>2. /\ observer \in {"lines", "rest"} /\ buffer # <<>> /\ Reads
      /\ UNCHANGED <<handle, writer, next, stdin, agent, reports, stdout>>
  BY <1>1, LineCases
<1>3. ~RefusedLine /\ (Explained' \/ verdict' = "Failed")
  BY <1>1, <1>2, ExplainedLine
<1>4. GoesOn \/ verdict' = "Failed"
  BY <1>3 DEF LineStep, InitLine, QueuedLine, StartedLine, ReplayLine, DeltaLine, ResultLine,
     CompletedLine, SilentLine, ErrorLine, Took, Ends, GoesOn
<1>5. ASSUME GoesOn
      PROVE  Orderly'
  <2>1. phase \in [Turns -> Phases]
    BY <1>1, TypeParts DEF ObserverOK
  <2>2. \A t \in Turns : phase'[t] = "none" <=> phase[t] = "none"
    BY <1>2, <2>1 DEF Reads, OfOneTurn, Initializes, Refuses, Ignores, Queues, Starts,
       Acknowledges, Speaks, Results, Completes, Fails, Advances, Tells
  <2>3. \A t \in Turns : Known(t)' <=> Known(t)
    BY <1>2, <2>2 DEF Known, Reporting
  <2>4. QED BY <1>2, <1>5, <2>3 DEF Orderly, GoesOn
<1>6. QED BY <1>3, <1>4, <1>5 DEF GoesOn

LEMMA UnharmedStep ==
  ASSUME IInv, Unharmed, Orderly, Explained, Next
  PROVE  /\ Unharmed' => Orderly' /\ Explained'
         /\ verdict' # "Indeterminate"
<1>1. verdict = "none"
  BY DEF Unharmed
<1>2. CASE Send \/ Close \/ Cancel \/ Kill
  BY <1>1, <1>2, OrderlyHandle DEF Send, Close, Cancel, Kill
<1>3. CASE Permission \/ WriterStep
  <2>1. verdict' = verdict
    BY <1>3 DEF Permission, WriterStep, Prepare, Write, WriteFails, CloseStdin, Leave
  <2>2. QED BY <1>1, <1>3, <2>1, OrderlyWriter
<1>4. CASE ChildStep \/ Rambles \/ Exits \/ Dies
  <2>1. verdict' = verdict
    BY <1>4 DEF ChildStep, ReadsTurn, BeginsTurn, Answers, Finishes, Rambles, Exits, Dies
  <2>2. QED BY <1>1, <1>4, <2>1, OrderlyChild
<1>5. CASE LoopStep
  BY <1>1, <1>5, OrderlyLoop DEF Unharmed
<1>6. CASE LineStep
  BY <1>1, <1>6, OrderlyLine DEF Unharmed
<1>7. CASE PublishAfterCleanup \/ Over
  <2>1. observer \in Ending
    BY <1>7 DEF PublishAfterCleanup, Over, Ending
  <2>2. QED BY <1>1, <2>1 DEF IInv, VerdictTold
<1>8. QED
  BY <1>2, <1>3, <1>4, <1>5, <1>6, <1>7 DEF Next, ObserverStep, LoopStep

LEMMA FInvNext ==
  ASSUME FInv, Next
  PROVE  FInv'
<1>1. IInv /\ FaithfulIsBelieved /\ (Unharmed => Orderly /\ Explained)
  BY DEF FInv
<1>2. IInv'
  BY <1>1, IInvOutside, IInvObserver, IInvStutters, Zenon DEF Next, Over
<1>3. Unharmed' => Unharmed
  BY <1>1, HarmStays DEF Unharmed
<1>4. Unharmed' => Orderly' /\ Explained'
  BY <1>1, <1>3, UnharmedStep
<1>5. FaithfulIsBelieved'
  <2> SUFFICES ASSUME Faithful', verdict' = "Indeterminate"
               PROVE  Denied' \/ stopping' # "none"
    BY DEF FaithfulIsBelieved
  <2>1. Faithful /\ ~Unharmed
    BY <1>1, HarmStays, UnharmedStep
  <2>2. CASE Denied \/ stopping # "none"
    BY <1>1, <2>2, HarmStays
  <2>3. CASE verdict # "none"
    BY <1>1, <2>1, <2>2, <2>3, HarmStays DEF FaithfulIsBelieved
  <2>4. QED BY <2>1, <2>2, <2>3 DEF Unharmed
<1>6. QED BY <1>2, <1>4, <1>5 DEF FInv

LEMMA FInvStutters ==
  ASSUME FInv, UNCHANGED vars
  PROVE  FInv'
<1>1. IInv'
  BY IInvStutters DEF FInv
<1>2. (Unharmed' => Unharmed) /\ FaithfulIsBelieved'
  BY DEF FInv, Unharmed, FaithfulIsBelieved, Faithful, Denied
<1>3. ASSUME Orderly, Explained
      PROVE  Orderly' /\ Explained'
  <2>1. Orderly'
    BY <1>3 DEF Orderly, Known, Reporting
  <2>2. QED BY <1>3, <2>1, ExplainedSame
<1>4. QED BY <1>1, <1>2, <1>3 DEF FInv

(* While nothing but the protocol has happened, the lines between the      *)
(* child and the codec are explained by a walk from the one to the other.  *)
THEOREM Believing == Spec => []FInv
<1>1. Init => FInv
  BY TypeInit, PhasesInit, ExplainedInit DEF FInv, IInv
<1>2. FInv /\ [Next]_vars => FInv'
  BY FInvNext, FInvStutters
<1>3. QED BY <1>1, <1>2, PTL DEF Spec

(* `VerdictIsJust`: types; a child that follows the protocol is never      *)
(* found ambiguous, however its lines, the reports of its turns and its    *)
(* exit are interleaved, unless a permission was denied or a cancellation  *)
(* asked for; and no conversation is told to have ended well with a turn   *)
(* that was written and not answered.                                      *)
THEOREM VerdictsAreJust == Spec => []VerdictIsJust
<1>1. FInv => VerdictIsJust
  BY DEF FInv, IInv, Rested, PhasesTold, VerdictIsJust, ExitedIsComplete
<1>2. QED BY <1>1, Believing, PTL

=============================================================================
