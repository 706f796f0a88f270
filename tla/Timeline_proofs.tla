--------------------------- MODULE Timeline_proofs ---------------------------
(***************************************************************************)
(* Proofs about Timeline, for any number of turns, events, clients, failed *)
(* COMMITs and crashes, and any order of the observations.                 *)
(***************************************************************************)
EXTENDS Timeline, WellFoundedInduction, FiniteSetTheorems, SequenceTheorems, TLAPS

(* The definitions that group variables or states.                         *)
USE DEF store, clients, vars, Served, ClientUnchanged, Keeps

----------------------------------------------------------------------------
(* Numbers *)

(* A set of numbers has a least element. *)
LEMMA Least ==
  ASSUME NEW T, T \subseteq Nat, T # {}
  PROVE  \E x \in T : \A y \in T : x <= y
<1> DEFINE R == {ss \in Nat \X Nat : ss[1] < ss[2]}
<1>1. IsWellFoundedOn(R, Nat)
  BY NatLessThanWellFounded DEF OpToRel
<1>2. PICK x \in T : \A y \in T : ~(<<y, x>> \in R)
  <2> HIDE DEF R
  <2>1. QED BY <1>1, WFMin
<1>3. \A y \in T : ~(y < x)
  BY <1>2
<1>4. QED BY <1>3

(* The highest of some numbers is one of them, or 0 of none.               *)
LEMMA HighestIs ==
  ASSUME NEW S, S \subseteq Nat, NEW top \in Nat, \A m \in S : m <= top
  PROVE  Highest(S) \in S \cup {0} /\ \A m \in S \cup {0} : m <= Highest(S)
<1> DEFINE T == {k \in Nat : \A m \in S : m <= k}
<1>1. T \subseteq Nat /\ top \in T /\ T # {}
  OBVIOUS
<1>2. PICK x \in T : \A k \in T : x <= k
  <2> HIDE DEF T
  <2>1. QED BY <1>1, Least
<1>3. x \in S \cup {0}
  <2>1. SUFFICES ASSUME x \notin S, x # 0
                 PROVE  FALSE
    OBVIOUS
  <2>2. x \in Nat /\ x - 1 \in Nat /\ \A m \in S : m <= x /\ m # x /\ m \in Nat
    BY <1>2, <2>1
  <2>3. x - 1 \in T
    BY <2>2
  <2>4. QED BY <1>2, <2>2, <2>3
<1>4. x \in S \cup {0} /\ \A m \in S \cup {0} : m <= x
  BY <1>2, <1>3
<1> DEFINE all == S \cup {0}
<1>5. Highest(S) = CHOOSE n \in all : \A m \in S : m <= n
  BY DEF Highest
<1>6. \E n \in all : \A m \in S : m <= n
  BY <1>4
<1> HIDE DEF all
<1>7. Highest(S) \in all /\ \A m \in S : m <= Highest(S)
  BY <1>5, <1>6
<1>8. Highest(S) \in S \cup {0}
  BY <1>7, Zenon DEF all
<1>9. /\ S \cup {0} \subseteq Nat
      /\ \A h \in Nat : (\A m \in S : m <= h) => \A m \in S \cup {0} : m <= h
  OBVIOUS
<1>10. QED BY <1>7, <1>8, <1>9, Zenon
----------------------------------------------------------------------------
(* The inductive invariant *)

(* Tables whose numbers were not yet checked against the range. *)
Numbers == Nat
Entries == [seq : Numbers, payload : Payloads]
Wide    == [conv : {"absent"} \cup Admitting \cup Terminal,
            turn : [Turns -> [state : {"absent"} \cup Unfinished \cup Outcomes,
                              position : Numbers]],
            observed : {"none"} \cup Identities,
            log : Seq(Entries)]

Kind(d, i)   == d.log[i].payload[1]
Absent(d, t) == d.turn[t].state = "absent"

(* Events have the numbers 1, 2, ..., and turns positions 1, 2, ... in the *)
(* order in which they were used.                                          *)
Numbered(d) ==
  /\ d \in Wide
  /\ \A i \in 1..Len(d.log) : d.log[i].seq = i
  /\ \A t \in Turns : /\ d.turn[t].position = IF Absent(d, t) THEN 0 ELSE t
                      /\ ~Absent(d, t) => \A u \in 1..(t - 1) : ~Absent(d, u)

(* The last event about a turn names its state. *)
ToldState(d, t) ==
  IF Absent(d, t) THEN About(t, d) = {}
  ELSE \E i \in About(t, d) : /\ Kind(d, i) = StateEvents[d.turn[t].state]
                              /\ \A j \in About(t, d) : j <= i

Explained(d) == \A t \in Turns : ToldState(d, t)

(* Turns were queued once each, in their order. *)
QueuedAt(d, t, i) == i \in 1..Len(d.log) /\ d.log[i].payload = <<"TurnQueued", t>>

InOrder(d) ==
  /\ \A t \in Turns : ~Absent(d, t) => \E i \in 1..Len(d.log) : QueuedAt(d, t, i)
  /\ \A s, t \in Turns : \A i, j \in 1..Len(d.log) :
       QueuedAt(d, s, i) /\ QueuedAt(d, t, j) /\ i < j => s < t

(* A conversation that is over has no unfinished turn, and its last event  *)
(* says so; no earlier one does.                                           *)
Closes(d) ==
  /\ d.conv = "absent" => d.log = <<>> /\ \A t \in Turns : Absent(d, t)
  /\ d.conv \in Terminal => /\ InState(d, Unfinished) = {}
                            /\ d.log # <<>>
                            /\ d.log[Len(d.log)].payload = <<"ConversationTerminal", d.conv>>
  /\ \A i \in 1..Len(d.log) : Kind(d, i) = "ConversationTerminal" =>
                                d.conv \in Terminal /\ i = Len(d.log)

(* Every init line named the identity of the operation. *)
Identified(d) ==
  \A i \in 1..Len(d.log) : Kind(d, i) = "Initialized" => d.log[i].payload[2] = d.observed

Agreed(d) == Numbered(d) /\ Explained(d) /\ InOrder(d) /\ Closes(d) /\ Identified(d)

(* The connection sees what is committed, unless it is inside a            *)
(* transaction that nobody runs; then nothing else can begin.              *)
Connection ==
  /\ ~open => mem = disk
  /\ ~up => ~open /\ observer = "none"
  /\ ~open /\ observer \in {"active"} \cup Failing => mem.conv \in Admitting
  /\ ~open /\ observer = "ending" => mem.conv # "absent"

IInv == TypeOK /\ Agreed(mem) /\ Agreed(disk) /\ Connection

(* What a client has, and what is on its way to it. *)
Begins(s, l) == Len(s) <= Len(l) /\ \A i \in 1..Len(s) : s[i] = l[i]

Holds(c) ==
  /\ Begins(received[c], mem.log)
  /\ call[c] = "stopped" => received[c] = mem.log /\ mem.conv \in Terminal
  /\ call[c] = "answered" =>
       /\ Begins(received[c] \o reply[c].events, mem.log)
       /\ reply[c].ended => received[c] \o reply[c].events = mem.log /\ mem.conv \in Terminal

Clientele == \A c \in Clients : Holds(c)
----------------------------------------------------------------------------
(* Rows *)

LEMMA LogType ==
  ASSUME NEW d \in Wide
  PROVE  d.log \in Seq(Entries) /\ Len(d.log) \in Nat /\ DOMAIN d.log = 1..Len(d.log)
  BY DEF Wide

(* The next event has the next number. *)
LEMMA NextIs ==
  ASSUME NEW d \in Wide, \A i \in 1..Len(d.log) : d.log[i].seq = i
  PROVE  NextSequence(d) = Len(d.log) + 1
<1>1. Len(d.log) \in Nat /\ DOMAIN d.log = 1..Len(d.log)
  BY LogType
<1>2. Sequences(d) = 1..Len(d.log)
  BY <1>1 DEF Sequences
<1>3. /\ Highest(1..Len(d.log)) \in (1..Len(d.log)) \cup {0}
      /\ \A m \in (1..Len(d.log)) \cup {0} : m <= Highest(1..Len(d.log))
  <2>1. 1..Len(d.log) \subseteq Nat /\ \A m \in 1..Len(d.log) : m <= Len(d.log)
    BY <1>1
  <2>2. QED BY <1>1, <2>1, HighestIs
<1>4. Highest(1..Len(d.log)) = Len(d.log)
  <2> DEFINE h == Highest(1..Len(d.log))
  <2>1. h \in (1..Len(d.log)) \cup {0} /\ \A m \in (1..Len(d.log)) \cup {0} : m <= h
    BY <1>3
  <2> HIDE DEF h
  <2>2. h = Len(d.log)
    BY <1>1, <2>1
  <2>3. QED BY <2>2 DEF h
<1>5. QED BY <1>2, <1>4 DEF NextSequence

(* The first turn that was not used yet has the next position. *)
LEMMA PositionIs ==
  ASSUME NEW d, Numbered(d), NEW t \in Turns, Absent(d, t),
         \A u \in 1..(t - 1) : ~Absent(d, u)
  PROVE  NextPosition(d) = t
<1>1. t \in Nat /\ t >= 1 /\ t - 1 \in Nat /\ Turns = 1..MaxTurns /\ MaxTurns \in Nat
  BY TimelineAssumption DEF Turns
<1>2. \A u \in Turns : d.turn[u].position = IF u < t THEN u ELSE 0
  <2>1. SUFFICES ASSUME NEW u \in Turns
                 PROVE  d.turn[u].position = IF u < t THEN u ELSE 0
    OBVIOUS
  <2>2. CASE u < t
    BY <1>1, <2>2 DEF Numbered
  <2>3. CASE ~(u < t)
    <3>1. Absent(d, u)
      BY <1>1, <2>3 DEF Numbered
    <3>2. QED BY <2>3, <3>1 DEF Numbered
  <2>4. QED BY <2>2, <2>3
<1>3. Positions(d) \subseteq 0..(t - 1) /\ (t = 1 \/ t - 1 \in Positions(d))
  <2>1. Positions(d) \subseteq 0..(t - 1)
    BY <1>1, <1>2 DEF Positions
  <2>2. t # 1 => t - 1 \in Turns /\ d.turn[t - 1].position = t - 1
    BY <1>1, <1>2
  <2>3. QED BY <2>1, <2>2 DEF Positions
<1>4. /\ Highest(Positions(d)) \in Positions(d) \cup {0}
      /\ \A m \in Positions(d) \cup {0} : m <= Highest(Positions(d))
  <2>1. Positions(d) \subseteq Nat /\ \A m \in Positions(d) : m <= t - 1
    BY <1>1, <1>3
  <2>2. QED BY <1>1, <2>1, HighestIs
<1>5. Highest(Positions(d)) = t - 1
  <2> DEFINE h == Highest(Positions(d))
  <2>1. h \in 0..(t - 1) /\ t - 1 <= h
    BY <1>1, <1>3, <1>4
  <2> HIDE DEF h
  <2>2. h = t - 1
    BY <1>1, <2>1
  <2>3. QED BY <2>2 DEF h
<1>6. QED BY <1>1, <1>5 DEF NextPosition

(* Tables that fit have rows SQLite can hold. *)
LEMMA FitsTables ==
  ASSUME NEW d, Numbered(d), Fits(d)
  PROVE  d \in Tables
<1>1. d \in Wide /\ d.log \in Seq(Entries) /\ DOMAIN d.log = 1..Len(d.log) /\ Len(d.log) \in Nat
  BY LogType DEF Numbered
<1>2. MaxSequence \in Nat
  BY TimelineAssumption
<1>3. d.log \in Seq(Events)
  <2>1. ASSUME NEW i \in 1..Len(d.log)
        PROVE  d.log[i] \in Events
    <3>1. d.log[i] \in Entries /\ d.log[i].seq = i /\ d.log[i].seq \in Sequences(d)
      BY <1>1 DEF Numbered, Sequences
    <3>2. d.log[i].seq \in 1..MaxSequence
      BY <1>1, <1>2, <3>1 DEF Fits
    <3>3. QED BY <3>1, <3>2 DEF Entries, Events
  <2>2. QED BY <1>1, <2>1
<1>4. d.turn \in [Turns -> TurnRows]
  <2>1. ASSUME NEW t \in Turns
        PROVE  d.turn[t] \in TurnRows
    <3>1. /\ d.turn[t] \in [state : {"absent"} \cup Unfinished \cup Outcomes, position : Numbers]
          /\ d.turn[t].position \in Positions(d)
      BY <1>1 DEF Wide, Positions
    <3>2. d.turn[t].position \in 0..MaxSequence
      BY <1>2, <3>1 DEF Fits, Numbers
    <3>3. QED BY <3>1, <3>2 DEF TurnRows
  <2>2. QED BY <1>1, <2>1 DEF Wide
<1>5. QED BY <1>1, <1>3, <1>4 DEF Wide, Tables

(* e is d with one more event. *)
Adds(d, e, kind, about) ==
  /\ d \in Wide /\ e \in Wide
  /\ Len(e.log) = Len(d.log) + 1
  /\ \A i \in 1..Len(d.log) : e.log[i] = d.log[i]
  /\ e.log[Len(d.log) + 1] = Event(Len(d.log) + 1, kind, about)

(* A longer log begins with the shorter one. *)
Grows(d, e) == Len(d.log) < Len(e.log) /\ \A i \in 1..Len(d.log) : e.log[i] = d.log[i]

LEMMA AddsGrows ==
  ASSUME NEW d, NEW e, NEW kind, NEW about, Adds(d, e, kind, about)
  PROVE  Grows(d, e)
BY LogType DEF Adds, Grows

LEMMA AppendedIs ==
  ASSUME NEW d \in Wide, NEW base \in Wide, base.log = d.log,
         \A i \in 1..Len(base.log) : base.log[i].seq = i,
         NEW kind, NEW about, <<kind, about>> \in Payloads
  PROVE  /\ Adds(base, Appended(d, kind, about), kind, about)
         /\ Appended(d, kind, about).conv = d.conv
         /\ Appended(d, kind, about).turn = d.turn
         /\ Appended(d, kind, about).observed = d.observed
<1> DEFINE e == Appended(d, kind, about)
<1> DEFINE event == Event(Len(d.log) + 1, kind, about)
<1>1. d.log \in Seq(Entries) /\ Len(d.log) \in Nat
  BY LogType
<1>2. NextSequence(d) = Len(d.log) + 1
  BY NextIs
<1>3. event \in Entries
  BY <1>1 DEF Event, Entries, Numbers
<1>4. e = [d EXCEPT !.log = Append(d.log, event)]
  BY <1>2 DEF Appended
<1> HIDE DEF e, event
<1>5. /\ Append(d.log, event) \in Seq(Entries) /\ Len(Append(d.log, event)) = Len(d.log) + 1
      /\ \A i \in 1..Len(d.log) : Append(d.log, event)[i] = d.log[i]
      /\ Append(d.log, event)[Len(d.log) + 1] = event
  BY <1>1, <1>3
<1>6. e \in Wide /\ e.log = Append(d.log, event)
      /\ e.conv = d.conv /\ e.turn = d.turn /\ e.observed = d.observed
  BY <1>4, <1>5 DEF Wide
<1>7. Adds(base, e, kind, about)
  <2>1. event = Event(Len(base.log) + 1, kind, about)
    BY DEF event
  <2>2. Len(e.log) = Len(base.log) + 1
    BY <1>5, <1>6
  <2>3. \A i \in 1..Len(base.log) : e.log[i] = base.log[i]
    BY <1>5, <1>6
  <2>4. e.log[Len(base.log) + 1] = Event(Len(base.log) + 1, kind, about)
    BY <1>5, <1>6, <2>1
  <2>5. QED BY <1>6, <2>2, <2>3, <2>4 DEF Adds
<1>8. QED BY <1>6, <1>7 DEF e
----------------------------------------------------------------------------
(* One more event *)

StateKinds == TurnEvents \ {"TurnAcknowledged"}

LEMMA EventOfState ==
  ASSUME NEW state \in Unfinished \cup Outcomes
  PROVE  EventOf(state) = StateEvents[state] /\ StateEvents[state] \in StateKinds
BY DEF Unfinished, Outcomes, EventOf, StateEvents, StateKinds, TurnEvents

(* The events about a turn, when one is added. *)
LEMMA AboutAfter ==
  ASSUME NEW d, NEW e, NEW kind, NEW about, Adds(d, e, kind, about), NEW t \in Turns
  PROVE  /\ About(t, d) \subseteq 1..Len(d.log)
         /\ kind \in StateKinds /\ about = t => About(t, e) = About(t, d) \cup {Len(d.log) + 1}
         /\ ~(kind \in StateKinds /\ about = t) => About(t, e) = About(t, d)
         /\ \A i \in 1..Len(d.log) : Kind(e, i) = Kind(d, i)
         /\ Kind(e, Len(d.log) + 1) = kind
<1> DEFINE n == Len(d.log)
<1>1. /\ n \in Nat /\ DOMAIN d.log = 1..n /\ DOMAIN e.log = 1..(n + 1)
      /\ \A i \in 1..n : e.log[i] = d.log[i]
      /\ e.log[n + 1].payload[1] = kind /\ e.log[n + 1].payload[2] = about
      /\ \A i \in 1..(n + 1) : i \in 1..n \/ i = n + 1
      /\ \A i \in 1..n : i \in 1..(n + 1)
      /\ n + 1 \in 1..(n + 1)
  <2>1. n \in Nat /\ DOMAIN d.log = 1..n /\ DOMAIN e.log = 1..(n + 1)
    BY LogType DEF Adds
  <2>2. e.log[n + 1].payload = <<kind, about>>
    BY DEF Adds, Event
  <2>3. QED BY <2>1, <2>2 DEF Adds
<1> HIDE DEF n
<1>2. /\ About(t, d) = {i \in 1..n : d.log[i].payload[1] \in StateKinds /\ d.log[i].payload[2] = t}
      /\ About(t, e) = {i \in 1..(n + 1) : /\ e.log[i].payload[1] \in StateKinds
                                           /\ e.log[i].payload[2] = t}
  BY <1>1 DEF About, StateKinds
<1>3. kind \in StateKinds /\ about = t => About(t, e) = About(t, d) \cup {n + 1}
  BY <1>1, <1>2
<1>4. ~(kind \in StateKinds /\ about = t) => About(t, e) = About(t, d)
  BY <1>1, <1>2
<1>5. QED BY <1>1, <1>2, <1>3, <1>4 DEF Kind, n

(* An event that names the new state of its turn explains it. *)
LEMMA AddsExplained ==
  ASSUME NEW d, NEW e, NEW kind, NEW about, Adds(d, e, kind, about), Explained(d),
         \A t \in Turns : \/ e.turn[t] = d.turn[t] /\ ~(kind \in StateKinds /\ about = t)
                          \/ /\ kind \in StateKinds /\ about = t /\ ~Absent(e, t)
                             /\ kind = StateEvents[e.turn[t].state]
  PROVE  Explained(e)
<1>1. SUFFICES ASSUME NEW t \in Turns
               PROVE  ToldState(e, t)
  BY DEF Explained
<1>2. Len(d.log) \in Nat
  BY LogType DEF Adds
<1>3. CASE e.turn[t] = d.turn[t] /\ ~(kind \in StateKinds /\ about = t)
  <2>1. About(t, e) = About(t, d) /\ \A i \in About(t, d) : Kind(e, i) = Kind(d, i)
    BY <1>3, AboutAfter
  <2>2. ToldState(d, t)
    BY DEF Explained
  <2>3. QED BY <1>3, <2>1, <2>2 DEF ToldState, Absent
<1>4. CASE /\ kind \in StateKinds /\ about = t /\ ~Absent(e, t)
           /\ kind = StateEvents[e.turn[t].state]
  <2> DEFINE n == Len(d.log) + 1
  <2>1. /\ About(t, e) = About(t, d) \cup {n} /\ Kind(e, n) = kind
        /\ About(t, d) \subseteq 1..Len(d.log)
    BY <1>4, AboutAfter
  <2>2. \A j \in About(t, e) : j <= n
    BY <1>2, <2>1
  <2> HIDE DEF n
  <2>3. QED BY <1>4, <2>1, <2>2 DEF ToldState
<1>5. QED BY <1>3, <1>4

(* The order in which turns were queued, when no turn is.                  *)
LEMMA AddsInOrder ==
  ASSUME NEW d, NEW e, NEW kind, NEW about, Adds(d, e, kind, about), InOrder(d),
         kind # "TurnQueued", \A t \in Turns : Absent(e, t) <=> Absent(d, t)
  PROVE  InOrder(e)
<1>1. Len(d.log) \in Nat /\ Len(e.log) = Len(d.log) + 1
  BY LogType DEF Adds
<1>2. e.log[Len(d.log) + 1].payload[1] # "TurnQueued"
  BY DEF Adds, Event
<1>3. \A t, i : QueuedAt(e, t, i) <=> QueuedAt(d, t, i)
  <2>1. ASSUME NEW t, NEW i, i \in 1..Len(e.log)
        PROVE  QueuedAt(e, t, i) <=> QueuedAt(d, t, i)
    <3>1. CASE i \in 1..Len(d.log)
      BY <1>1, <3>1 DEF QueuedAt, Adds
    <3>2. CASE i = Len(d.log) + 1
      BY <1>1, <1>2, <3>2 DEF QueuedAt
    <3>3. QED BY <1>1, <2>1, <3>1, <3>2
  <2>2. \A t, i : i \notin 1..Len(e.log) => ~QueuedAt(e, t, i) /\ ~QueuedAt(d, t, i)
    BY <1>1 DEF QueuedAt
  <2>3. QED BY <2>1, <2>2
<1>4. \A d_1, t, i : QueuedAt(d_1, t, i) => i \in 1..Len(d_1.log)
  BY DEF QueuedAt
<1>5. \A i \in 1..Len(d.log) : i \in 1..Len(e.log)
  BY <1>1
<1>6. QED BY <1>3, <1>4, <1>5 DEF InOrder

(* An observation, while the conversation goes on. *)
LEMMA AddsCloses ==
  ASSUME NEW d, NEW e, NEW kind, NEW about, Adds(d, e, kind, about), Closes(d), Identified(d),
         d.conv \notin Terminal, e.conv \in Admitting, kind # "ConversationTerminal",
         IF kind = "Initialized"
           THEN about = e.observed /\ \A i \in 1..Len(d.log) : Kind(d, i) = "Initialized" =>
                                                               d.log[i].payload[2] = e.observed
           ELSE e.observed = d.observed
  PROVE  Closes(e) /\ Identified(e)
<1>1. /\ Len(d.log) \in Nat /\ Len(e.log) = Len(d.log) + 1
      /\ \A i \in 1..Len(e.log) : i \in 1..Len(d.log) \/ i = Len(d.log) + 1
      /\ \A i \in 1..Len(d.log) : e.log[i] = d.log[i]
      /\ e.log[Len(d.log) + 1].payload = <<kind, about>>
  <2>1. Len(d.log) \in Nat
    BY LogType DEF Adds
  <2>2. QED BY <2>1 DEF Adds, Event
<1>2. e.conv \notin Terminal /\ e.conv # "absent"
  BY DEF Admitting, Terminal
<1>3. \A i \in 1..Len(e.log) : Kind(e, i) # "ConversationTerminal"
  <2>1. ASSUME NEW i \in 1..Len(e.log)
        PROVE  Kind(e, i) # "ConversationTerminal"
    <3>1. CASE i \in 1..Len(d.log)
      BY <1>1, <3>1 DEF Kind, Closes
    <3>2. CASE i = Len(d.log) + 1
      BY <1>1, <3>2 DEF Kind
    <3>3. QED BY <1>1, <3>1, <3>2
  <2>2. QED BY <2>1
<1>4. Identified(e)
  <2>1. SUFFICES ASSUME NEW i \in 1..Len(e.log), Kind(e, i) = "Initialized"
                 PROVE  e.log[i].payload[2] = e.observed
    BY DEF Identified
  <2>2. CASE i \in 1..Len(d.log)
    BY <1>1, <2>1, <2>2 DEF Kind, Identified
  <2>3. CASE i = Len(d.log) + 1
    BY <1>1, <2>1, <2>3 DEF Kind
  <2>4. QED BY <1>1, <2>2, <2>3
<1>5. QED BY <1>2, <1>3, <1>4 DEF Closes
----------------------------------------------------------------------------
(* What the transactions leave behind *)

LEMMA AddsNumbered ==
  ASSUME NEW d, NEW e, NEW kind, NEW about, Adds(d, e, kind, about), Numbered(d),
         \A t \in Turns : /\ e.turn[t].position = d.turn[t].position
                          /\ Absent(e, t) <=> Absent(d, t)
  PROVE  Numbered(e)
<1>1. Len(d.log) \in Nat /\ Len(e.log) = Len(d.log) + 1 /\ e \in Wide
  BY LogType DEF Adds
<1>2. ASSUME NEW i \in 1..Len(e.log)
      PROVE  e.log[i].seq = i
  <2>1. CASE i \in 1..Len(d.log)
    BY <2>1 DEF Adds, Numbered
  <2>2. CASE i = Len(d.log) + 1
    BY <2>2 DEF Adds, Event
  <2>3. QED BY <1>1, <2>1, <2>2
<1>3. ASSUME NEW t \in Turns
      PROVE  /\ e.turn[t].position = IF Absent(e, t) THEN 0 ELSE t
             /\ ~Absent(e, t) => \A u \in 1..(t - 1) : ~Absent(e, u)
  <2>1. \A u \in 1..(t - 1) : u \in Turns
    BY TimelineAssumption DEF Turns
  <2>2. QED BY <2>1 DEF Numbered
<1>4. QED BY <1>1, <1>2, <1>3 DEF Numbered

(* An observation of a conversation that goes on. *)
LEMMA ObservationAgrees ==
  ASSUME NEW d, Agreed(d), d.conv \in Admitting,
         NEW b \in Wide, b.log = d.log, b.conv = d.conv,
         NEW kind, NEW about, <<kind, about>> \in Payloads,
         kind \notin {"TurnQueued", "ConversationTerminal"},
         \A t \in Turns : /\ b.turn[t].position = d.turn[t].position
                          /\ Absent(b, t) <=> Absent(d, t),
         \A t \in Turns : \/ b.turn[t] = d.turn[t] /\ ~(kind \in StateKinds /\ about = t)
                          \/ /\ kind \in StateKinds /\ about = t /\ ~Absent(b, t)
                             /\ kind = StateEvents[b.turn[t].state],
         IF kind = "Initialized"
           THEN about = b.observed /\ \A i \in 1..Len(d.log) : Kind(d, i) = "Initialized" =>
                                                               d.log[i].payload[2] = b.observed
           ELSE b.observed = d.observed
  PROVE  Agreed(Appended(b, kind, about)) /\ Grows(d, Appended(b, kind, about))
<1> DEFINE e == Appended(b, kind, about)
<1>1. d \in Wide /\ \A i \in 1..Len(d.log) : d.log[i].seq = i
  BY DEF Agreed, Numbered
<1>2. Adds(d, e, kind, about) /\ e.conv = b.conv /\ e.turn = b.turn /\ e.observed = b.observed
  BY <1>1, AppendedIs
<1> HIDE DEF e
<1>3. \A t \in Turns : Absent(e, t) <=> Absent(b, t)
  BY <1>2 DEF Absent
<1>4. Numbered(e)
  BY <1>2, <1>3, AddsNumbered DEF Agreed
<1>5. Explained(e)
  BY <1>2, <1>3, AddsExplained DEF Agreed
<1>6. InOrder(e)
  BY <1>2, <1>3, AddsInOrder DEF Agreed
<1>7. Closes(e) /\ Identified(e)
  <2>1. d.conv \notin Terminal /\ e.conv \in Admitting
    BY <1>2 DEF Admitting, Terminal
  <2>2. QED BY <1>2, <2>1, AddsCloses DEF Agreed
<1>8. Agreed(e)
  BY <1>4, <1>5, <1>6, <1>7 DEF Agreed
<1>9. QED BY <1>2, <1>8, AddsGrows DEF e

(* The observations of the child: a turn that moves on, ... *)
LEMMA RecordTurnAgrees ==
  ASSUME NEW d, Agreed(d), d.conv \in Admitting, NEW t \in Turns,
         NEW state \in {"Started", "Completed", "Failed"}, TurnAllowed(d.turn[t].state, state)
  PROVE  LET e == Appended([d EXCEPT !.turn[t].state = state], EventOf(state), t)
         IN  Agreed(e) /\ Grows(d, e)
<1> DEFINE b == [d EXCEPT !.turn[t].state = state]
<1> DEFINE kind == EventOf(state)
<1>1. d \in Wide /\ d.turn[t].state \in Unfinished
  BY DEF Agreed, Numbered, TurnAllowed, Unfinished
<1>2. state \in Unfinished \cup Outcomes /\ state # "absent" /\ state # "Queued"
  BY DEF Unfinished, Outcomes
<1>3. /\ kind = StateEvents[state] /\ kind \in StateKinds
      /\ kind \notin {"TurnQueued", "ConversationTerminal", "Initialized"}
      /\ <<kind, t>> \in Payloads
  <2>1. kind = StateEvents[state] /\ kind \in StateKinds
    BY <1>2, EventOfState
  <2>2. kind # "TurnQueued"
    BY DEF EventOf, StateEvents
  <2>3. QED BY <2>1, <2>2 DEF StateKinds, TurnEvents, Payloads
<1>4. /\ b \in Wide /\ b.log = d.log /\ b.conv = d.conv /\ b.observed = d.observed
      /\ b.turn[t].state = state /\ b.turn[t].position = d.turn[t].position
      /\ \A u \in Turns \ {t} : b.turn[u] = d.turn[u]
  BY <1>1, <1>2 DEF Wide
<1> HIDE DEF b, kind
<1>5. \A u \in Turns : /\ b.turn[u].position = d.turn[u].position
                       /\ Absent(b, u) <=> Absent(d, u)
  BY <1>1, <1>2, <1>4 DEF Absent, Unfinished
<1>6. \A u \in Turns : \/ b.turn[u] = d.turn[u] /\ ~(kind \in StateKinds /\ t = u)
                       \/ /\ kind \in StateKinds /\ t = u /\ ~Absent(b, u)
                          /\ kind = StateEvents[b.turn[u].state]
  BY <1>2, <1>3, <1>4 DEF Absent
<1>7. Agreed(Appended(b, kind, t)) /\ Grows(d, Appended(b, kind, t))
  BY <1>3, <1>4, <1>5, <1>6, ObservationAgrees
<1>8. QED BY <1>7 DEF b, kind

(* ... is acknowledged, ... *)
LEMMA AcknowledgedAgrees ==
  ASSUME NEW d, Agreed(d), d.conv \in Admitting, NEW t \in Turns
  PROVE  LET e == Appended(d, "TurnAcknowledged", t)
         IN  Agreed(e) /\ Grows(d, e)
<1>1. /\ d \in Wide /\ <<"TurnAcknowledged", t>> \in Payloads
      /\ "TurnAcknowledged" \notin StateKinds
  BY DEF Agreed, Numbered, Payloads, StateKinds, TurnEvents
<1>2. QED BY <1>1, ObservationAgrees

(* ... and an init line that does not contradict. *)
LEMMA InitializationAgrees ==
  ASSUME NEW d, Agreed(d), d.conv \in Admitting, NEW id \in Identities, Consistent(d, id)
  PROVE  LET e == Appended([d EXCEPT !.observed = id], "Initialized", id)
         IN  Agreed(e) /\ Grows(d, e)
<1> DEFINE b == [d EXCEPT !.observed = id]
<1>1. d \in Wide /\ DOMAIN d.log = 1..Len(d.log)
  BY LogType DEF Agreed, Numbered
<1>2. /\ b \in Wide /\ b.log = d.log /\ b.conv = d.conv /\ b.turn = d.turn /\ b.observed = id
  BY <1>1 DEF Wide
<1>3. /\ <<"Initialized", id>> \in Payloads /\ "Initialized" \notin StateKinds
  BY DEF Payloads, StateKinds, TurnEvents
<1>4. \A i \in 1..Len(d.log) : Kind(d, i) = "Initialized" => d.log[i].payload[2] = id
  BY <1>1 DEF Consistent, Initializations, Kind
<1> HIDE DEF b
<1>5. \A t \in Turns : Absent(b, t) <=> Absent(d, t)
  BY <1>2 DEF Absent
<1>6. Agreed(Appended(b, "Initialized", id)) /\ Grows(d, Appended(b, "Initialized", id))
  BY <1>1, <1>2, <1>3, <1>4, <1>5, ObservationAgrees
<1>7. QED BY <1>6 DEF b

(* A close has no event. *)
LEMMA CloseAgrees ==
  ASSUME NEW d, Agreed(d), d.conv \in Admitting
  PROVE  Agreed([d EXCEPT !.conv = "Closing"])
<1> DEFINE b == [d EXCEPT !.conv = "Closing"]
<1>1. /\ b \in Wide /\ b.log = d.log /\ b.turn = d.turn /\ b.observed = d.observed
      /\ b.conv = "Closing" /\ d \in Wide
  BY DEF Agreed, Numbered, Wide, Admitting
<1> HIDE DEF b
<1>2. Numbered(b) /\ Explained(b)
  BY <1>1 DEF Agreed, Numbered, Explained, ToldState, Absent, About, Kind
<1>3. InOrder(b) /\ Identified(b)
  BY <1>1 DEF Agreed, InOrder, QueuedAt, Identified, Absent, Kind
<1>4. Closes(b)
  BY <1>1 DEF Agreed, Closes, Admitting, Terminal, Kind
<1>5. QED BY <1>2, <1>3, <1>4 DEF Agreed, b

(* A turn that is queued takes the next position. *)
LEMMA QueueAgrees ==
  ASSUME NEW d, Agreed(d), d.conv \notin Terminal,
         NEW b \in Wide, b.log = d.log, b.turn = d.turn, b.observed = d.observed,
         b.conv = "Open", NEW t \in Turns, Absent(d, t), \A u \in 1..(t - 1) : ~Absent(d, u)
  PROVE  Agreed(Queue(b, t)) /\ Grows(d, Queue(b, t))
<1> DEFINE w == [b EXCEPT !.turn[t] = [state |-> "Queued", position |-> t]]
<1> DEFINE e == Appended(w, "TurnQueued", t)
<1> DEFINE n == Len(d.log)
<1>1. d \in Wide /\ \A i \in 1..n : d.log[i].seq = i
  BY DEF Agreed, Numbered
<1>2. Queue(b, t) = e
  <2>1. NextPosition(d) = t
    BY PositionIs DEF Agreed
  <2>2. NextPosition(b) = NextPosition(d)
    BY DEF NextPosition, Positions
  <2>3. QED BY <2>1, <2>2 DEF Queue
<1>3. t \in Nat /\ Turns = 1..MaxTurns /\ MaxTurns \in Nat /\ n \in Nat
  BY <1>1, LogType, TimelineAssumption DEF Turns
<1>4. /\ w \in Wide /\ w.log = d.log /\ w.conv = "Open" /\ w.observed = d.observed
      /\ w.turn[t] = [state |-> "Queued", position |-> t]
      /\ \A u \in Turns \ {t} : w.turn[u] = d.turn[u]
  <2>1. [state |-> "Queued", position |-> t] \in
           [state : {"absent"} \cup Unfinished \cup Outcomes, position : Numbers]
    BY <1>3 DEF Unfinished, Numbers
  <2>2. QED BY <2>1 DEF Wide
<1>5. Adds(d, e, "TurnQueued", t) /\ e.conv = "Open" /\ e.turn = w.turn
      /\ e.observed = d.observed
  <2>1. <<"TurnQueued", t>> \in Payloads
    BY DEF Payloads, TurnEvents
  <2> HIDE DEF w
  <2>2. d.log = w.log /\ \A i \in 1..Len(d.log) : d.log[i].seq = i
    BY <1>1, <1>4
  <2>3. /\ Adds(d, e, "TurnQueued", t) /\ e.conv = w.conv
        /\ e.turn = w.turn /\ e.observed = w.observed
    BY <1>1, <1>4, <2>1, <2>2, AppendedIs
  <2>4. QED BY <1>4, <2>3
<1> HIDE DEF w, e
<1>6. /\ e \in Wide /\ Len(e.log) = n + 1 /\ \A i \in 1..n : e.log[i] = d.log[i]
      /\ e.log[n + 1] = Event(n + 1, "TurnQueued", t)
  BY <1>5 DEF Adds
<1> HIDE DEF n
<1>7. ~Absent(e, t) /\ \A u \in Turns \ {t} : Absent(e, u) <=> Absent(d, u)
  BY <1>4, <1>5 DEF Absent
<1>8. \A u \in Turns : ~Absent(d, u) <=> u < t
  <2>1. SUFFICES ASSUME NEW u \in Turns
                 PROVE  ~Absent(d, u) <=> u < t
    OBVIOUS
  <2>2. CASE u < t
    BY <1>3, <2>2
  <2>3. CASE u = t
    BY <1>3, <2>3
  <2>4. CASE t < u
    <3>1. t \in 1..(u - 1)
      BY <1>3, <2>4
    <3>2. Absent(d, u)
      BY <3>1 DEF Agreed, Numbered
    <3>3. QED BY <1>3, <2>4, <3>2
  <2>5. QED BY <1>3, <2>2, <2>3, <2>4
<1>9. Numbered(e)
  <2>1. \A i \in 1..Len(e.log) : e.log[i].seq = i
    BY <1>1, <1>3, <1>6 DEF Event
  <2>2. ASSUME NEW u \in Turns
        PROVE  /\ e.turn[u].position = IF Absent(e, u) THEN 0 ELSE u
               /\ ~Absent(e, u) => \A v \in 1..(u - 1) : ~Absent(e, v)
    <3>1. \A v \in 1..(u - 1) : v \in Turns /\ v < u
      BY <1>3
    <3>2. CASE u = t
      BY <1>3, <1>4, <1>5, <1>7, <1>8, <3>1, <3>2
    <3>3. CASE u # t
      <4>1. e.turn[u].position = IF Absent(e, u) THEN 0 ELSE u
        BY <1>4, <1>5, <1>7, <3>3 DEF Agreed, Numbered
      <4>2. ASSUME ~Absent(e, u), NEW v \in 1..(u - 1)
            PROVE  ~Absent(e, v)
        <5>1. v \in Turns /\ v < u /\ u < t
          BY <1>7, <1>8, <3>1, <3>3, <4>2
        <5>2. v < t /\ v # t
          BY <1>3, <5>1
        <5>3. QED BY <1>7, <1>8, <5>1, <5>2
      <4>3. QED BY <4>1, <4>2
    <3>4. QED BY <3>2, <3>3
  <2>3. QED BY <1>6, <2>1, <2>2 DEF Numbered
<1>10. Explained(e)
  <2>1. "TurnQueued" \in StateKinds /\ StateEvents["Queued"] = "TurnQueued"
    BY DEF StateKinds, TurnEvents, StateEvents
  <2>2. \A u \in Turns : \/ e.turn[u] = d.turn[u] /\ ~("TurnQueued" \in StateKinds /\ t = u)
                         \/ /\ "TurnQueued" \in StateKinds /\ t = u /\ ~Absent(e, u)
                            /\ "TurnQueued" = StateEvents[e.turn[u].state]
    BY <1>4, <1>5, <1>7, <2>1
  <2>3. QED BY <1>5, <2>2, AddsExplained DEF Agreed
<1>11. InOrder(e)
  <2>1. QueuedAt(e, t, n + 1) /\ \A s : QueuedAt(e, s, n + 1) => s = t
    BY <1>3, <1>6 DEF QueuedAt, Event
  <2>2. \A s : \A i \in 1..n : QueuedAt(e, s, i) <=> QueuedAt(d, s, i)
    BY <1>3, <1>6 DEF QueuedAt, n
  <2>3. \A s \in Turns : \A i \in 1..n : QueuedAt(d, s, i) => s < t
    <3>1. ASSUME NEW s \in Turns, NEW i \in 1..n, QueuedAt(d, s, i)
          PROVE  i \in About(s, d)
      <4>1. DOMAIN d.log = 1..n
        BY <1>1, LogType DEF n
      <4>2. QED BY <3>1, <4>1 DEF QueuedAt, About, TurnEvents
    <3>2. QED BY <1>8, <3>1 DEF Agreed, Explained, ToldState
  <2>4. ASSUME NEW s \in Turns, ~Absent(e, s)
        PROVE  \E i \in 1..Len(e.log) : QueuedAt(e, s, i)
    <3>1. CASE s = t
      BY <1>3, <1>6, <2>1, <3>1
    <3>2. CASE s # t
      <4>1. PICK i \in 1..n : QueuedAt(d, s, i)
        BY <1>7, <2>4, <3>2 DEF Agreed, InOrder, n
      <4>2. i \in 1..Len(e.log) /\ QueuedAt(e, s, i)
        BY <1>3, <1>6, <2>2, <4>1
      <4>3. QED BY <4>2
    <3>3. QED BY <3>1, <3>2
  <2>5. ASSUME NEW s \in Turns, NEW u \in Turns, NEW i \in 1..Len(e.log),
               NEW j \in 1..Len(e.log), QueuedAt(e, s, i), QueuedAt(e, u, j), i < j
        PROVE  s < u
    <3>1. i \in 1..n
      BY <1>3, <1>6, <2>5
    <3>2. CASE j \in 1..n
      BY <2>2, <2>5, <3>1, <3>2 DEF Agreed, InOrder, n
    <3>3. CASE j = n + 1
      BY <2>1, <2>2, <2>3, <2>5, <3>1, <3>3
    <3>4. QED BY <1>3, <1>6, <3>2, <3>3
  <2>6. QED BY <2>4, <2>5 DEF InOrder
<1>12. Closes(e) /\ Identified(e)
  <2>1. e.conv \in Admitting
    BY <1>5 DEF Admitting
  <2>2. QED BY <1>5, <2>1, AddsCloses DEF Agreed
<1>13. QED BY <1>2, <1>5, <1>9, <1>10, <1>11, <1>12, AddsGrows DEF Agreed
----------------------------------------------------------------------------
(* The turns a conversation leaves behind *)

(* The turns up to one of them are counted by their positions, which are   *)
(* distinct: the ranks are 1, 2, ..., each of one turn.                    *)
LEMMA RankIs ==
  ASSUME NEW d, Numbered(d)
  PROVE  LET late == InState(d, Unfinished)
         IN  /\ IsFiniteSet(late) /\ Cardinality(late) \in Nat
             /\ \A t \in late : Rank(d, t) \in 1..Cardinality(late)
             /\ \A s, t \in late : Rank(d, s) = Rank(d, t) => s = t
             /\ \A i \in 1..Cardinality(late) : \E t \in late : Rank(d, t) = i
<1> DEFINE late == InState(d, Unfinished)
<1> DEFINE Upward(t) == {s \in late : s <= t}
<1> DEFINE N == Cardinality(late)
<1>1. late \subseteq Turns /\ Turns = 1..MaxTurns /\ MaxTurns \in Nat
  BY TimelineAssumption DEF InState, Turns
<1>2. IsFiniteSet(late) /\ N \in Nat
  <2>1. IsFiniteSet(1..MaxTurns)
    BY <1>1, FS_Interval
  <2>2. IsFiniteSet(late)
    BY <1>1, <2>1, FS_Subset
  <2>3. QED BY <2>2, FS_CardinalityType
<1>3. \A t \in late : Rank(d, t) = Cardinality(Upward(t))
  <2>1. \A t \in late : d.turn[t].position = t
    BY DEF InState, Numbered, Absent, Unfinished
  <2>2. ASSUME NEW t \in late
        PROVE  {s \in late : d.turn[s].position <= d.turn[t].position} = Upward(t)
    BY <2>1
  <2> HIDE DEF Upward
  <2>3. QED BY <2>2 DEF Rank
<1>4. \A t \in late : Upward(t) \subseteq late /\ t \in Upward(t)
  BY <1>1
<1>5. \A s, t \in late : s < t => Upward(s) \subseteq Upward(t) /\ t \notin Upward(s)
  BY <1>1
<1> HIDE DEF late, Upward, N
<1>6. \A t \in late : IsFiniteSet(Upward(t)) /\ Cardinality(Upward(t)) \in 1..N
  <2>1. SUFFICES ASSUME NEW t \in late
                 PROVE  IsFiniteSet(Upward(t)) /\ Cardinality(Upward(t)) \in 1..N
    OBVIOUS
  <2>2. IsFiniteSet(Upward(t)) /\ Cardinality(Upward(t)) <= N
    BY <1>2, <1>4, FS_Subset DEF N
  <2>3. Cardinality(Upward(t)) \in Nat /\ Cardinality(Upward(t)) # 0
    BY <1>4, <2>2, FS_CardinalityType, FS_EmptySet
  <2>4. QED BY <1>2, <2>2, <2>3
<1>7. \A s, t \in late : s < t => Cardinality(Upward(s)) # Cardinality(Upward(t))
  <2>1. SUFFICES ASSUME NEW s \in late, NEW t \in late, s < t
                 PROVE  Cardinality(Upward(s)) # Cardinality(Upward(t))
    OBVIOUS
  <2>2. Upward(s) \in SUBSET Upward(t) /\ Upward(s) # Upward(t)
    BY <1>4, <1>5, <2>1
  <2>3. QED BY <1>6, <2>2, FS_Subset
<1>8. \A s, t \in late : Rank(d, s) = Rank(d, t) => s = t
  <2>1. \A s, t \in late : s < t \/ t < s \/ s = t
    BY <1>1
  <2>2. QED BY <1>3, <1>7, <2>1
<1>9. \A i \in 1..N : \E t \in late : Rank(d, t) = i
  <2> DEFINE f == [t \in late |-> Rank(d, t)]
  <2>1. f \in Injection(late, 1..N)
    <3>1. f \in [late -> 1..N] /\ DOMAIN f = late
      BY <1>3, <1>6
    <3>2. \A s, t \in late : f[s] = f[t] => s = t
      BY <1>8
    <3> HIDE DEF f
    <3>3. QED BY <3>1, <3>2 DEF Injection, IsInjective
  <2>2. IsFiniteSet(1..N) /\ Cardinality(1..N) = N
    BY <1>2, FS_Interval
  <2>3. f \in Surjection(late, 1..N)
    <3> HIDE DEF f
    <3>1. QED BY <2>1, <2>2, FS_Injection DEF N
  <2>4. QED BY <2>3 DEF Surjection
<1>10. \A t \in late : Rank(d, t) \in 1..N
  BY <1>3, <1>6
<1>11. QED BY <1>2, <1>8, <1>9, <1>10 DEF late, N

(* The list has each unfinished turn once. *)
LEMMA UnfinishedTurnsAre ==
  ASSUME NEW d, Numbered(d)
  PROVE  /\ DOMAIN UnfinishedTurns(d) = 1..Len(UnfinishedTurns(d))
         /\ Len(UnfinishedTurns(d)) \in Nat
         /\ \A i \in 1..Len(UnfinishedTurns(d)) :
              UnfinishedTurns(d)[i] \in InState(d, Unfinished)
         /\ \A t \in InState(d, Unfinished) :
              \E i \in 1..Len(UnfinishedTurns(d)) : UnfinishedTurns(d)[i] = t
         /\ \A i, j \in 1..Len(UnfinishedTurns(d)) :
              UnfinishedTurns(d)[i] = UnfinishedTurns(d)[j] => i = j
<1> DEFINE late == InState(d, Unfinished)
<1> DEFINE N == Cardinality(late)
<1> DEFINE list == [i \in 1..N |-> CHOOSE t \in late : Rank(d, t) = i]
<1>1. UnfinishedTurns(d) = list
  BY DEF UnfinishedTurns
<1>2. /\ N \in Nat
      /\ \A t \in late : Rank(d, t) \in 1..N
      /\ \A s, t \in late : Rank(d, s) = Rank(d, t) => s = t
      /\ \A i \in 1..N : \E t \in late : Rank(d, t) = i
  BY RankIs
<1> HIDE DEF late, N
<1>3. \A i \in 1..N : list[i] \in late /\ Rank(d, list[i]) = i
  BY <1>2
<1>4. DOMAIN list = 1..N /\ Len(list) = N
  <2>1. DOMAIN list = 1..N
    OBVIOUS
  <2>2. list \in Seq(late)
    BY <1>2, <1>3
  <2> HIDE DEF list
  <2>3. QED BY <1>2, <2>1, <2>2
<1> HIDE DEF list
<1>5. \A t \in late : \E i \in 1..N : list[i] = t
  BY <1>2, <1>3
<1>6. \A i, j \in 1..N : list[i] = list[j] => i = j
  BY <1>3, Zenon
<1>7. /\ DOMAIN list = 1..Len(list) /\ Len(list) \in Nat
      /\ \A i \in 1..Len(list) : list[i] \in late
      /\ \A t \in late : \E i \in 1..Len(list) : list[i] = t
      /\ \A i, j \in 1..Len(list) : list[i] = list[j] => i = j
  BY <1>2, <1>3, <1>4, <1>5, <1>6
<1>8. QED BY <1>1, <1>7 DEF late

(* What two sequences have when they are joined. *)
LEMMA Joined ==
  ASSUME NEW D, NEW p \in Seq(D), NEW q \in Seq(D)
  PROVE  /\ p \o q \in Seq(D) /\ Len(p \o q) = Len(p) + Len(q)
         /\ \A i \in 1..Len(p) : (p \o q)[i] = p[i]
         /\ \A i \in 1..Len(q) : (p \o q)[Len(p) + i] = q[i]
BY ConcatProperties

(* What is written for the turns a conversation leaves behind: one event   *)
(* each, after all others, and it names an outcome.                        *)
LEMMA ResolvedIs ==
  ASSUME NEW d, Numbered(d), NEW state \in Terminal,
         state = "Succeeded" => InState(d, Unfinished) = {}
  PROVE  LET r    == ResolveUnfinished(d, state)
             list == UnfinishedTurns(d)
             n    == Len(d.log)
         IN  /\ r \in Wide /\ r.conv = d.conv /\ r.observed = d.observed
             /\ Len(r.log) = n + Len(list)
             /\ \A i \in 1..n : r.log[i] = d.log[i]
             /\ \A i \in 1..Len(list) :
                  r.log[n + i] = Event(n + i, StateEvents[r.turn[list[i]].state], list[i])
             /\ \A t \in Turns : r.turn[t].position = d.turn[t].position
             /\ \A t \in InState(d, Unfinished) : r.turn[t].state \in Outcomes
             /\ \A t \in Turns \ InState(d, Unfinished) : r.turn[t] = d.turn[t]
<1> DEFINE r == ResolveUnfinished(d, state)
<1> DEFINE list == UnfinishedTurns(d)
<1> DEFINE n == Len(d.log)
<1> DEFINE late == InState(d, Unfinished)
<1> DEFINE turn == [t \in Turns |-> IF d.turn[t].state \in Unfinished
                      THEN [d.turn[t] EXCEPT !.state = Resolved(state, @)] ELSE d.turn[t]]
<1> DEFINE more == [i \in 1..Len(list) |->
                      Event(n + i, EventOf(Resolved(state, d.turn[list[i]].state)), list[i])]
<1>1. /\ d \in Wide /\ d.log \in Seq(Entries) /\ n \in Nat
      /\ \A i \in 1..n : d.log[i].seq = i /\ NextSequence(d) = n + 1
  <2>1. d \in Wide /\ \A i \in 1..n : d.log[i].seq = i
    BY DEF Numbered
  <2>2. QED BY <2>1, LogType, NextIs
<1>2. /\ Len(list) \in Nat
      /\ \A i \in 1..Len(list) : list[i] \in late
  BY UnfinishedTurnsAre
<1>3. \A t \in Turns : t \in late <=> d.turn[t].state \in Unfinished
  BY DEF InState
<1>4. late \subseteq Turns
  BY DEF InState
<1>5. NextSequence(d) = n + 1
  <2>1. d \in Wide /\ \A i \in 1..n : d.log[i].seq = i
    BY DEF Numbered
  <2>2. QED BY <2>1, NextIs
<1>6. r = [d EXCEPT !.turn = turn, !.log = d.log \o more]
  <2>1. \A i \in 1..Len(list) : NextSequence(d) + i - 1 = n + i
    BY <1>1, <1>5
  <2>2. [i \in 1..Len(list) |->
           Event(NextSequence(d) + i - 1,
                 EventOf(Resolved(state, d.turn[list[i]].state)), list[i])] = more
    BY <2>1
  <2> HIDE DEF more, turn
  <2>3. QED BY <2>2 DEF ResolveUnfinished, turn
<1> HIDE DEF r, list, n, late
<1>7. \A t \in late : Resolved(state, d.turn[t].state) \in Outcomes
  <2>1. ASSUME NEW t \in late
        PROVE  Resolved(state, d.turn[t].state) \in Outcomes
    <3>1. state \in {"Failed", "Cancelled", "Indeterminate"}
      BY <2>1 DEF Terminal, late
    <3>2. d.turn[t].state \in {"Queued", "Started"}
      BY <1>3, <1>4, <2>1 DEF Unfinished
    <3>3. CASE state # "Cancelled"
      BY <3>1, <3>3 DEF Resolved, Outcomes
    <3>4. CASE state = "Cancelled" /\ d.turn[t].state = "Queued"
      BY <3>4 DEF Resolved, Outcomes
    <3>5. CASE state = "Cancelled" /\ d.turn[t].state # "Queued"
      BY <3>5 DEF Resolved, Outcomes
    <3>6. QED BY <3>3, <3>4, <3>5
  <2>2. QED BY <2>1
<1>8. /\ turn \in [Turns -> [state : {"absent"} \cup Unfinished \cup Outcomes,
                             position : Numbers]]
      /\ \A t \in Turns : turn[t].position = d.turn[t].position
      /\ \A t \in late : turn[t].state = Resolved(state, d.turn[t].state)
      /\ \A t \in Turns \ late : turn[t] = d.turn[t]
  <2>1. d.turn \in [Turns -> [state : {"absent"} \cup Unfinished \cup Outcomes,
                              position : Numbers]]
    BY <1>1 DEF Wide
  <2>2. ASSUME NEW t \in Turns
        PROVE  /\ turn[t] \in [state : {"absent"} \cup Unfinished \cup Outcomes,
                               position : Numbers]
               /\ turn[t].position = d.turn[t].position
               /\ t \in late => turn[t].state = Resolved(state, d.turn[t].state)
               /\ t \notin late => turn[t] = d.turn[t]
    <3>1. d.turn[t] \in [state : {"absent"} \cup Unfinished \cup Outcomes, position : Numbers]
      BY <2>1
    <3>2. CASE t \in late
      <4>1. turn[t] = [d.turn[t] EXCEPT !.state = Resolved(state, d.turn[t].state)]
        BY <1>3, <3>2
      <4>2. QED BY <1>7, <3>1, <3>2, <4>1
    <3>3. CASE t \notin late
      BY <1>3, <3>1, <3>3
    <3>4. QED BY <3>2, <3>3
  <2>3. turn = [t \in Turns |-> turn[t]]
    OBVIOUS
  <2> HIDE DEF turn
  <2>4. QED BY <1>4, <2>2, <2>3
<1>9. /\ more \in Seq(Entries) /\ Len(more) = Len(list)
      /\ \A i \in 1..Len(list) :
           more[i] = Event(n + i, StateEvents[turn[list[i]].state], list[i])
  <2>1. ASSUME NEW i \in 1..Len(list)
        PROVE  /\ more[i] = Event(n + i, StateEvents[turn[list[i]].state], list[i])
               /\ more[i] \in Entries
    <3>1. list[i] \in late /\ list[i] \in Turns
      BY <1>2, <1>4
    <3>2. turn[list[i]].state = Resolved(state, d.turn[list[i]].state)
      BY <1>8, <3>1
    <3>3. /\ EventOf(turn[list[i]].state) = StateEvents[turn[list[i]].state]
          /\ StateEvents[turn[list[i]].state] \in StateKinds
      BY <1>7, <3>1, <3>2, EventOfState
    <3>4. more[i] = Event(n + i, StateEvents[turn[list[i]].state], list[i])
      <4> HIDE DEF turn
      <4>1. QED BY <3>2, <3>3
    <3> HIDE DEF turn, more
    <3>5. n + i \in Nat
      BY <1>1, <1>2
    <3>6. <<StateEvents[turn[list[i]].state], list[i]>> \in Payloads
      BY <3>1, <3>3 DEF StateKinds, Payloads
    <3>7. QED BY <3>4, <3>5, <3>6 DEF Event, Entries, Numbers
  <2>2. DOMAIN more = 1..Len(list)
    OBVIOUS
  <2>3. more = [i \in 1..Len(list) |-> more[i]]
    OBVIOUS
  <2> HIDE DEF more, turn
  <2>4. more \in Seq(Entries)
    BY <1>2, <2>1, <2>3
  <2>5. QED BY <1>2, <2>1, <2>2, <2>4
<1> HIDE DEF turn, more
<1>10. /\ d.log \o more \in Seq(Entries) /\ Len(d.log \o more) = n + Len(list)
       /\ \A i \in 1..n : (d.log \o more)[i] = d.log[i]
       /\ \A i \in 1..Len(list) : (d.log \o more)[n + i] = more[i]
  <2>1. d.log \in Seq(Entries) /\ more \in Seq(Entries) /\ Len(more) = Len(list)
    BY <1>1, <1>9
  <2>2. Len(d.log) = n
    BY DEF n
  <2> DEFINE p == d.log
  <2> HIDE DEF p
  <2>3. /\ p \o more \in Seq(Entries) /\ Len(p \o more) = Len(p) + Len(more)
        /\ \A i \in 1..Len(p) : (p \o more)[i] = p[i]
        /\ \A i \in 1..Len(more) : (p \o more)[Len(p) + i] = more[i]
    <3>1. p \in Seq(Entries)
      BY <2>1 DEF p
    <3>2. \A a, b \in Seq(Entries) :
            /\ a \o b \in Seq(Entries) /\ Len(a \o b) = Len(a) + Len(b)
            /\ \A i \in 1..Len(a) : (a \o b)[i] = a[i]
            /\ \A i \in 1..Len(b) : (a \o b)[Len(a) + i] = b[i]
      BY Joined
    <3>3. QED BY <2>1, <3>1, <3>2, Zenon
  <2>4. QED BY <2>1, <2>2, <2>3, Zenon DEF p
<1>11. r \in Wide /\ r.conv = d.conv /\ r.observed = d.observed
       /\ r.turn = turn /\ r.log = d.log \o more
  BY <1>1, <1>6, <1>8, <1>10 DEF Wide
<1>12. /\ r \in Wide /\ r.conv = d.conv /\ r.observed = d.observed
       /\ Len(r.log) = n + Len(list)
       /\ \A i \in 1..n : r.log[i] = d.log[i]
       /\ \A i \in 1..Len(list) :
            r.log[n + i] = Event(n + i, StateEvents[r.turn[list[i]].state], list[i])
       /\ \A t \in Turns : r.turn[t].position = d.turn[t].position
       /\ \A t \in late : r.turn[t].state \in Outcomes
       /\ \A t \in Turns \ late : r.turn[t] = d.turn[t]
  BY <1>7, <1>8, <1>9, <1>10, <1>11
<1>13. QED BY <1>12 DEF r, n, late, list

(* Those events explain the outcomes. *)
LEMMA ResolvedAgrees ==
  ASSUME NEW d, Agreed(d), d.conv \in Admitting, NEW state \in Terminal,
         state = "Succeeded" => InState(d, Unfinished) = {}
  PROVE  LET r == ResolveUnfinished(d, state)
         IN  /\ Numbered(r) /\ Explained(r) /\ InOrder(r) /\ Identified(r)
             /\ InState(r, Unfinished) = {}
             /\ \A i \in 1..Len(r.log) : Kind(r, i) # "ConversationTerminal"
             /\ Len(r.log) >= Len(d.log) /\ \A i \in 1..Len(d.log) : r.log[i] = d.log[i]
<1> DEFINE r == ResolveUnfinished(d, state)
<1> DEFINE list == UnfinishedTurns(d)
<1> DEFINE n == Len(d.log)
<1> DEFINE late == InState(d, Unfinished)
<1>1. /\ n \in Nat /\ DOMAIN d.log = 1..n /\ d \in Wide /\ Numbered(d)
      /\ late \subseteq Turns
      /\ \A t \in Turns : t \in late <=> d.turn[t].state \in Unfinished
  BY LogType DEF Agreed, Numbered, InState
<1>2. /\ r \in Wide /\ r.conv = d.conv /\ r.observed = d.observed
      /\ Len(r.log) = n + Len(list)
      /\ \A i \in 1..n : r.log[i] = d.log[i]
      /\ \A i \in 1..Len(list) :
           r.log[n + i] = Event(n + i, StateEvents[r.turn[list[i]].state], list[i])
      /\ \A t \in Turns : r.turn[t].position = d.turn[t].position
      /\ \A t \in late : r.turn[t].state \in Outcomes
      /\ \A t \in Turns \ late : r.turn[t] = d.turn[t]
  BY <1>1, ResolvedIs
<1>3. /\ Len(list) \in Nat
      /\ \A i \in 1..Len(list) : list[i] \in late
      /\ \A t \in late : \E i \in 1..Len(list) : list[i] = t
      /\ \A i, j \in 1..Len(list) : list[i] = list[j] => i = j
  BY <1>1, UnfinishedTurnsAre
<1>4. DOMAIN r.log = 1..(n + Len(list))
  BY <1>2, LogType
<1> HIDE DEF r, list, n, late
<1>5. \A i \in 1..(n + Len(list)) :
        i \in 1..n \/ (~(i <= n) /\ \E k \in 1..Len(list) : i = n + k)
  <2>1. ASSUME NEW i \in 1..(n + Len(list)), i \notin 1..n
        PROVE  ~(i <= n) /\ i - n \in 1..Len(list) /\ i = n + (i - n)
    BY <1>1, <1>3, <2>1
  <2>2. QED BY <2>1
<1>6. \A k \in 1..Len(list) : n + k \in 1..(n + Len(list)) /\ n + k > n /\ n + k \in Nat
  BY <1>1, <1>3
<1>7. \A i \in 1..n : i \in 1..(n + Len(list)) /\ i <= n
  BY <1>1, <1>3
<1>8. \A k \in 1..Len(list) :
        /\ r.log[n + k].payload = <<StateEvents[r.turn[list[k]].state], list[k]>>
        /\ r.log[n + k].seq = n + k
        /\ Kind(r, n + k) = StateEvents[r.turn[list[k]].state]
        /\ Kind(r, n + k) \in StateKinds \ {"TurnQueued"}
  <2>1. ASSUME NEW k \in 1..Len(list)
        PROVE  /\ StateEvents[r.turn[list[k]].state] \in StateKinds
               /\ StateEvents[r.turn[list[k]].state] # "TurnQueued"
    <3>1. r.turn[list[k]].state \in Outcomes
      BY <1>2, <1>3
    <3>2. QED BY <3>1, EventOfState DEF Outcomes, StateEvents
  <2>2. ASSUME NEW k \in 1..Len(list)
        PROVE  /\ r.log[n + k].payload = <<StateEvents[r.turn[list[k]].state], list[k]>>
               /\ r.log[n + k].seq = n + k
    <3>1. \A a, b, c : Event(a, b, c).payload = <<b, c>> /\ Event(a, b, c).seq = a
      BY DEF Event
    <3>2. r.log[n + k] = Event(n + k, StateEvents[r.turn[list[k]].state], list[k])
      BY <1>2, Zenon
    <3>3. QED BY <3>1, <3>2
  <2>3. QED BY <2>1, <2>2 DEF Kind
<1>9. \A t \in Turns : Absent(r, t) <=> Absent(d, t)
  <2>1. \A t \in late : ~Absent(d, t) /\ ~Absent(r, t)
    BY <1>1, <1>2 DEF Absent, Unfinished, Outcomes
  <2>2. QED BY <1>2, <2>1 DEF Absent
<1>10. Numbered(r)
  <2>1. \A i \in 1..n : r.log[i].seq = i
    BY <1>1, <1>2 DEF Numbered, n
  <2>2. \A i \in 1..Len(r.log) : r.log[i].seq = i
    BY <1>2, <1>5, <1>8, <2>1
  <2>3. \A t \in Turns : \A u \in 1..(t - 1) : u \in Turns
    BY TimelineAssumption DEF Turns
  <2>4. \A t \in Turns : /\ r.turn[t].position = IF Absent(r, t) THEN 0 ELSE t
                         /\ ~Absent(r, t) => \A u \in 1..(t - 1) : ~Absent(r, u)
    BY <1>1, <1>2, <1>9, <2>3 DEF Numbered
  <2>5. QED BY <1>2, <2>2, <2>4 DEF Numbered
<1>11. InState(r, Unfinished) = {}
  <2>1. \A t \in Turns : r.turn[t].state \notin Unfinished
    BY <1>1, <1>2 DEF Unfinished, Outcomes
  <2>2. QED BY <2>1 DEF InState
<1>12. \A i \in 1..Len(r.log) : Kind(r, i) # "ConversationTerminal"
  <2>1. \A i \in 1..n : Kind(r, i) # "ConversationTerminal"
    <3>1. d.conv \notin Terminal
      BY DEF Admitting, Terminal
    <3>2. QED BY <1>2, <3>1 DEF Agreed, Closes, Kind, n
  <2>2. QED BY <1>2, <1>5, <1>8, <2>1 DEF StateKinds, TurnEvents
<1>13. Identified(r)
  <2>1. \A i \in 1..n : Kind(r, i) = "Initialized" => r.log[i].payload[2] = r.observed
    BY <1>2 DEF Agreed, Identified, Kind, n
  <2>2. \A k \in 1..Len(list) : Kind(r, n + k) # "Initialized"
    BY <1>8 DEF StateKinds, TurnEvents
  <2>3. QED BY <1>2, <1>5, <2>1, <2>2 DEF Identified
<1>14. InOrder(r)
  <2>1. \A s : \A i \in 1..n : QueuedAt(r, s, i) <=> QueuedAt(d, s, i)
    BY <1>2, <1>7 DEF QueuedAt, n
  <2>2. \A s : \A k \in 1..Len(list) : ~QueuedAt(r, s, n + k)
    BY <1>8 DEF QueuedAt, Kind
  <2>3. \A s, i : QueuedAt(r, s, i) => i \in 1..n /\ QueuedAt(d, s, i)
    <3>1. \A s, i : QueuedAt(r, s, i) => i \in 1..(n + Len(list))
      BY <1>2 DEF QueuedAt
    <3>2. QED BY <1>5, <2>1, <2>2, <3>1
  <2>4. \A s, i : QueuedAt(d, s, i) => i \in 1..Len(r.log) /\ QueuedAt(r, s, i)
    <3>1. \A s, i : QueuedAt(d, s, i) => i \in 1..n
      BY DEF QueuedAt, n
    <3>2. QED BY <1>2, <1>7, <2>1, <3>1
  <2>5. InOrder(d)
    BY DEF Agreed
  <2>6. QED BY <1>9, <2>3, <2>4, <2>5 DEF InOrder, n
<1>15. Explained(r)
  <2>1. SUFFICES ASSUME NEW t \in Turns
                 PROVE  ToldState(r, t)
    BY DEF Explained
  <2>2. ToldState(d, t)
    BY DEF Agreed, Explained
  <2>3. \A i \in 1..n : i \in About(t, r) <=> i \in About(t, d)
    BY <1>1, <1>2, <1>4, <1>7 DEF About
  <2>4. \A k \in 1..Len(list) : n + k \in About(t, r) <=> list[k] = t
    BY <1>4, <1>6, <1>8 DEF About, Kind, StateKinds
  <2>5. About(t, d) \subseteq 1..n /\ About(t, r) \subseteq 1..(n + Len(list))
    BY <1>1, <1>4 DEF About
  <2>6. CASE t \in late
    <3>1. PICK k \in 1..Len(list) : list[k] = t
      BY <1>3, <2>6
    <3>2. n + k \in About(t, r) /\ Kind(r, n + k) = StateEvents[r.turn[t].state]
      BY <1>8, <2>4, <3>1
    <3>3. ASSUME NEW j \in About(t, r)
          PROVE  j <= n + k
      <4>1. CASE j \in 1..n
        BY <1>1, <1>6, <3>1, <4>1
      <4>2. CASE \E m \in 1..Len(list) : j = n + m
        <5>1. PICK m \in 1..Len(list) : j = n + m
          BY <4>2
        <5>2. m = k
          BY <1>3, <2>4, <3>1, <3>3, <5>1
        <5>3. QED BY <1>6, <5>1, <5>2
      <4>3. QED BY <1>5, <2>5, <3>3, <4>1, <4>2
    <3>4. ~Absent(r, t)
      BY <1>2, <2>6 DEF Absent, Outcomes
    <3>5. QED BY <3>2, <3>3, <3>4 DEF ToldState
  <2>7. CASE t \notin late
    <3>1. About(t, r) = About(t, d)
      <4>1. \A k \in 1..Len(list) : n + k \notin About(t, r)
        BY <1>3, <2>4, <2>7
      <4>2. QED BY <1>5, <2>3, <2>5, <4>1
    <3>2. r.turn[t] = d.turn[t] /\ (Absent(r, t) <=> Absent(d, t))
      BY <1>2, <1>9, <2>7
    <3>3. \A i \in About(t, d) : Kind(r, i) = Kind(d, i)
      BY <1>2, <2>5 DEF Kind
    <3>4. QED BY <2>2, <3>1, <3>2, <3>3 DEF ToldState
  <2>8. QED BY <2>6, <2>7
<1>16. Len(r.log) >= n
  BY <1>1, <1>2, <1>3
<1>17. QED BY <1>2, <1>10, <1>11, <1>12, <1>13, <1>14, <1>15, <1>16 DEF r, n

(* The end of a conversation. *)
LEMMA EndedAgrees ==
  ASSUME NEW d, Agreed(d), d.conv \in Admitting, NEW state \in Terminal,
         state = "Succeeded" => InState(d, Unfinished) = {}
  PROVE  LET e == Ended(d, state)
         IN  /\ Agreed(e) /\ e.conv = state
             /\ Grows(d, e)
<1> DEFINE r == ResolveUnfinished(d, state)
<1> DEFINE w == [r EXCEPT !.conv = state]
<1> DEFINE e == Ended(d, state)
<1>1. /\ Numbered(r) /\ Explained(r) /\ InOrder(r) /\ Identified(r)
      /\ InState(r, Unfinished) = {}
      /\ \A i \in 1..Len(r.log) : Kind(r, i) # "ConversationTerminal"
      /\ Len(r.log) >= Len(d.log) /\ \A i \in 1..Len(d.log) : r.log[i] = d.log[i]
  BY ResolvedAgrees
<1>2. e = Appended(w, "ConversationTerminal", state)
  BY DEF Ended
<1> HIDE DEF r, e
<1>3. /\ r \in Wide /\ w \in Wide /\ w.conv = state
      /\ w.log = r.log /\ w.turn = r.turn /\ w.observed = r.observed
  BY <1>1 DEF Numbered, Wide
<1> HIDE DEF w
<1>4. /\ Numbered(w) /\ Explained(w) /\ InOrder(w) /\ Identified(w)
      /\ InState(w, Unfinished) = {}
      /\ \A i \in 1..Len(w.log) : Kind(w, i) # "ConversationTerminal"
  <2>1. Numbered(w) /\ Explained(w)
    BY <1>1, <1>3 DEF Numbered, Explained, ToldState, Absent, About, Kind
  <2>2. InOrder(w) /\ Identified(w)
    BY <1>1, <1>3 DEF InOrder, QueuedAt, Identified, Absent, Kind
  <2>3. QED BY <1>1, <1>3, <2>1, <2>2 DEF InState, Kind
<1>5. /\ Adds(w, e, "ConversationTerminal", state)
      /\ e.conv = state /\ e.turn = w.turn /\ e.observed = w.observed
  <2>1. <<"ConversationTerminal", state>> \in Payloads
    BY DEF Payloads
  <2>2. \A i \in 1..Len(w.log) : w.log[i].seq = i
    BY <1>4 DEF Numbered
  <2>3. QED BY <1>2, <1>3, <2>1, <2>2, AppendedIs
<1>6. /\ Len(e.log) = Len(w.log) + 1 /\ Len(w.log) \in Nat /\ Len(d.log) \in Nat
      /\ \A i \in 1..Len(w.log) : e.log[i] = w.log[i]
      /\ e.log[Len(w.log) + 1].payload = <<"ConversationTerminal", state>>
  <2>1. Len(w.log) \in Nat /\ Len(d.log) \in Nat
    BY <1>3, LogType DEF Agreed, Numbered
  <2>2. QED BY <1>5, <2>1 DEF Adds, Event
<1>7. \A t \in Turns : Absent(e, t) <=> Absent(w, t)
  BY <1>5 DEF Absent
<1>8. "ConversationTerminal" \notin StateKinds /\ "ConversationTerminal" # "TurnQueued"
  BY DEF StateKinds, TurnEvents
<1>9. Numbered(e)
  <2>1. \A t \in Turns : e.turn[t].position = w.turn[t].position
    BY <1>5
  <2>2. QED BY <1>4, <1>5, <1>7, <2>1, AddsNumbered
<1>10. Explained(e)
  BY <1>4, <1>5, <1>8, AddsExplained
<1>11. InOrder(e)
  BY <1>4, <1>5, <1>7, AddsInOrder
<1>12. \A i \in 1..Len(e.log) : i \in 1..Len(w.log) \/ i = Len(w.log) + 1
  BY <1>6
<1>13. Closes(e)
  <2>1. e.conv \in Terminal /\ e.conv # "absent" /\ InState(e, Unfinished) = {}
    BY <1>4, <1>5 DEF Terminal, InState
  <2>2. e.log # <<>> /\ e.log[Len(e.log)].payload = <<"ConversationTerminal", e.conv>>
    <3>1. Len(e.log) # 0
      BY <1>6
    <3>2. QED BY <1>5, <1>6, <3>1
  <2>3. \A i \in 1..Len(e.log) : Kind(e, i) = "ConversationTerminal" => i = Len(e.log)
    BY <1>4, <1>6, <1>12 DEF Kind
  <2>4. QED BY <2>1, <2>2, <2>3 DEF Closes
<1>14. Identified(e)
  <2>1. Kind(e, Len(w.log) + 1) # "Initialized"
    BY <1>6 DEF Kind
  <2>2. QED BY <1>4, <1>5, <1>6, <1>12, <2>1 DEF Identified, Kind
<1>15. Grows(d, e)
  <2>1. \A i \in 1..Len(d.log) : i \in 1..Len(w.log)
    BY <1>1, <1>3, <1>6
  <2>2. QED BY <1>1, <1>3, <1>6, <2>1 DEF Grows
<1>16. QED BY <1>5, <1>9, <1>10, <1>11, <1>13, <1>14, <1>15 DEF e, Agreed
----------------------------------------------------------------------------
(* Transactions and the connection *)

(* A transaction leaves tables that agree, and adds at the end of the log  *)
(* of a conversation that is not over.                                     *)
Follows(d, e) ==
  /\ Agreed(e)
  /\ e = d \/ (d.conv \notin Terminal /\ (Grows(d, e) \/ e.log = d.log))

StoreOK == /\ {disk, mem} \subseteq Tables /\ open \in BOOLEAN /\ troubles \in 0..MaxTroubles
           /\ Agreed(mem) /\ Agreed(disk)
           /\ ~open => mem = disk

LEMMA Transaction ==
  ASSUME StoreOK, NEW new, ~open => Follows(mem, new), Commits(new) \/ Errs(new)
  PROVE  StoreOK' /\ Follows(mem, mem')
<1>1. Follows(mem, mem) /\ MaxTroubles \in Nat
  BY TimelineAssumption DEF Follows, StoreOK
<1>2. CASE Commits(new)
  <2>1. new \in Tables /\ Agreed(new) /\ Follows(mem, new)
    BY <1>2, FitsTables DEF Commits, Follows, Agreed
  <2>2. mem' = new /\ disk' = new /\ open' = open /\ troubles' = troubles
    BY <1>2 DEF Commits
  <2>3. QED BY <2>1, <2>2 DEF StoreOK
<1>3. CASE Errs(new)
  <2>1. CASE Keeps /\ troubles' = troubles
    BY <1>1, <2>1 DEF StoreOK
  <2>2. CASE ~open /\ Fits(new) /\ troubles < MaxTroubles /\ troubles' = troubles + 1
             /\ (Keeps \/ (mem' = new /\ open' = TRUE /\ UNCHANGED disk))
    <3>1. new \in Tables /\ Agreed(new) /\ Follows(mem, new)
      BY <2>2, FitsTables DEF Follows, Agreed
    <3>2. troubles' \in 0..MaxTroubles
      BY <1>1, <2>2 DEF StoreOK
    <3>3. CASE Keeps
      BY <1>1, <3>2, <3>3 DEF StoreOK
    <3>4. CASE mem' = new /\ open' = TRUE /\ UNCHANGED disk
      <4>1. {disk', mem'} \subseteq Tables /\ open' \in BOOLEAN
        BY <3>1, <3>4 DEF StoreOK
      <4>2. Agreed(mem') /\ Agreed(disk') /\ ~(~open') /\ Follows(mem, mem')
        BY <3>1, <3>4 DEF StoreOK
      <4>3. QED BY <3>2, <4>1, <4>2 DEF StoreOK
    <3>5. QED BY <2>2, <3>3, <3>4
  <2>3. QED BY <1>3, <2>1, <2>2 DEF Errs
<1>4. QED BY <1>2, <1>3

(* The observer watches a conversation that goes on. *)
LinkOK == /\ ~up => ~open /\ observer = "none"
          /\ ~open /\ observer \in {"active"} \cup Failing => mem.conv \in Admitting
          /\ ~open /\ observer = "ending" => mem.conv # "absent"
          /\ {up, refusal} \subseteq BOOLEAN
          /\ observer \in {"none", "active", "ending", "done"} \cup Failing

StoreInv == StoreOK /\ LinkOK

(* Requests. *)
LEMMA RequestKeeps ==
  ASSUME StoreInv, NEW new, Request(new), ~open => Follows(mem, new),
         ~open => (mem.conv \in Admitting => new.conv \in Admitting),
         new.conv # "absent"
  PROVE  StoreInv' /\ Follows(mem, mem')
<1>1. StoreOK' /\ Follows(mem, mem')
  BY Transaction DEF Request, StoreInv
<1>2. up' = up /\ refusal' = refusal /\ observer' = observer /\ up
  BY DEF Request
<1>3. ~open' => mem' = mem \/ (~open /\ mem' = new)
  BY DEF Request, Commits, Errs
<1>4. ~open' => ~open
  BY DEF Request, Commits, Errs
<1>5. LinkOK'
  BY <1>2, <1>3, <1>4 DEF LinkOK, StoreInv
<1>6. QED BY <1>1, <1>5 DEF StoreInv

LEMMA PersistTurnKeeps ==
  ASSUME StoreInv, NEW t \in Turns, PersistTurn(t)
  PROVE  StoreInv' /\ Follows(mem, mem')
<1> DEFINE new == Queue(mem, t)
<1>1. /\ Agreed(mem) /\ mem \in Wide /\ mem.conv = "Open" /\ mem.conv \notin Terminal
      /\ Absent(mem, t) /\ \A u \in 1..(t - 1) : ~Absent(mem, u)
  BY DEF StoreInv, StoreOK, PersistTurn, Agreed, Numbered, Terminal, Absent
<1>2. Agreed(new) /\ Grows(mem, new)
  BY <1>1, QueueAgrees
<1>3. new.conv = mem.conv
  BY <1>1 DEF Queue, Appended, Wide
<1>4. Follows(mem, new)
  BY <1>1, <1>2 DEF Follows
<1>5. Request(new)
  BY DEF PersistTurn
<1> HIDE DEF new
<1>6. QED BY <1>1, <1>3, <1>4, <1>5, RequestKeeps

LEMMA CloseKeeps ==
  ASSUME StoreInv, Close
  PROVE  StoreInv' /\ Follows(mem, mem')
<1> DEFINE new == [mem EXCEPT !.conv = "Closing"]
<1>1. Agreed(mem) /\ mem \in Wide /\ mem.conv \in Admitting /\ mem.conv \notin Terminal
  BY DEF StoreInv, StoreOK, Close, Agreed, Numbered, Terminal, Admitting
<1>2. Agreed(new)
  BY <1>1, CloseAgrees
<1>3. new.conv \in Admitting /\ new.log = mem.log
  BY <1>1 DEF Wide, Admitting
<1>4. Follows(mem, new)
  BY <1>1, <1>2, <1>3 DEF Follows
<1>5. Request(new)
  BY DEF Close
<1> HIDE DEF new
<1>6. QED BY <1>3, <1>4, <1>5, RequestKeeps DEF Admitting

LEMMA PersistStartKeeps ==
  ASSUME StoreInv, PersistStart
  PROVE  StoreInv' /\ Follows(mem, mem')
<1> DEFINE b == [mem EXCEPT !.conv = "Open"]
<1> DEFINE new == Queue(b, 1)
<1>1. /\ Agreed(mem) /\ mem \in Wide /\ mem.conv = "absent" /\ mem.conv \notin Terminal
      /\ 1 \in Turns
  BY TimelineAssumption DEF StoreInv, StoreOK, PersistStart, Agreed, Numbered, Terminal, Turns
<1>2. /\ b \in Wide /\ b.log = mem.log /\ b.turn = mem.turn /\ b.observed = mem.observed
      /\ b.conv = "Open"
  BY <1>1 DEF Wide, Admitting
<1> HIDE DEF b
<1>3. Absent(mem, 1) /\ \A u \in 1..(1 - 1) : ~Absent(mem, u)
  BY <1>1 DEF Agreed, Closes
<1>4. Agreed(new) /\ Grows(mem, new)
  BY <1>1, <1>2, <1>3, QueueAgrees
<1>5. new.conv = "Open"
  BY <1>2 DEF Queue, Appended, Wide
<1>6. Follows(mem, new)
  BY <1>1, <1>4 DEF Follows
<1>7. /\ (Commits(new) /\ observer' = "active") \/ (Errs(new) /\ UNCHANGED observer)
      /\ up' = up /\ refusal' = refusal /\ up
  BY DEF PersistStart, b
<1> HIDE DEF new
<1>8. StoreOK' /\ Follows(mem, mem')
  BY <1>6, <1>7, Transaction DEF StoreInv
<1>9. LinkOK'
  <2>1. CASE Commits(new) /\ observer' = "active"
    BY <1>5, <1>7, <2>1 DEF LinkOK, StoreInv, Commits, Admitting
  <2>2. CASE Errs(new) /\ UNCHANGED observer
    <3>1. ~open' => mem' = mem /\ ~open
      BY <2>2 DEF Errs
    <3>2. QED BY <1>7, <2>2, <3>1 DEF LinkOK, StoreInv
  <2>3. QED BY <1>7, <2>1, <2>2
<1>10. QED BY <1>8, <1>9 DEF StoreInv

(* Observations: the observer goes on, or fails. *)
LEMMA ObservesKeeps ==
  ASSUME StoreInv, NEW new, NEW next \in {"active", "done"}, NEW failed \in Failing,
         Observes(new, next, failed),
         ~open => Follows(mem, new), ~open /\ next = "active" => new.conv \in Admitting
  PROVE  StoreInv' /\ Follows(mem, mem')
<1>1. /\ (Commits(new) /\ observer' = next) \/ (Errs(new) /\ observer' = failed)
      /\ up' = up /\ refusal' = refusal /\ up /\ observer = "active"
  BY DEF Observes
<1>2. StoreOK' /\ Follows(mem, mem')
  BY <1>1, Transaction DEF StoreInv
<1>3. LinkOK'
  <2>1. CASE Commits(new) /\ observer' = next
    BY <1>1, <2>1 DEF LinkOK, StoreInv, Commits, Failing
  <2>2. CASE Errs(new) /\ observer' = failed
    <3>1. ~open' => mem' = mem /\ ~open
      BY <2>2 DEF Errs
    <3>2. QED BY <1>1, <2>2, <3>1 DEF LinkOK, StoreInv, Failing
  <2>3. QED BY <1>1, <2>1, <2>2
<1>4. QED BY <1>2, <1>3 DEF StoreInv

LEMMA WatchedIsOpen ==
  ASSUME StoreInv, NEW new, NEW next, NEW failed, Observes(new, next, failed), ~open
  PROVE  /\ Agreed(mem) /\ mem \in Wide
         /\ mem.conv \in Admitting /\ mem.conv \notin Terminal
<1>1. mem.conv \in Admitting /\ Agreed(mem)
  BY DEF StoreInv, StoreOK, LinkOK, Observes
<1>2. QED BY <1>1 DEF Agreed, Numbered, Admitting, Terminal

LEMMA RecordTurnKeeps ==
  ASSUME StoreInv, NEW t \in Turns, NEW s \in {"Started", "Completed", "Failed"},
         RecordTurn(t, s)
  PROVE  StoreInv' /\ Follows(mem, mem')
<1> DEFINE new == Appended([mem EXCEPT !.turn[t].state = s], EventOf(s), t)
<1>1. Observes(new, "active", "stateError") /\ TurnAllowed(mem.turn[t].state, s)
  BY DEF RecordTurn
<1>2. ASSUME ~open
      PROVE  Follows(mem, new) /\ new.conv \in Admitting
  <2>1. Agreed(mem) /\ mem \in Wide /\ mem.conv \in Admitting /\ mem.conv \notin Terminal
    BY <1>1, <1>2, WatchedIsOpen
  <2>2. Agreed(new) /\ Grows(mem, new)
    BY <1>1, <2>1, RecordTurnAgrees
  <2>3. new.conv = mem.conv
    BY <2>1 DEF Appended, Wide
  <2>4. QED BY <2>1, <2>2, <2>3 DEF Follows
<1> HIDE DEF new
<1>3. QED BY <1>1, <1>2, ObservesKeeps DEF Failing

LEMMA RecordAcknowledgedKeeps ==
  ASSUME StoreInv, NEW t \in Turns, RecordAcknowledged(t)
  PROVE  StoreInv' /\ Follows(mem, mem')
<1> DEFINE new == Appended(mem, "TurnAcknowledged", t)
<1>1. Observes(new, "active", "stateError")
  BY DEF RecordAcknowledged
<1>2. ASSUME ~open
      PROVE  Follows(mem, new) /\ new.conv \in Admitting
  <2>1. Agreed(mem) /\ mem \in Wide /\ mem.conv \in Admitting /\ mem.conv \notin Terminal
    BY <1>1, <1>2, WatchedIsOpen
  <2>2. Agreed(new) /\ Grows(mem, new)
    BY <2>1, AcknowledgedAgrees
  <2>3. new.conv = mem.conv
    BY <2>1 DEF Appended, Wide
  <2>4. QED BY <2>1, <2>2, <2>3 DEF Follows
<1> HIDE DEF new
<1>3. QED BY <1>1, <1>2, ObservesKeeps DEF Failing

LEMMA RecordInitializationKeeps ==
  ASSUME StoreInv, NEW id \in Identities, RecordInitialization(id)
  PROVE  StoreInv' /\ Follows(mem, mem')
<1> DEFINE new == Appended([mem EXCEPT !.observed = id], "Initialized", id)
<1>1. CASE open \/ Consistent(mem, id)
  <2>1. Observes(new, "active", "stateError")
    BY <1>1 DEF RecordInitialization
  <2>2. ASSUME ~open
        PROVE  Follows(mem, new) /\ new.conv \in Admitting
    <3>1. Agreed(mem) /\ mem \in Wide /\ mem.conv \in Admitting /\ mem.conv \notin Terminal
      BY <2>1, <2>2, WatchedIsOpen
    <3>2. Agreed(new) /\ Grows(mem, new)
      BY <1>1, <2>2, <3>1, InitializationAgrees
    <3>3. new.conv = mem.conv
      BY <3>1 DEF Appended, Wide
    <3>4. QED BY <3>1, <3>2, <3>3 DEF Follows
  <2> HIDE DEF new
  <2>3. QED BY <2>1, <2>2, ObservesKeeps DEF Failing
<1>2. CASE ~(open \/ Consistent(mem, id))
  <2>1. /\ up /\ observer = "active" /\ observer' = "otherError"
        /\ mem' = mem /\ disk' = disk /\ open' = open /\ up' = up
        /\ refusal' = refusal /\ troubles' = troubles
    BY <1>2 DEF RecordInitialization
  <2>2. StoreOK' /\ Follows(mem, mem')
    BY <2>1 DEF StoreInv, StoreOK, Follows
  <2>3. LinkOK'
    BY <2>1 DEF StoreInv, LinkOK, Failing
  <2>4. QED BY <2>2, <2>3 DEF StoreInv
<1>3. QED BY <1>1, <1>2

LEMMA TerminalizeKeeps ==
  ASSUME StoreInv, NEW s \in Terminal, Terminalize(s)
  PROVE  StoreInv' /\ Follows(mem, mem')
<1> DEFINE new == Ended(mem, s)
<1>1. Observes(new, "done", "otherError") /\ (s = "Succeeded" => InState(mem, Unfinished) = {})
  BY DEF Terminalize
<1>2. ASSUME ~open
      PROVE  Follows(mem, new)
  <2>1. Agreed(mem) /\ mem \in Wide /\ mem.conv \in Admitting /\ mem.conv \notin Terminal
    BY <1>1, <1>2, WatchedIsOpen
  <2>2. Agreed(new) /\ Grows(mem, new)
    BY <1>1, <2>1, EndedAgrees
  <2>3. QED BY <2>1, <2>2 DEF Follows
<1> HIDE DEF new
<1>3. QED BY <1>1, <1>2, ObservesKeeps DEF Failing

(* What the observer does when it could not go on: it ends a conversation  *)
(* that is not over, once or twice.                                        *)
LEMMA EndingFollows ==
  ASSUME StoreInv, ~open, observer \in Failing \cup {"ending"}, mem.conv \notin Terminal
  PROVE  /\ Follows(mem, Ended(mem, "Indeterminate")) /\ mem.conv \in Admitting
         /\ Ended(mem, "Indeterminate").conv = "Indeterminate"
<1>1. mem.conv \in Admitting \cup Terminal \cup {"absent"} /\ Agreed(mem)
  BY DEF StoreInv, StoreOK, Tables
<1>2. mem.conv \in Admitting
  BY <1>1 DEF StoreInv, LinkOK
<1>3. "Indeterminate" \in Terminal /\ "Indeterminate" # "Succeeded"
  BY DEF Terminal
<1>4. /\ Agreed(Ended(mem, "Indeterminate")) /\ Grows(mem, Ended(mem, "Indeterminate"))
      /\ Ended(mem, "Indeterminate").conv = "Indeterminate"
  BY <1>1, <1>2, <1>3, EndedAgrees
<1>5. QED BY <1>1, <1>2, <1>4 DEF Follows

LEMMA FindsEndedKeeps ==
  ASSUME StoreInv, FindsEnded
  PROVE  StoreInv' /\ Follows(mem, mem')
<1>1. /\ observer' = "done" /\ up' = up /\ refusal' = refusal /\ up
      /\ mem' = mem /\ disk' = disk /\ open' = open /\ troubles' = troubles
  BY DEF FindsEnded
<1>2. StoreOK' /\ Follows(mem, mem')
  BY <1>1 DEF StoreInv, StoreOK, Follows
<1>3. LinkOK'
  BY <1>1 DEF StoreInv, LinkOK, Failing
<1>4. QED BY <1>2, <1>3 DEF StoreInv

LEMMA GiveUpKeeps ==
  ASSUME StoreInv, GiveUp
  PROVE  StoreInv' /\ Follows(mem, mem')
<1> DEFINE new == Ended(mem, "Indeterminate")
<1>1. /\ Commits(new) \/ Errs(new)
      /\ refusal' \in {TRUE, refusal, refusal \/ observer = "stateError"}
      /\ up /\ up' = up /\ observer' = "ending" /\ observer \in Failing
      /\ mem.conv \notin Terminal
  BY DEF GiveUp
<1>2. ~open => Follows(mem, new) /\ mem.conv # "absent"
  BY <1>1, EndingFollows DEF Admitting
<1>3. ~open => new.conv # "absent"
  BY <1>1, EndingFollows
<1> HIDE DEF new
<1>4. StoreOK' /\ Follows(mem, mem')
  BY <1>1, <1>2, Transaction DEF StoreInv
<1>5. refusal' \in BOOLEAN
  <2>1. (refusal \/ observer = "stateError") \in BOOLEAN /\ refusal \in BOOLEAN
    BY Zenon DEF StoreInv, LinkOK
  <2>2. QED BY <1>1, <2>1
<1>6. ~open' => ~open /\ (mem' = mem \/ mem' = new)
  BY <1>1 DEF Commits, Errs
<1>7. LinkOK'
  BY <1>1, <1>2, <1>3, <1>5, <1>6 DEF StoreInv, LinkOK, Failing
<1>8. QED BY <1>4, <1>7 DEF StoreInv

LEMMA EndsUnfinishedKeeps ==
  ASSUME StoreInv, EndsUnfinished
  PROVE  StoreInv' /\ Follows(mem, mem')
<1> DEFINE new == Ended(mem, "Indeterminate")
<1>1. /\ Commits(new) \/ Errs(new)
      /\ refusal' \in {TRUE, refusal}
      /\ up /\ up' = up /\ observer' = "done" /\ observer = "ending"
      /\ mem.conv \notin Terminal
  BY DEF EndsUnfinished
<1>2. ~open => Follows(mem, new)
  BY <1>1, EndingFollows
<1> HIDE DEF new
<1>3. StoreOK' /\ Follows(mem, mem')
  BY <1>1, <1>2, Transaction DEF StoreInv
<1>4. LinkOK'
  BY <1>1 DEF StoreInv, LinkOK, Failing
<1>5. QED BY <1>3, <1>4 DEF StoreInv

(* A daemon that starts ends what it finds. *)
LEMMA RestartKeeps ==
  ASSUME StoreInv, Restart
  PROVE  StoreInv' /\ Follows(mem, mem')
<1>1. ~up /\ ~open /\ observer = "none"
  BY DEF Restart, StoreInv, LinkOK
<1>2. Follows(mem, Recovered)
  <2>1. Agreed(mem)
    BY DEF StoreInv, StoreOK
  <2>2. CASE mem.conv \in Admitting
    <3>1. /\ mem.conv \notin Terminal /\ "Indeterminate" \in Terminal
          /\ "Indeterminate" # "Succeeded"
      BY <2>2 DEF Admitting, Terminal
    <3>2. Agreed(Ended(mem, "Indeterminate")) /\ Grows(mem, Ended(mem, "Indeterminate"))
      BY <2>1, <2>2, <3>1, EndedAgrees
    <3>3. QED BY <2>2, <3>1, <3>2 DEF Follows, Recovered
  <2>3. CASE mem.conv \notin Admitting
    BY <2>1, <2>3 DEF Follows, Recovered
  <2>4. QED BY <2>2, <2>3
<1>3. refusal' = refusal /\ observer' = observer
  BY DEF Restart
<1>4. CASE Commits(Recovered) /\ up' = TRUE
  <2>1. StoreOK' /\ Follows(mem, mem')
    BY <1>2, <1>4, Transaction DEF StoreInv
  <2>2. LinkOK'
    BY <1>1, <1>3, <1>4 DEF StoreInv, LinkOK, Failing
  <2>3. QED BY <2>1, <2>2 DEF StoreInv
<1>5. CASE Errs(Recovered) /\ open' = FALSE /\ UNCHANGED <<up, mem, disk>>
  <2>1. troubles' \in 0..MaxTroubles
    <3>1. MaxTroubles \in Nat
      BY TimelineAssumption
    <3>2. troubles' = troubles \/ (troubles' = troubles + 1 /\ troubles < MaxTroubles)
      BY <1>5 DEF Errs
    <3>3. QED BY <3>1, <3>2 DEF StoreInv, StoreOK
  <2>2. mem' = mem /\ disk' = disk /\ open' = open /\ up' = up
    BY <1>1, <1>5, Zenon DEF StoreInv, StoreOK
  <2>3. StoreOK' /\ Follows(mem, mem')
    BY <2>1, <2>2 DEF StoreInv, StoreOK, Follows
  <2>4. LinkOK'
    BY <1>1, <1>3, <2>2 DEF StoreInv, LinkOK
  <2>5. QED BY <2>3, <2>4 DEF StoreInv
<1>6. QED BY <1>4, <1>5 DEF Restart

LEMMA CrashKeeps ==
  ASSUME StoreInv, Crash
  PROVE  StoreInv' /\ (OpenCrash \/ Follows(mem, mem'))
<1>1. /\ mem' = disk /\ disk' = disk /\ open' = FALSE /\ up' = FALSE
      /\ refusal' = FALSE /\ observer' = "none" /\ troubles' = troubles + 1
      /\ troubles < MaxTroubles /\ (open => OpenCrash)
  BY DEF Crash
<1>2. troubles' \in 0..MaxTroubles
  BY <1>1, TimelineAssumption DEF StoreInv, StoreOK
<1>3. StoreOK'
  BY <1>1, <1>2 DEF StoreInv, StoreOK
<1>4. LinkOK'
  BY <1>1 DEF LinkOK, Failing
<1>5. OpenCrash \/ Follows(mem, mem')
  BY <1>1 DEF StoreInv, StoreOK, Follows
<1>6. QED BY <1>3, <1>4, <1>5 DEF StoreInv
----------------------------------------------------------------------------
(* Clients *)

(* What comes after the first k items of a sequence. *)
LEMMA RestIs ==
  ASSUME NEW D, NEW l \in Seq(D), NEW k \in Nat
  PROVE  /\ SubSeq(l, k + 1, Len(l)) \in Seq(D)
         /\ k <= Len(l) => Len(SubSeq(l, k + 1, Len(l))) = Len(l) - k
         /\ \A i \in 1..(Len(l) - k) : SubSeq(l, k + 1, Len(l))[i] = l[k + i]
<1> DEFINE m == k + 1
<1> DEFINE n == Len(l)
<1>1. m \in Int /\ n \in Int /\ \A i \in m..n : l[i] \in D
  OBVIOUS
<1>2. /\ n - m + 1 = Len(l) - k /\ \A i \in 1..(Len(l) - k) : m + i - 1 = k + i
      /\ k <= Len(l) => (IF m <= n THEN n - m + 1 ELSE 0) = Len(l) - k
  OBVIOUS
<1> HIDE DEF m, n
<1>3. /\ SubSeq(l, m, n) \in Seq(D)
      /\ Len(SubSeq(l, m, n)) = IF m <= n THEN n - m + 1 ELSE 0
      /\ \A i \in 1..(n - m + 1) : SubSeq(l, m, n)[i] = l[m + i - 1]
  BY <1>1, SubSeqProperties
<1>4. /\ SubSeq(l, m, n) \in Seq(D)
      /\ k <= Len(l) => Len(SubSeq(l, m, n)) = Len(l) - k
      /\ \A i \in 1..(Len(l) - k) : SubSeq(l, m, n)[i] = l[k + i]
  BY <1>2, <1>3
<1>5. QED BY <1>4 DEF m, n

(* Joined to those items, it is the whole sequence again. *)
LEMMA RestCompletes ==
  ASSUME NEW D, NEW s \in Seq(D), NEW l \in Seq(D), Begins(s, l)
  PROVE  s \o SubSeq(l, Len(s) + 1, Len(l)) = l
<1> DEFINE r == SubSeq(l, Len(s) + 1, Len(l))
<1>1. /\ Len(s) \in Nat /\ Len(l) \in Nat /\ Len(s) <= Len(l)
      /\ \A i \in 1..Len(s) : s[i] = l[i]
  BY DEF Begins
<1>2. /\ r \in Seq(D) /\ Len(r) = Len(l) - Len(s)
      /\ \A i \in 1..(Len(l) - Len(s)) : r[i] = l[Len(s) + i]
  BY <1>1, RestIs
<1> HIDE DEF r
<1>3. /\ s \o r \in Seq(D) /\ Len(s \o r) = Len(s) + Len(r)
      /\ \A i \in 1..Len(s) : (s \o r)[i] = s[i]
      /\ \A i \in 1..Len(r) : (s \o r)[Len(s) + i] = r[i]
  BY <1>2, Joined
<1>4. \A i \in 1..Len(s \o r) : (s \o r)[i] = l[i]
  <2>1. SUFFICES ASSUME NEW i \in 1..Len(s \o r)
                 PROVE  (s \o r)[i] = l[i]
    OBVIOUS
  <2>2. CASE i <= Len(s)
    BY <1>1, <1>3, <2>2
  <2>3. CASE ~(i <= Len(s))
    <3>1. i - Len(s) \in 1..Len(r) /\ Len(s) + (i - Len(s)) = i
      BY <1>1, <1>2, <1>3, <2>3
    <3>2. QED BY <1>2, <1>3, <3>1
  <2>4. QED BY <2>2, <2>3
<1>5. Len(s \o r) = Len(l)
  BY <1>1, <1>2, <1>3
<1>6. s \o r = l
  BY <1>3, <1>4, <1>5, SeqEqual
<1>7. QED BY <1>6 DEF r

(* A read takes rows of the log; after as many events as there are, it     *)
(* takes those that follow.                                                *)
LEMMA ListAfterType ==
  ASSUME NEW d \in Tables, NEW after \in Nat
  PROVE  ListAfter(d, after) \in Seq(Events)
<1> DEFINE T == {i \in DOMAIN d.log : d.log[i].seq <= after}
<1>1. d.log \in Seq(Events) /\ DOMAIN d.log = 1..Len(d.log) /\ Len(d.log) \in Nat
  BY DEF Tables
<1>2. Cardinality(T) \in Nat
  <2>1. IsFiniteSet(1..Len(d.log)) /\ T \in SUBSET (1..Len(d.log))
    BY <1>1, FS_Interval
  <2> HIDE DEF T
  <2>2. QED BY <2>1, FS_Subset, FS_CardinalityType
<1>3. ListAfter(d, after) = SubSeq(d.log, Cardinality(T) + 1, Len(d.log))
  BY DEF ListAfter
<1> HIDE DEF T
<1>4. QED BY <1>1, <1>2, <1>3, RestIs

LEMMA ListAfterIs ==
  ASSUME NEW d, Numbered(d), NEW after \in 0..Len(d.log)
  PROVE  ListAfter(d, after) = SubSeq(d.log, after + 1, Len(d.log))
<1>1. DOMAIN d.log = 1..Len(d.log) /\ Len(d.log) \in Nat
  BY LogType DEF Numbered
<1>2. {i \in DOMAIN d.log : d.log[i].seq <= after} = 1..after
  BY <1>1 DEF Numbered
<1>3. Cardinality(1..after) = after
  BY FS_Interval
<1>4. QED BY <1>2, <1>3 DEF ListAfter

ClientsOK ==
  /\ call \in [Clients -> {"idle", "waiting", "answered", "stopped"}]
  /\ reply \in [Clients -> Replies]
  /\ received \in [Clients -> Seq(Events)]

LEMMA CursorType ==
  ASSUME ClientsOK, NEW c \in Clients
  PROVE  Cursor(c) \in Nat
<1>1. received[c] \in Seq(Events) /\ MaxSequence \in Nat
  BY TimelineAssumption DEF ClientsOK
<1>2. CASE received[c] # <<>>
  <2>1. Len(received[c]) \in 1..Len(received[c])
    BY <1>1, <1>2
  <2>2. received[c][Len(received[c])] \in Events
    BY <1>1, <2>1
  <2>3. QED BY <1>1, <1>2, <2>2 DEF Cursor, Last, Events
<1>3. QED BY <1>2 DEF Cursor

LEMMA SnapshotType ==
  ASSUME StoreInv, ClientsOK, NEW c \in Clients
  PROVE  Snapshot(c) \in Replies
<1>1. ListAfter(mem, Cursor(c)) \in Seq(Events)
  BY CursorType, ListAfterType DEF StoreInv, StoreOK
<1>2. (mem.conv \in Terminal) \in BOOLEAN
  OBVIOUS
<1>3. QED BY <1>1, <1>2 DEF Snapshot, Replies

(* The steps of a client leave the store alone, and others its variables.  *)
ClientNext ==
  \E c \in Clients :
    \/ Ask(c) \/ WaitAnswers(c) \/ WaitTimesOut(c) \/ WaitRefused(c)
    \/ Receive(c) \/ Disconnect(c)

LEMMA ClientKeeps ==
  ASSUME StoreInv, ClientsOK, ClientNext
  PROVE  StoreInv' /\ ClientsOK' /\ mem' = mem
<1>1. PICK c \in Clients :
        \/ Ask(c) \/ WaitAnswers(c) \/ WaitTimesOut(c) \/ WaitRefused(c)
        \/ Receive(c) \/ Disconnect(c)
  BY DEF ClientNext
<1>2. /\ mem' = mem /\ disk' = disk /\ open' = open /\ up' = up
      /\ refusal' = refusal /\ observer' = observer /\ troubles' = troubles
  BY <1>1 DEF Ask, WaitAnswers, WaitTimesOut, WaitRefused, Receive, Disconnect, Answer
<1>3. StoreInv'
  BY <1>2 DEF StoreInv, StoreOK, LinkOK
<1>4. NoReply \in Replies
  BY DEF NoReply, Replies
<1>5. ClientsOK'
  <2>1. CASE Ask(c)
    BY <2>1 DEF Ask, ClientsOK
  <2>2. CASE WaitAnswers(c) \/ WaitTimesOut(c)
    <3>1. Snapshot(c) \in Replies
      BY SnapshotType
    <3>2. Answer(c)
      BY <2>2 DEF WaitAnswers, WaitTimesOut
    <3>3. QED BY <3>1, <3>2 DEF Answer, ClientsOK
  <2>3. CASE WaitRefused(c)
    BY <2>3 DEF WaitRefused, ClientsOK
  <2>4. CASE Receive(c)
    <3>1. received[c] \o reply[c].events \in Seq(Events)
      <4>1. received[c] \in Seq(Events) /\ reply[c].events \in Seq(Events)
        BY DEF ClientsOK, Replies
      <4>2. \A a, b \in Seq(Events) : a \o b \in Seq(Events)
        OBVIOUS
      <4>3. QED BY <4>1, <4>2, Zenon
    <3>2. received' \in [Clients -> Seq(Events)]
      BY <2>4, <3>1 DEF Receive, ClientsOK
    <3>3. call' \in [Clients -> {"idle", "waiting", "answered", "stopped"}]
      BY <2>4 DEF Receive, ClientsOK
    <3>4. reply' \in [Clients -> Replies]
      BY <1>4, <2>4 DEF Receive, ClientsOK
    <3>5. QED BY <3>2, <3>3, <3>4 DEF ClientsOK
  <2>5. CASE Disconnect(c)
    BY <1>4, <2>5 DEF Disconnect, ClientsOK
  <2>6. QED BY <1>1, <2>1, <2>2, <2>3, <2>4, <2>5
<1>6. QED BY <1>2, <1>3, <1>5
----------------------------------------------------------------------------
(* The invariant, and what the tables promise *)

LEMMA Parts == IInv <=> StoreInv /\ ClientsOK
BY DEF IInv, TypeOK, Connection, StoreInv, StoreOK, LinkOK, ClientsOK

LEMMA InitInv == Init => IInv
<1> SUFFICES ASSUME Init
             PROVE  StoreInv /\ ClientsOK
  BY Parts
<1>1. /\ disk = NoTables /\ mem = NoTables /\ open = FALSE /\ up = TRUE /\ refusal = FALSE
      /\ observer = "none" /\ troubles = 0
  BY DEF Init
<1>2. /\ MaxSequence \in Nat /\ MaxTroubles \in Nat /\ Turns \subseteq Nat
  BY TimelineAssumption DEF Turns
<1>3. /\ NoTables \in Tables /\ NoTables \in Wide
      /\ NoTables.log = <<>> /\ Len(NoTables.log) = 0 /\ DOMAIN NoTables.log = {}
      /\ NoTables.conv = "absent"
      /\ \A t \in Turns : NoTables.turn[t].state = "absent" /\ NoTables.turn[t].position = 0
  BY <1>2 DEF NoTables, Tables, Wide, TurnRows, Numbers
<1>4. \A t \in Turns : Absent(NoTables, t)
  BY <1>3 DEF Absent
<1>5. Numbered(NoTables)
  <2>1. \A t \in Turns : \A u \in 1..(t - 1) : u \in Turns
    BY TimelineAssumption DEF Turns
  <2>2. QED BY <1>3, <1>4, <2>1 DEF Numbered
<1>6. Explained(NoTables) /\ InOrder(NoTables)
  BY <1>3, <1>4 DEF Explained, ToldState, About, InOrder
<1>7. Closes(NoTables) /\ Identified(NoTables)
  BY <1>3, <1>4 DEF Closes, Identified, Terminal
<1>8. StoreOK
  <2>1. open \in BOOLEAN /\ troubles \in 0..MaxTroubles /\ {disk, mem} \subseteq Tables
    <3>1. open \in BOOLEAN
      BY <1>1, Zenon
    <3>2. troubles \in 0..MaxTroubles
      BY <1>1, <1>2
    <3>3. {disk, mem} \subseteq Tables
      BY <1>1, <1>3, Zenon
    <3>4. QED BY <3>1, <3>2, <3>3
  <2>2. Agreed(mem) /\ Agreed(disk) /\ mem = disk
    BY <1>1, <1>5, <1>6, <1>7 DEF Agreed
  <2>3. QED BY <2>1, <2>2 DEF StoreOK
<1>9. LinkOK
  BY <1>1 DEF LinkOK, Failing
<1>10. ClientsOK
  <2>1. NoReply \in Replies /\ <<>> \in Seq(Events)
    BY DEF NoReply, Replies
  <2>2. QED BY <2>1 DEF Init, ClientsOK
<1>11. QED BY <1>8, <1>9, <1>10 DEF StoreInv

(* A step is one of a client, or one of a transaction, or a crash. *)
Written == UNCHANGED clients /\ Follows(mem, mem')

LEMMA NextKeeps ==
  ASSUME StoreInv, ClientsOK, [Next]_vars
  PROVE  StoreInv' /\ ClientsOK' /\ (ClientNext \/ Written \/ Crash)
<1>1. ASSUME UNCHANGED clients
      PROVE  ClientsOK'
  BY <1>1 DEF ClientsOK
<1>2. CASE \E t \in Turns : PersistTurn(t)
  <2>1. PICK t \in Turns : PersistTurn(t)
    BY <1>2
  <2>2. UNCHANGED clients
    BY <2>1 DEF PersistTurn, Request
  <2>3. QED BY <1>1, <2>1, <2>2, PersistTurnKeeps DEF Written
<1>3. CASE \E t \in Turns : RecordAcknowledged(t)
  <2>1. PICK t \in Turns : RecordAcknowledged(t)
    BY <1>3
  <2>2. UNCHANGED clients
    BY <2>1 DEF RecordAcknowledged, Observes
  <2>3. QED BY <1>1, <2>1, <2>2, RecordAcknowledgedKeeps DEF Written
<1>4. CASE \E t \in Turns, s \in {"Started", "Completed", "Failed"} : RecordTurn(t, s)
  <2>1. PICK t \in Turns, s \in {"Started", "Completed", "Failed"} : RecordTurn(t, s)
    BY <1>4
  <2>2. UNCHANGED clients
    BY <2>1 DEF RecordTurn, Observes
  <2>3. QED BY <1>1, <2>1, <2>2, RecordTurnKeeps DEF Written
<1>5. CASE \E id \in Identities : RecordInitialization(id)
  <2>1. PICK id \in Identities : RecordInitialization(id)
    BY <1>5
  <2>2. UNCHANGED clients
    BY <2>1 DEF RecordInitialization, Observes
  <2>3. QED BY <1>1, <2>1, <2>2, RecordInitializationKeeps DEF Written
<1>6. CASE \E s \in Terminal : Terminalize(s)
  <2>1. PICK s \in Terminal : Terminalize(s)
    BY <1>6
  <2>2. UNCHANGED clients
    BY <2>1 DEF Terminalize, Observes
  <2>3. QED BY <1>1, <2>1, <2>2, TerminalizeKeeps DEF Written
<1>7. CASE PersistStart
  <2>1. UNCHANGED clients
    BY <1>7 DEF PersistStart
  <2>2. QED BY <1>1, <1>7, <2>1, PersistStartKeeps DEF Written
<1>8. CASE Close
  <2>1. UNCHANGED clients
    BY <1>8 DEF Close, Request
  <2>2. QED BY <1>1, <1>8, <2>1, CloseKeeps DEF Written
<1>9. CASE GiveUp
  <2>1. UNCHANGED clients
    BY <1>9 DEF GiveUp
  <2>2. QED BY <1>1, <1>9, <2>1, GiveUpKeeps DEF Written
<1>10. CASE FindsEnded
  <2>1. UNCHANGED clients
    BY <1>10 DEF FindsEnded
  <2>2. QED BY <1>1, <1>10, <2>1, FindsEndedKeeps DEF Written
<1>11. CASE EndsUnfinished
  <2>1. UNCHANGED clients
    BY <1>11 DEF EndsUnfinished
  <2>2. QED BY <1>1, <1>11, <2>1, EndsUnfinishedKeeps DEF Written
<1>12. CASE ClientNext
  BY <1>12, ClientKeeps
<1>13. CASE Crash
  <2>1. ClientsOK'
    <3>1. NoReply \in Replies
      BY DEF NoReply, Replies
    <3>2. QED BY <1>13, <3>1 DEF Crash, ClientsOK
  <2>2. QED BY <1>13, <2>1, CrashKeeps
<1>14. CASE Restart
  <2>1. UNCHANGED clients
    BY <1>14 DEF Restart
  <2>2. QED BY <1>1, <1>14, <2>1, RestartKeeps DEF Written
<1>15. CASE Quiescent \/ UNCHANGED vars
  <2>1. /\ UNCHANGED clients /\ mem' = mem /\ disk' = disk /\ open' = open /\ up' = up
        /\ refusal' = refusal /\ observer' = observer /\ troubles' = troubles
    BY <1>15 DEF Quiescent
  <2>2. StoreInv' /\ Follows(mem, mem')
    BY <2>1 DEF StoreInv, StoreOK, LinkOK, Follows
  <2>3. QED BY <1>1, <2>1, <2>2 DEF Written
<1>16. QED
  BY <1>2, <1>3, <1>4, <1>5, <1>6, <1>7, <1>8, <1>9, <1>10, <1>11, <1>12, <1>13,
     <1>14, <1>15
  DEF Next, ClientNext

THEOREM Inductive == Spec => []IInv
<1>1. IInv /\ [Next]_vars => IInv'
  <2>1. StoreInv /\ ClientsOK /\ [Next]_vars => StoreInv' /\ ClientsOK'
    BY NextKeeps
  <2>2. (IInv <=> StoreInv /\ ClientsOK)'
    BY Parts, PTL
  <2>3. QED BY <2>1, <2>2, Parts
<1>2. QED BY <1>1, InitInv, PTL DEF Spec

(* What is known of the tables that a reader sees. *)
LEMMA MemFacts ==
  ASSUME IInv
  PROVE  /\ Agreed(mem) /\ mem \in Wide /\ mem \in Tables /\ mem.log \in Seq(Events)
         /\ DOMAIN mem.log = 1..Len(mem.log) /\ Len(mem.log) \in Nat
         /\ Turns = 1..MaxTurns /\ MaxTurns \in Nat
<1>1. Agreed(mem) /\ mem \in Wide /\ mem \in Tables
  BY DEF IInv, TypeOK, Agreed, Numbered
<1>2. mem.log \in Seq(Events)
  BY <1>1 DEF Tables
<1>3. QED BY <1>1, <1>2, LogType, TimelineAssumption DEF Turns

LEMMA EventsExplain ==
  ASSUME IInv
  PROVE  EventsExplainTables
<1>1. /\ Agreed(mem) /\ DOMAIN mem.log = 1..Len(mem.log) /\ Len(mem.log) \in Nat
  BY MemFacts
<1>2. ASSUME NEW t \in Turns
      PROVE  IF mem.turn[t].state = "absent" THEN About(t, mem) = {}
             ELSE /\ About(t, mem) # {}
                  /\ mem.log[Highest(About(t, mem))].payload[1] = StateEvents[mem.turn[t].state]
  <2> DEFINE S == About(t, mem)
  <2>1. ToldState(mem, t)
    BY <1>1 DEF Agreed, Explained
  <2>2. S \subseteq 1..Len(mem.log)
    BY <1>1 DEF About
  <2>3. CASE Absent(mem, t)
    BY <2>1, <2>3 DEF ToldState, Absent
  <2>4. CASE ~Absent(mem, t)
    <3>1. PICK i \in S : /\ Kind(mem, i) = StateEvents[mem.turn[t].state]
                         /\ \A j \in S : j <= i
      BY <2>1, <2>4 DEF ToldState
    <3> HIDE DEF S
    <3>2. S \subseteq Nat /\ \A j \in S : j <= Len(mem.log)
      BY <1>1, <2>2
    <3>3. Highest(S) \in S \cup {0} /\ \A m \in S \cup {0} : m <= Highest(S)
      BY <1>1, <3>2, HighestIs
    <3> DEFINE h == Highest(S)
    <3>4. h \in S \cup {0} /\ \A m \in S \cup {0} : m <= h
      BY <3>3
    <3> HIDE DEF h
    <3>5. h = i
      <4>1. i \in 1..Len(mem.log) /\ i \in S /\ i \in S \cup {0}
        BY <2>2, <3>1
      <4>2. i <= h /\ (h \in S => h <= i)
        BY <3>1, <3>4, <4>1
      <4>3. h \in Nat /\ (h \in S \/ h = 0)
        BY <3>2, <3>4
      <4>4. QED BY <1>1, <4>1, <4>2, <4>3
    <3>6. Highest(S) = i
      BY <3>5 DEF h
    <3>7. QED BY <2>4, <3>1, <3>6 DEF Kind, Absent, S
  <2>5. QED BY <2>3, <2>4
<1>3. mem.conv \in Terminal =>
        mem.log # <<>> /\ Last(mem.log).payload = <<"ConversationTerminal", mem.conv>>
  BY <1>1 DEF Agreed, Closes, Last
<1>4. QED BY <1>2, <1>3 DEF EventsExplainTables

LEMMA PositionsFollow ==
  ASSUME IInv
  PROVE  PositionsFollowEvents
<1> DEFINE queued == {t \in Turns : mem.turn[t].state # "absent"}
<1>1. /\ Agreed(mem) /\ DOMAIN mem.log = 1..Len(mem.log) /\ Len(mem.log) \in Nat
      /\ Turns = 1..MaxTurns /\ MaxTurns \in Nat
  BY MemFacts
<1>2. \A t \in Turns : t \in queued <=> ~Absent(mem, t)
  BY DEF Absent
<1>3. \A t \in queued : mem.turn[t].position = t
  BY <1>1, <1>2 DEF Agreed, Numbered
<1>4. queued \subseteq Turns
  OBVIOUS
<1>5. \A t \in queued : \A u \in 1..(t - 1) : u \in queued
  <2>1. ASSUME NEW t \in queued, NEW u \in 1..(t - 1)
        PROVE  u \in queued
    <3>1. u \in Turns
      BY <1>1
    <3>2. QED BY <1>1, <1>2, <2>1, <3>1 DEF Agreed, Numbered
  <2>2. QED BY <2>1
<1>6. queued = 1..Cardinality(queued)
  <2> HIDE DEF queued
  <2>1. queued \subseteq Nat /\ \A t \in queued : t <= MaxTurns /\ t >= 1
    BY <1>1, <1>4
  <2>2. Highest(queued) \in queued \cup {0} /\ \A m \in queued \cup {0} : m <= Highest(queued)
    BY <1>1, <2>1, HighestIs
  <2> DEFINE h == Highest(queued)
  <2>3. h \in queued \cup {0} /\ \A m \in queued \cup {0} : m <= h
    BY <2>2
  <2> HIDE DEF h
  <2>4. h \in Nat /\ queued = 1..h
    <3>1. h \in Nat
      BY <2>1, <2>3
    <3>2. \A t \in queued : t \in 1..h
      BY <2>1, <2>3, <3>1
    <3>3. \A t \in 1..h : t \in queued
      <4>1. SUFFICES ASSUME NEW t \in 1..h
                     PROVE  t \in queued
        OBVIOUS
      <4>2. h \in queued
        BY <2>3, <3>1
      <4>3. t = h \/ t \in 1..(h - 1)
        BY <3>1
      <4>4. QED BY <1>5, <4>2, <4>3
    <3>4. QED BY <3>1, <3>2, <3>3
  <2>5. Cardinality(1..h) = h
    BY <2>4, FS_Interval
  <2>6. QED BY <2>4, <2>5
<1>7. {mem.turn[t].position : t \in queued} = queued
  BY <1>3
<1>8. \A t \in queued : QueuedAt(mem, t, QueuedBy(t))
  <2>1. SUFFICES ASSUME NEW t \in queued
                 PROVE  QueuedAt(mem, t, QueuedBy(t))
    OBVIOUS
  <2>2. \E i \in DOMAIN mem.log : mem.log[i].payload = <<"TurnQueued", t>>
    BY <1>1, <1>2, <1>4 DEF Agreed, InOrder, QueuedAt
  <2> DEFINE dom == DOMAIN mem.log
  <2>3. QueuedBy(t) = CHOOSE i \in dom : mem.log[i].payload = <<"TurnQueued", t>>
    BY DEF QueuedBy
  <2> HIDE DEF dom
  <2>4. \E i \in dom : mem.log[i].payload = <<"TurnQueued", t>>
    BY <2>2 DEF dom
  <2>5. QueuedBy(t) \in dom /\ mem.log[QueuedBy(t)].payload = <<"TurnQueued", t>>
    BY <2>3, <2>4
  <2>6. QED BY <1>1, <2>5 DEF QueuedAt, dom
<1>9. \A s, t \in queued : s < t <=> QueuedBy(s) < QueuedBy(t)
  <2>1. SUFFICES ASSUME NEW s \in queued, NEW t \in queued
                 PROVE  s < t <=> QueuedBy(s) < QueuedBy(t)
    OBVIOUS
  <2>2. \A u, v \in queued : QueuedBy(u) < QueuedBy(v) => u < v
    <3>1. ASSUME NEW u \in queued, NEW v \in queued, QueuedBy(u) < QueuedBy(v)
          PROVE  u < v
      <4>1. QueuedAt(mem, u, QueuedBy(u)) /\ QueuedAt(mem, v, QueuedBy(v))
        BY <1>8
      <4>2. QueuedBy(u) \in 1..Len(mem.log) /\ QueuedBy(v) \in 1..Len(mem.log)
        BY <4>1 DEF QueuedAt
      <4>3. QED BY <1>1, <1>4, <3>1, <4>1, <4>2 DEF Agreed, InOrder
    <3>2. QED BY <3>1
  <2>3. QueuedBy(s) \in Nat /\ QueuedBy(t) \in Nat
    BY <1>1, <1>8 DEF QueuedAt
  <2>4. QueuedBy(s) = QueuedBy(t) => s = t
    <3>1. /\ mem.log[QueuedBy(s)].payload = <<"TurnQueued", s>>
          /\ mem.log[QueuedBy(t)].payload = <<"TurnQueued", t>>
      BY <1>8 DEF QueuedAt
    <3>2. QED BY <3>1
  <2>5. s \in Nat /\ t \in Nat
    BY <1>1, <1>4
  <2> HIDE DEF queued
  <2>6. QueuedBy(s) < QueuedBy(t) => s < t
    BY <2>2
  <2>7. QueuedBy(t) < QueuedBy(s) => t < s
    BY <2>2
  <2>8. QED BY <2>3, <2>4, <2>5, <2>6, <2>7
<1>10. \A s, t \in queued :
         (mem.turn[s].position < mem.turn[t].position <=> QueuedBy(s) < QueuedBy(t))
  BY <1>3, <1>9
<1>11. {mem.turn[t].position : t \in queued} = 1..Cardinality(queued)
  BY <1>6, <1>7
<1>12. QED BY <1>10, <1>11, Zenon DEF PositionsFollowEvents

LEMMA IdentityIsOne ==
  ASSUME IInv
  PROVE  OneIdentity
BY MemFacts DEF Agreed, Identified, Kind, OneIdentity, Initializations

(* What the tables say and what the timeline tells agree: the last event   *)
(* of each turn names its state, positions follow the order of the events, *)
(* and every init line names the identity of the operation, over any       *)
(* number of failed COMMITs and crashes.                                   *)
THEOREM TablesAlwaysAgree == Spec => []TablesAgree
<1>1. IInv => TablesAgree
  BY EventsExplain, PositionsFollow, IdentityIsOne DEF IInv, TablesAgree
<1>2. QED BY <1>1, Inductive, PTL
----------------------------------------------------------------------------
(* What clients hold, when no daemon stops inside an open transaction *)

LEMMA BeginsFollows ==
  ASSUME NEW d, NEW e, Follows(d, e), Agreed(d), NEW s, Len(s) \in Nat, Begins(s, d.log)
  PROVE  Begins(s, e.log)
<1>1. CASE e.log = d.log
  BY <1>1
<1>2. CASE Grows(d, e)
  <2>1. Len(d.log) \in Nat /\ Len(e.log) \in Nat
    BY LogType DEF Follows, Agreed, Numbered
  <2>2. Len(s) <= Len(d.log) /\ Len(d.log) < Len(e.log)
    BY <1>2 DEF Begins, Grows
  <2>3. \A i \in 1..Len(s) : i \in 1..Len(d.log)
    BY <2>1, <2>2
  <2>4. QED BY <1>2, <2>1, <2>2, <2>3 DEF Begins, Grows
<1>3. QED BY <1>1, <1>2 DEF Follows

(* The cursor of a client counts its events, so a read completes them.     *)
LEMMA SnapshotCompletes ==
  ASSUME IInv, NEW c \in Clients, Begins(received[c], mem.log)
  PROVE  received[c] \o Snapshot(c).events = mem.log
<1>1. /\ received[c] \in Seq(Events) /\ mem.log \in Seq(Events)
      /\ Len(received[c]) \in Nat /\ Len(mem.log) \in Nat /\ Numbered(mem)
  BY MemFacts DEF Agreed, IInv, TypeOK
<1>2. /\ Len(received[c]) <= Len(mem.log)
      /\ \A i \in 1..Len(received[c]) : received[c][i] = mem.log[i]
  BY DEF Begins
<1>3. Cursor(c) = Len(received[c])
  <2>1. CASE received[c] = <<>>
    BY <2>1 DEF Cursor
  <2>2. CASE received[c] # <<>>
    <3>1. Len(received[c]) \in 1..Len(received[c]) /\ Len(received[c]) \in 1..Len(mem.log)
      BY <1>1, <1>2, <2>2
    <3>2. received[c][Len(received[c])].seq = Len(received[c])
      BY <1>1, <1>2, <3>1 DEF Numbered
    <3>3. QED BY <2>2, <3>2 DEF Cursor, Last
  <2>3. QED BY <2>1, <2>2
<1>4. Snapshot(c).events = SubSeq(mem.log, Len(received[c]) + 1, Len(mem.log))
  <2>1. Len(received[c]) \in 0..Len(mem.log)
    BY <1>1, <1>2
  <2>2. Snapshot(c).events = ListAfter(mem, Cursor(c))
    BY DEF Snapshot
  <2>3. QED BY <1>1, <1>3, <2>1, <2>2, ListAfterIs
<1>5. received[c] \o SubSeq(mem.log, Len(received[c]) + 1, Len(mem.log)) = mem.log
  BY <1>1, RestCompletes
<1>6. QED BY <1>4, <1>5

LEMMA BeginsItself ==
  ASSUME NEW d \in Wide
  PROVE  Begins(d.log, d.log)
BY LogType DEF Begins

(* A write reaches a client that holds less than all of it later.          *)
LEMMA WrittenHolds ==
  ASSUME IInv, Clientele, Follows(mem, mem'), received' = received,
         NEW c \in Clients, \/ call'[c] = call[c] /\ reply'[c] = reply[c]
                            \/ call'[c] = "idle"
  PROVE  Holds(c)'
<1>1. /\ Begins(received[c], mem.log)
      /\ call[c] = "stopped" => received[c] = mem.log /\ mem.conv \in Terminal
      /\ call[c] = "answered" =>
           /\ Begins(received[c] \o reply[c].events, mem.log)
           /\ reply[c].ended => /\ received[c] \o reply[c].events = mem.log
                                /\ mem.conv \in Terminal
  BY DEF Clientele, Holds
<1>2. /\ received[c] \in Seq(Events) /\ reply[c].events \in Seq(Events)
      /\ Len(received[c]) \in Nat /\ Agreed(mem)
  BY DEF IInv, TypeOK, Replies
<1>3. Len(received[c] \o reply[c].events) \in Nat
  <2>1. \A a, b \in Seq(Events) : Len(a \o b) \in Nat
    OBVIOUS
  <2>2. QED BY <1>2, <2>1, Zenon
<1>4. Begins(received[c], mem'.log)
  BY <1>1, <1>2, BeginsFollows
<1>5. call[c] = "answered" => Begins(received[c] \o reply[c].events, mem'.log)
  <2> DEFINE s == received[c] \o reply[c].events
  <2>1. Len(s) \in Nat /\ (call[c] = "answered" => Begins(s, mem.log))
    BY <1>1, <1>3
  <2> HIDE DEF s
  <2>2. call[c] = "answered" => Begins(s, mem'.log)
    BY <1>2, <2>1, BeginsFollows
  <2>3. QED BY <2>2 DEF s
<1>6. mem.conv \in Terminal => mem' = mem
  BY DEF Follows
<1>7. CASE call'[c] = call[c] /\ reply'[c] = reply[c]
  BY <1>1, <1>4, <1>5, <1>6, <1>7 DEF Holds
<1>8. CASE call'[c] = "idle"
  BY <1>4, <1>8 DEF Holds
<1>9. QED BY <1>7, <1>8

LEMMA ClienteleStep ==
  ASSUME ~OpenCrash, IInv, Clientele, [Next]_vars
  PROVE  Clientele'
<1>1. StoreInv /\ ClientsOK
  BY Parts
<1>2. ClientNext \/ Written \/ Crash
  BY <1>1, NextKeeps
<1>3. SUFFICES ASSUME NEW c \in Clients
               PROVE  Holds(c)'
  BY DEF Clientele
<1>4. CASE Written
  BY <1>4, WrittenHolds DEF Written
<1>5. CASE Crash
  <2>1. Follows(mem, mem')
    BY <1>1, <1>5, CrashKeeps
  <2>2. /\ call' = [k \in Clients |-> IF call[k] = "stopped" THEN "stopped" ELSE "idle"]
        /\ reply' = [k \in Clients |-> NoReply] /\ received' = received
    BY <1>5 DEF Crash
  <2>3. CASE call[c] = "stopped"
    <3>1. call'[c] = "stopped" /\ mem' = mem
      BY <2>1, <2>2, <2>3 DEF Clientele, Holds, Follows
    <3>2. QED BY <2>2, <2>3, <3>1 DEF Clientele, Holds
  <2>4. CASE call[c] # "stopped"
    BY <2>1, <2>2, <2>4, WrittenHolds
  <2>5. QED BY <2>3, <2>4
<1>6. CASE ClientNext
  <2>1. mem' = mem
    BY <1>1, <1>6, ClientKeeps
  <2>2. PICK k \in Clients :
          \/ Ask(k) \/ WaitAnswers(k) \/ WaitTimesOut(k) \/ WaitRefused(k)
          \/ Receive(k) \/ Disconnect(k)
    BY <1>6 DEF ClientNext
  <2>3. /\ Begins(received[c], mem.log)
        /\ call[c] = "stopped" => received[c] = mem.log /\ mem.conv \in Terminal
        /\ call[c] = "answered" =>
             /\ Begins(received[c] \o reply[c].events, mem.log)
             /\ reply[c].ended => /\ received[c] \o reply[c].events = mem.log
                                  /\ mem.conv \in Terminal
    BY DEF Clientele, Holds
  <2>4. Follows(mem, mem')
    BY <2>1 DEF Follows, IInv
  <2>5. CASE k # c
    <3>1. call'[c] = call[c] /\ reply'[c] = reply[c] /\ received'[c] = received[c]
      BY <1>1, <2>2, <2>5
      DEF Ask, WaitAnswers, WaitTimesOut, WaitRefused, Receive, Disconnect, Answer, ClientsOK
    <3>2. QED BY <2>1, <2>3, <3>1 DEF Holds
  <2>6. CASE k = c /\ (Ask(c) \/ WaitRefused(c) \/ Disconnect(c))
    <3>1. call'[c] \in {"waiting", "idle"} /\ received' = received
      BY <1>1, <2>6 DEF Ask, WaitRefused, Disconnect, ClientsOK
    <3>2. QED BY <2>1, <2>3, <3>1 DEF Holds
  <2>7. CASE k = c /\ (WaitAnswers(c) \/ WaitTimesOut(c))
    <3>1. call'[c] = "answered" /\ reply'[c] = Snapshot(c) /\ received' = received
      BY <1>1, <2>7 DEF WaitAnswers, WaitTimesOut, Answer, ClientsOK
    <3>2. received[c] \o Snapshot(c).events = mem.log
      BY <2>3, SnapshotCompletes
    <3>3. Snapshot(c).ended => mem.conv \in Terminal
      BY DEF Snapshot
    <3>4. Begins(mem.log, mem.log)
      BY MemFacts, BeginsItself
    <3>5. QED BY <2>1, <2>3, <3>1, <3>2, <3>3, <3>4 DEF Holds
  <2>8. CASE k = c /\ Receive(c)
    <3>1. /\ received'[c] = received[c] \o reply[c].events /\ call[c] = "answered"
          /\ call'[c] = IF reply[c].ended THEN "stopped" ELSE "idle"
      BY <1>1, <2>8 DEF Receive, ClientsOK
    <3>2. QED BY <2>1, <2>3, <3>1 DEF Holds
  <2>9. QED BY <2>2, <2>5, <2>6, <2>7, <2>8
<1>7. QED BY <1>2, <1>4, <1>5, <1>6

LEMMA ClienteleInit == Init => Clientele
<1> SUFFICES ASSUME Init, NEW c \in Clients
             PROVE  Holds(c)
  BY DEF Clientele
<1>1. call[c] = "idle" /\ received[c] = <<>> /\ mem.log = <<>>
  BY DEF Init, NoTables
<1>2. QED BY <1>1 DEF Holds, Begins

LEMMA ClienteleAlways == ASSUME ~OpenCrash PROVE Spec => []Clientele
<1>1. IInv /\ Clientele /\ [Next]_vars => Clientele'
  BY ClienteleStep
<1>2. QED BY <1>1, ClienteleInit, Inductive, PTL DEF Spec

(* A client that stopped has every event of the conversation, however      *)
(* often it was disconnected, however many COMMITs failed, and over every  *)
(* crash that does not stop a daemon inside an open transaction.           *)
THEOREM StoppedHasEverything == ASSUME ~OpenCrash PROVE Spec => []StoppedHasAll
<1>1. Clientele => StoppedHasAll
  BY DEF Clientele, Holds, StoppedHasAll
<1>2. QED BY <1>1, ClienteleAlways, PTL

(* The timeline keeps the promise of CursorStream: a transaction extends   *)
(* it, and what a client receives is delivered up to some snapshot.        *)
LEMMA WrittenExtends ==
  ASSUME IInv, IInv', Follows(mem, mem'), received' = received
  PROVE  [Promise!StreamNext]_(Promise!streamVars)
<1>1. CASE mem'.log = mem.log
  BY <1>1 DEF Promise!streamVars
<1>2. CASE Grows(mem, mem') /\ mem.conv \notin Terminal
  <2>1. /\ Agreed(mem) /\ DOMAIN mem.log = 1..Len(mem.log) /\ Len(mem.log) \in Nat
        /\ mem.log \in Seq(Events)
    BY MemFacts
  <2>2. /\ Agreed(mem') /\ mem' \in Tables /\ mem' \in Wide
    BY DEF Follows, IInv, TypeOK, Agreed, Numbered
  <2>3. mem'.log \in Seq(Events) /\ DOMAIN mem'.log = 1..Len(mem'.log) /\ Len(mem'.log) \in Nat
    BY <2>2, LogType DEF Tables
  <2>4. \A e \in FinalEvents : e.payload[1] = "ConversationTerminal"
    BY DEF FinalEvents
  <2>5. ~Promise!Closed
    BY <1>2, <2>1, <2>4 DEF Promise!Closed, Agreed, Closes, Kind
  <2>6. \A i \in DOMAIN mem'.log : mem'.log[i] \in FinalEvents => i = Len(mem'.log)
    BY <2>2, <2>3, <2>4 DEF Agreed, Closes, Kind
  <2>7. Len(mem.log) < Len(mem'.log) /\ \A i \in 1..Len(mem.log) : mem'.log[i] = mem.log[i]
    BY <1>2 DEF Grows
  <2>8. Promise!Upto(mem'.log, Len(mem.log)) = mem.log
    <3> DEFINE l == mem.log
    <3>1. l = [i \in 1..Len(l) |-> l[i]] /\ \A i \in 1..Len(l) : mem'.log[i] = l[i]
      BY <2>1, <2>7
    <3>2. Promise!Upto(mem'.log, Len(l)) = [i \in 1..Len(l) |-> mem'.log[i]]
      BY DEF Promise!Upto
    <3> HIDE DEF l
    <3>3. Promise!Upto(mem'.log, Len(l)) = l
      BY <3>1, <3>2
    <3>4. QED BY <3>3 DEF l
  <2>9. Promise!Extend
    BY <2>3, <2>5, <2>6, <2>7, <2>8 DEF Promise!Extend
  <2>10. QED BY <2>9 DEF Promise!StreamNext
<1>3. QED BY <1>1, <1>2 DEF Follows

LEMMA ReceivedIsDelivered ==
  ASSUME IInv, Clientele, NEW c \in Clients, Receive(c)
  PROVE  [Promise!StreamNext]_(Promise!streamVars)
<1> DEFINE s == received[c] \o reply[c].events
<1>1. /\ Begins(received[c], mem.log) /\ Begins(s, mem.log)
      /\ received' = [received EXCEPT ![c] = s] /\ mem' = mem
  BY DEF Receive, Clientele, Holds
<1>2. received[c] \in Seq(Events) /\ reply[c].events \in Seq(Events)
  BY DEF IInv, TypeOK, Replies
<1>3. s \in Seq(Events) /\ Len(received[c]) \in Nat /\ Len(received[c]) <= Len(s)
  <2>1. \A a, b \in Seq(Events) :
          a \o b \in Seq(Events) /\ Len(a) \in Nat /\ Len(a) <= Len(a \o b)
    OBVIOUS
  <2>2. QED BY <1>2, <2>1, Zenon
<1> HIDE DEF s
<1>4. Len(s) \in Len(received[c])..Len(mem.log)
  BY <1>1, <1>3, MemFacts DEF Begins
<1>5. Promise!Upto(mem.log, Len(s)) = s
  <2>1. s = [i \in 1..Len(s) |-> s[i]] /\ \A i \in 1..Len(s) : mem.log[i] = s[i]
    BY <1>1, <1>3 DEF Begins
  <2>2. Promise!Upto(mem.log, Len(s)) = [i \in 1..Len(s) |-> mem.log[i]]
    BY DEF Promise!Upto
  <2>3. QED BY <2>1, <2>2
<1>6. Promise!Deliver(c)
  BY <1>1, <1>4, <1>5 DEF Promise!Deliver
<1>7. QED BY <1>6 DEF Promise!StreamNext

LEMMA StepIsStreamed ==
  ASSUME ~OpenCrash, IInv, IInv', Clientele, [Next]_vars
  PROVE  [Promise!StreamNext]_(Promise!streamVars)
<1>1. StoreInv /\ ClientsOK
  BY Parts
<1>2. ClientNext \/ Written \/ Crash
  BY <1>1, NextKeeps
<1>3. CASE Written
  BY <1>3, WrittenExtends DEF Written
<1>4. CASE Crash
  <2>1. Follows(mem, mem') /\ received' = received
    BY <1>1, <1>4, CrashKeeps DEF Crash
  <2>2. QED BY <2>1, WrittenExtends
<1>5. CASE ClientNext
  <2>1. mem' = mem
    BY <1>1, <1>5, ClientKeeps
  <2>2. PICK c \in Clients :
          \/ Ask(c) \/ WaitAnswers(c) \/ WaitTimesOut(c) \/ WaitRefused(c)
          \/ Receive(c) \/ Disconnect(c)
    BY <1>5 DEF ClientNext
  <2>3. CASE Receive(c)
    BY <2>3, ReceivedIsDelivered
  <2>4. CASE ~Receive(c)
    <3>1. received' = received
      BY <2>2, <2>4 DEF Ask, WaitAnswers, WaitTimesOut, WaitRefused, Disconnect, Answer
    <3>2. QED BY <2>1, <3>1 DEF Promise!streamVars
  <2>5. QED BY <2>3, <2>4
<1>6. QED BY <1>2, <1>3, <1>4, <1>5

(* Whatever transactions fail, connections break and daemons stop outside  *)
(* an open transaction, the timeline and its clients implement the promise *)
(* of CursorStream: no client misses, repeats or reorders an event.        *)
THEOREM TimelineImplementsCursorStream ==
  ASSUME ~OpenCrash PROVE Spec => ImplementsCursorStream
<1>1. Init => Promise!StreamInit
  BY DEF Init, NoTables, Promise!StreamInit
<1>2. IInv /\ IInv' /\ Clientele /\ [Next]_vars => [Promise!StreamNext]_(Promise!streamVars)
  BY StepIsStreamed
<1>3. QED
  BY <1>1, <1>2, Inductive, ClienteleAlways, PTL
  DEF Spec, ImplementsCursorStream, Promise!StreamSpec
=============================================================================
