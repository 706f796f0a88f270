-------------------------- MODULE Promises_proofs --------------------------
(***************************************************************************)
(* What the abstract specifications promise, for every value of their      *)
(* constants: whatever implements one of them has the property proved here.*)
(***************************************************************************)
EXTENDS Naturals, Sequences, TLAPS

CONSTANTS Operations, Sessions, None    (* of SessionWriter                 *)
VARIABLES holder, phase, writing

CONSTANTS Clients, Items, Final         (* of CursorStream                  *)
VARIABLES log, received

CONSTANT Turns                          (* of LiveObservations              *)
VARIABLE observations

W == INSTANCE SessionWriter
S == INSTANCE CursorStream
O == INSTANCE LiveObservations

----------------------------------------------------------------------------
(* SessionWriter: one writer for each session *)

WriterTypes ==
  /\ holder \in [Sessions -> Operations \cup {None}]
  /\ phase \in [Operations -> {"fresh", "live", "settled", "unclassified"}]
  /\ writing \subseteq Operations

(* An operation holds a session from its admission until it settles, and   *)
(* only such an operation writes.                                          *)
HolderInv ==
  /\ \A o \in Operations : phase[o] \in {"live", "unclassified"} => W!HeldBy(o) # {}
  /\ \A o \in writing : phase[o] \in {"live", "unclassified"}

WriterInv == WriterTypes /\ HolderInv

(* The typing and the possession of a session by every writer are inductive. *)
LEMMA WriterNextKeeps ==
  ASSUME None \notin Operations, WriterInv, [W!Next]_(W!vars)
  PROVE  WriterInv'
<1> USE DEF WriterInv, WriterTypes, HolderInv, W!HeldBy
<1>1. CASE UNCHANGED W!vars
  BY <1>1 DEF W!vars
<1>2. ASSUME NEW o \in Operations, NEW s \in Sessions, W!Acquire(o, s)
      PROVE  WriterInv'
  <2>1. WriterTypes'
    BY <1>2 DEF W!Acquire
  <2>2. s \in W!HeldBy(o)'
    BY <1>2 DEF W!Acquire
  <2>3. \A p \in Operations \ {o} : W!HeldBy(p) \subseteq W!HeldBy(p)' /\ phase'[p] = phase[p]
    BY <1>2 DEF W!Acquire
  <2>4. HolderInv'
    BY <1>2, <2>2, <2>3 DEF W!Acquire
  <2>5. QED BY <2>1, <2>4
<1>3. ASSUME NEW o \in Operations, W!BeginWriting(o) \/ W!StopWriting(o)
      PROVE  WriterInv'
  BY <1>3 DEF W!BeginWriting, W!StopWriting
<1>4. ASSUME NEW o \in Operations, W!Settle(o)
      PROVE  WriterInv'
  <2>1. WriterTypes'
    BY <1>4 DEF W!Settle
  <2>2. \A p \in Operations \ {o} : W!HeldBy(p) \subseteq W!HeldBy(p)' /\ phase'[p] = phase[p]
    BY <1>4 DEF W!Settle
  <2>3. HolderInv'
    BY <1>4, <2>2 DEF W!Settle
  <2>4. QED BY <2>1, <2>3
<1>5. ASSUME NEW lost \in SUBSET Operations, W!Abandon(lost)
      PROVE  WriterInv'
  BY <1>5 DEF W!Abandon
<1>6. QED
  BY <1>1, <1>2, <1>3, <1>4, <1>5 DEF W!Next

(* No two writers hold the same session, and every writer holds one. *)
THEOREM PromiseMeansOneWriter ==
  ASSUME None \notin Operations
  PROVE  W!Spec => []W!OneWriter
<1>1. W!Init => WriterInv
  BY DEF W!Init, WriterInv, WriterTypes, HolderInv
<1>2. WriterInv /\ [W!Next]_(W!vars) => WriterInv'
  BY WriterNextKeeps
<1>3. WriterInv => W!OneWriter
  BY DEF WriterInv, WriterTypes, HolderInv, W!OneWriter, W!HeldBy
<1>4. QED
  BY <1>1, <1>2, <1>3, PTL DEF W!Spec

----------------------------------------------------------------------------
(* CursorStream: what a client holds *)

(* A final item is only ever the last one.                                 *)
FinalEnds == \A i \in DOMAIN log : log[i] \in Final => i = Len(log)

StreamInv == S!StreamTypeOK /\ FinalEnds /\ S!HoldsPrefix

(* The first items of a sequence are a sequence of that length.            *)
LEMMA UptoIsSeq ==
  ASSUME NEW E, NEW s \in Seq(E), NEW n \in 0..Len(s)
  PROVE  /\ S!Upto(s, n) \in Seq(E)
         /\ Len(S!Upto(s, n)) = n
         /\ \A i \in 1..n : S!Upto(s, n)[i] = s[i]
BY DEF S!Upto

(* An extension keeps every prefix of what was there.                      *)
LEMMA ExtendKeepsPrefixes ==
  ASSUME S!StreamTypeOK, S!Extend, NEW n \in 0..Len(log)
  PROVE  S!Upto(log', n) = S!Upto(log, n)
<1>1. Len(log) \in Nat /\ Len(log') \in Nat
  BY DEF S!StreamTypeOK, S!Extend
<1>2. \A i \in 1..Len(log) : log'[i] = log[i]
  <2>1. SUFFICES ASSUME NEW i \in 1..Len(log) PROVE log'[i] = log[i]
    OBVIOUS
  <2>2. S!Upto(log', Len(log))[i] = log'[i]
    BY DEF S!Upto
  <2>3. QED BY <2>2 DEF S!Extend
<1>3. QED BY <1>1, <1>2 DEF S!Upto

(* Appending leaves every client with a prefix.                            *)
LEMMA ExtendKeeps ==
  ASSUME StreamInv, S!Extend
  PROVE  StreamInv'
<1> USE DEF StreamInv
<1>1. S!StreamTypeOK'
  BY DEF S!StreamTypeOK, S!Extend
<1>2. FinalEnds'
  BY DEF FinalEnds, S!Extend
<1>3. S!HoldsPrefix'
  <2>1. SUFFICES ASSUME NEW c \in Clients
                 PROVE  /\ Len(received[c]) <= Len(log')
                        /\ received[c] = S!Upto(log', Len(received[c]))
    BY DEF S!HoldsPrefix, S!Extend
  <2>2. received[c] \in Seq(Items) /\ Len(received[c]) \in Nat /\ Len(log) \in Nat
    BY DEF S!StreamTypeOK
  <2>3. Len(received[c]) <= Len(log) /\ received[c] = S!Upto(log, Len(received[c]))
    BY DEF S!HoldsPrefix
  <2>4. Len(received[c]) \in 0..Len(log)
    BY <2>2, <2>3
  <2>5. S!Upto(log', Len(received[c])) = S!Upto(log, Len(received[c]))
    BY <2>4, ExtendKeepsPrefixes
  <2>6. Len(log) < Len(log') /\ Len(log') \in Nat
    BY <1>1 DEF S!Extend, S!StreamTypeOK
  <2>7. QED BY <2>2, <2>3, <2>5, <2>6
<1>4. QED BY <1>1, <1>2, <1>3

(* A delivery gives its client a prefix, and leaves the others theirs.     *)
LEMMA DeliverKeeps ==
  ASSUME StreamInv, NEW c \in Clients, S!Deliver(c)
  PROVE  StreamInv'
<1> USE DEF StreamInv
<1>1. PICK n \in Len(received[c])..Len(log) :
        received' = [received EXCEPT ![c] = S!Upto(log, n)]
  BY DEF S!Deliver
<1>2. log' = log
  BY DEF S!Deliver
<1>3. received[c] \in Seq(Items) /\ log \in Seq(Items)
  BY DEF S!StreamTypeOK
<1>4. n \in 0..Len(log)
  BY <1>3
<1>5. S!Upto(log, n) \in Seq(Items) /\ Len(S!Upto(log, n)) = n
  BY <1>3, <1>4, UptoIsSeq
<1>6. S!StreamTypeOK'
  BY <1>1, <1>2, <1>5 DEF S!StreamTypeOK
<1>7. FinalEnds'
  BY <1>2 DEF FinalEnds
<1>8. S!HoldsPrefix'
  <2>1. SUFFICES ASSUME NEW d \in Clients
                 PROVE  /\ Len(received'[d]) <= Len(log)
                        /\ received'[d] = S!Upto(log, Len(received'[d]))
    BY <1>2 DEF S!HoldsPrefix
  <2>2. CASE d = c
    <3>1. received'[d] = S!Upto(log, n)
      BY <1>1, <2>2 DEF S!StreamTypeOK
    <3>2. QED BY <1>4, <1>5, <3>1
  <2>3. CASE d # c
    <3>1. received'[d] = received[d]
      BY <1>1, <2>3 DEF S!StreamTypeOK
    <3>2. QED BY <3>1 DEF S!HoldsPrefix
  <2>4. QED BY <2>2, <2>3
<1>9. QED BY <1>6, <1>7, <1>8

(* Whoever keeps the promise gives each client a prefix of the timeline,   *)
(* and a client that was given a final item has all of it.                 *)
THEOREM PromiseMeansPrefixes == S!StreamSpec => [](S!HoldsPrefix /\ S!FinalIsLast)
<1>1. S!StreamInit => StreamInv
  <2>1. SUFFICES ASSUME S!StreamInit PROVE StreamInv
    OBVIOUS
  <2>2. S!StreamTypeOK /\ FinalEnds
    BY <2>1 DEF S!StreamInit, S!StreamTypeOK, FinalEnds
  <2>3. S!HoldsPrefix
    <3>1. log \in Seq(Items) /\ Len(log) = 0
      BY <2>1 DEF S!StreamInit
    <3>2. S!Upto(log, Len(log)) = log
      BY <3>1 DEF S!Upto
    <3>3. SUFFICES ASSUME NEW c \in Clients
                   PROVE  Len(received[c]) <= Len(log)
                          /\ received[c] = S!Upto(log, Len(received[c]))
      BY DEF S!HoldsPrefix
    <3>4. received[c] = log
      BY <2>1 DEF S!StreamInit
    <3>5. QED BY <3>1, <3>2, <3>4
  <2>4. QED BY <2>2, <2>3 DEF StreamInv
<1>2. StreamInv /\ [S!StreamNext]_(S!streamVars) => StreamInv'
  <2>1. SUFFICES ASSUME StreamInv, [S!StreamNext]_(S!streamVars) PROVE StreamInv'
    OBVIOUS
  <2>2. CASE UNCHANGED S!streamVars
    BY <2>1, <2>2 DEF S!streamVars, StreamInv, S!StreamTypeOK, FinalEnds, S!HoldsPrefix
  <2>3. QED BY <2>1, <2>2, ExtendKeeps, DeliverKeeps DEF S!StreamNext
<1>3. StreamInv => S!HoldsPrefix /\ S!FinalIsLast
  <2>1. SUFFICES ASSUME StreamInv, NEW c \in Clients, NEW i \in DOMAIN received[c],
                        received[c][i] \in Final
                 PROVE  received[c] = log
    BY DEF S!FinalIsLast, StreamInv
  <2>2. received[c] \in Seq(Items) /\ log \in Seq(Items)
    BY <2>1 DEF StreamInv, S!StreamTypeOK
  <2>3. Len(received[c]) <= Len(log) /\ received[c] = S!Upto(log, Len(received[c]))
    BY <2>1 DEF StreamInv, S!HoldsPrefix
  <2>4. i \in 1..Len(received[c])
    BY <2>1, <2>2
  <2>5. i \in DOMAIN log /\ log[i] \in Final
    BY <2>1, <2>2, <2>3, <2>4 DEF S!Upto
  <2>6. i = Len(log)
    BY <2>1, <2>5 DEF StreamInv, FinalEnds
  <2>7. Len(received[c]) = Len(log)
    BY <2>2, <2>3, <2>4, <2>6
  <2>8. S!Upto(log, Len(log)) = log
    BY <2>2 DEF S!Upto
  <2>9. QED BY <2>3, <2>7, <2>8
<1>4. QED BY <1>1, <1>2, <1>3, PTL DEF S!StreamSpec

----------------------------------------------------------------------------
(* LiveObservations: a history that the durable turns accept *)

Kinds == O!Terminal \cup {"Initialized", "TurnQueued", "TurnStarted", "TurnAcknowledged",
                        "AssistantTextDelta", "TurnCompleted", "TurnFailed"}

OInv ==
  /\ observations \in Seq(Kinds \X (Turns \cup {O!NoTurn}))
  /\ O!InTurnOrder
  /\ O!OneAtATime
  /\ O!ToldOnce

(* What has been said after an observation is what was said before, and it. *)
LEMMA SayingAdds ==
  ASSUME OInv, NEW kind \in Kinds, NEW t \in Turns \cup {O!NoTurn}, O!Say(kind, t)
  PROVE  /\ observations' \in Seq(Kinds \X (Turns \cup {O!NoTurn}))
         /\ DOMAIN observations' = DOMAIN observations \cup {Len(observations) + 1}
         /\ Len(observations) + 1 \notin DOMAIN observations
         /\ observations'[Len(observations) + 1] = <<kind, t>>
         /\ \A i \in DOMAIN observations : observations'[i] = observations[i]
         /\ \A k, u : O!Said(k, u)' <=> O!Said(k, u) \/ (k = kind /\ u = t)
<1>1. observations \in Seq(Kinds \X (Turns \cup {O!NoTurn}))
  BY DEF OInv
<1>2. /\ observations' \in Seq(Kinds \X (Turns \cup {O!NoTurn}))
      /\ DOMAIN observations' = DOMAIN observations \cup {Len(observations) + 1}
      /\ Len(observations) + 1 \notin DOMAIN observations
      /\ observations'[Len(observations) + 1] = <<kind, t>>
      /\ \A i \in DOMAIN observations : observations'[i] = observations[i]
  BY <1>1 DEF O!Say
<1>3. ASSUME NEW k, NEW u
      PROVE  O!Said(k, u)' <=> O!Said(k, u) \/ (k = kind /\ u = t)
  <2>1. O!Said(k, u)' <=> \E i \in DOMAIN observations' : observations'[i] = <<k, u>>
    BY DEF O!Said
  <2>2. (\E i \in DOMAIN observations' : observations'[i] = <<k, u>>)
        <=> \/ \E i \in DOMAIN observations : observations[i] = <<k, u>>
            \/ <<kind, t>> = <<k, u>>
    BY <1>2
  <2>3. QED BY <2>1, <2>2 DEF O!Said
<1>4. QED BY <1>2, <1>3

(* An observation that is not one of the three that advance a turn.        *)
LEMMA NewsKeeps ==
  ASSUME OInv, NEW kind \in Kinds \ {"TurnQueued", "TurnStarted", "TurnCompleted"},
         NEW t \in Turns \cup {O!NoTurn}, O!Say(kind, t)
  PROVE  OInv'
<1>1. \A u \in Turns, k \in {"TurnQueued", "TurnStarted", "TurnCompleted"} :
        O!Said(k, u)' <=> O!Said(k, u)
  BY SayingAdds
<1>2. O!InTurnOrder' /\ O!OneAtATime'
  BY <1>1 DEF OInv, O!InTurnOrder, O!OneAtATime, O!Active
<1>3. O!ToldOnce'
  BY SayingAdds DEF OInv, O!ToldOnce
<1>4. observations' \in Seq(Kinds \X (Turns \cup {O!NoTurn}))
  BY SayingAdds
<1>5. QED BY <1>2, <1>3, <1>4 DEF OInv

(* One that does, and was not said before.                                 *)
LEMMA AdvanceIsNew ==
  ASSUME OInv, NEW kind \in Kinds, NEW t \in Turns, O!Say(kind, t), ~O!Said(kind, t)
  PROVE  O!ToldOnce'
<1>1. SUFFICES ASSUME NEW i \in DOMAIN observations', NEW j \in DOMAIN observations',
                      observations'[i] = observations'[j],
                      observations'[i][1] \in {"TurnQueued", "TurnStarted", "TurnCompleted"}
               PROVE  i = j
  BY DEF O!ToldOnce
<1>2. CASE i \in DOMAIN observations /\ j \in DOMAIN observations
  BY <1>1, <1>2, SayingAdds DEF OInv, O!ToldOnce
<1>3. CASE i \notin DOMAIN observations \/ j \notin DOMAIN observations
  <2>1. \A l \in DOMAIN observations : observations[l] # <<kind, t>>
    BY DEF O!Said
  <2>2. QED BY <1>1, <1>3, <2>1, SayingAdds
<1>4. QED BY <1>2, <1>3

LEMMA TurnsKeep ==
  ASSUME OInv, NEW t \in Turns, O!Queued(t) \/ O!Started(t) \/ O!Completed(t)
  PROVE  OInv'
<1>1. CASE O!Queued(t)
  <2>1. O!Say("TurnQueued", t) /\ ~O!Said("TurnQueued", t) /\ "TurnQueued" \in Kinds
    BY <1>1 DEF O!Queued, O!Tell, Kinds
  <2>2. \A u \in Turns : /\ O!Said("TurnStarted", u)' <=> O!Said("TurnStarted", u)
                         /\ O!Said("TurnCompleted", u)' <=> O!Said("TurnCompleted", u)
                         /\ O!Said("TurnQueued", u) => O!Said("TurnQueued", u)'
    BY <2>1, SayingAdds
  <2>3. O!InTurnOrder' /\ O!OneAtATime'
    BY <2>2 DEF OInv, O!InTurnOrder, O!OneAtATime, O!Active
  <2>4. QED BY <2>1, <2>3, SayingAdds, AdvanceIsNew DEF OInv
<1>2. CASE O!Started(t)
  <2>1. /\ O!Say("TurnStarted", t) /\ ~O!Said("TurnStarted", t) /\ "TurnStarted" \in Kinds
        /\ O!Said("TurnQueued", t) /\ \A u \in Turns : ~O!Active(u)
    BY <1>2 DEF O!Started, O!Tell, Kinds
  <2>2. \A u \in Turns : /\ O!Said("TurnStarted", u)' <=> O!Said("TurnStarted", u) \/ u = t
                         /\ O!Said("TurnCompleted", u)' <=> O!Said("TurnCompleted", u)
                         /\ O!Said("TurnQueued", u)' <=> O!Said("TurnQueued", u)
    BY <2>1, SayingAdds
  <2>3. O!InTurnOrder'
    BY <2>1, <2>2 DEF OInv, O!InTurnOrder
  <2>4. O!OneAtATime'
    BY <2>1, <2>2 DEF O!OneAtATime, O!Active
  <2>5. QED BY <2>1, <2>3, <2>4, SayingAdds, AdvanceIsNew DEF OInv
<1>3. CASE O!Completed(t)
  <2>1. /\ O!Say("TurnCompleted", t) /\ ~O!Said("TurnCompleted", t) /\ "TurnCompleted" \in Kinds
        /\ O!Said("TurnStarted", t)
    BY <1>3 DEF O!Completed, O!Active, O!Tell, Kinds
  <2>2. \A u \in Turns : /\ O!Said("TurnStarted", u)' <=> O!Said("TurnStarted", u)
                         /\ O!Said("TurnCompleted", u)' <=> O!Said("TurnCompleted", u) \/ u = t
                         /\ O!Said("TurnQueued", u)' <=> O!Said("TurnQueued", u)
    BY <2>1, SayingAdds
  <2>3. O!InTurnOrder' /\ O!OneAtATime'
    BY <2>1, <2>2 DEF OInv, O!InTurnOrder, O!OneAtATime, O!Active
  <2>4. QED BY <2>1, <2>3, SayingAdds, AdvanceIsNew DEF OInv
<1>4. QED BY <1>1, <1>2, <1>3

LEMMA ObservationsInit == O!Init => OInv
<1>1. SUFFICES ASSUME O!Init PROVE OInv
  OBVIOUS
<1>2. observations \in Seq(Kinds \X (Turns \cup {O!NoTurn})) /\ DOMAIN observations = {}
  BY <1>1 DEF O!Init
<1>3. \A kind, t : ~O!Said(kind, t)
  BY <1>2 DEF O!Said
<1>4. QED BY <1>2, <1>3 DEF OInv, O!InTurnOrder, O!OneAtATime, O!ToldOnce, O!Active

LEMMA ObservationsKeep == OInv /\ [O!Next]_observations => OInv'
<1> SUFFICES ASSUME OInv, [O!Next]_observations PROVE OInv'
  OBVIOUS
<1>1. CASE O!Initialized
  <2>1. O!Say("Initialized", O!NoTurn)
    BY <1>1 DEF O!Initialized, O!Tell
  <2>2. "Initialized" \in Kinds \ {"TurnQueued", "TurnStarted", "TurnCompleted"}
    BY DEF Kinds
  <2>3. QED BY <2>1, <2>2, NewsKeeps
<1>2. ASSUME NEW t \in Turns, O!Queued(t) \/ O!Started(t) \/ O!Completed(t) PROVE OInv'
  BY <1>2, TurnsKeep
<1>3. ASSUME NEW t \in Turns, O!Acknowledged(t) \/ O!Text(t) \/ O!TurnFailed(t) PROVE OInv'
  <2>1. PICK kind \in {"TurnAcknowledged", "AssistantTextDelta", "TurnFailed"} : O!Say(kind, t)
    BY <1>3 DEF O!Acknowledged, O!Text, O!TurnFailed, O!Tell
  <2>2. kind \in Kinds \ {"TurnQueued", "TurnStarted", "TurnCompleted"}
    BY DEF Kinds
  <2>3. QED BY <2>1, <2>2, NewsKeeps
<1>4. ASSUME NEW verdict \in O!Terminal, O!Ended(verdict) PROVE OInv'
  <2>1. O!Say(verdict, O!NoTurn)
    BY <1>4 DEF O!Ended
  <2>2. verdict \in Kinds \ {"TurnQueued", "TurnStarted", "TurnCompleted"}
    BY DEF Kinds, O!Terminal
  <2>3. QED BY <2>1, <2>2, NewsKeeps
<1>5. CASE UNCHANGED observations
  BY <1>5 DEF OInv, O!InTurnOrder, O!OneAtATime, O!ToldOnce, O!Active, O!Said
<1>6. QED BY <1>1, <1>2, <1>3, <1>4, <1>5 DEF O!Next

(* Whatever implements the promise drives every durable turn through       *)
(* queued, started, completed, in this order, each once, and never starts  *)
(* a turn before the one that is active has been completed.                *)
THEOREM PromiseDrivesTurns == O!ObservationSpec => [](O!InTurnOrder /\ O!OneAtATime /\ O!ToldOnce)
<1>1. OInv => O!InTurnOrder /\ O!OneAtATime /\ O!ToldOnce
  BY DEF OInv
<1>2. QED BY <1>1, ObservationsInit, ObservationsKeep, PTL DEF O!ObservationSpec

============================================================================
