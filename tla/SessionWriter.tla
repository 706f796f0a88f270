--------------------------- MODULE SessionWriter ---------------------------
(***************************************************************************)
(* What the operator promises about a Claude session: an operation writes  *)
(* to a session only while it holds it, gives it back only when it has     *)
(* stopped writing, and an operation that a restart left unclassified      *)
(* never gives it back.  One-shot operations and live conversations both   *)
(* implement it; nothing here names a thread, a table or a process.        *)
(***************************************************************************)
CONSTANTS Operations, Sessions, None

VARIABLES
  holder,    (* the operation that holds each session, or None             *)
  phase,     (* "fresh", "live", "settled" or "unclassified"               *)
  writing    (* the operations whose child may write                       *)

vars == <<holder, phase, writing>>

Init ==
  /\ holder = [s \in Sessions |-> None]
  /\ phase = [o \in Operations |-> "fresh"]
  /\ writing = {}

(* persist_admission, persist_conversation_start: a free session only. *)
Acquire(o, s) ==
  /\ phase[o] = "fresh" /\ holder[s] = None
  /\ holder' = [holder EXCEPT ![s] = o]
  /\ phase' = [phase EXCEPT ![o] = "live"]
  /\ UNCHANGED writing

(* The spawn of the direct child. *)
BeginWriting(o) ==
  /\ phase[o] = "live" /\ o \notin writing
  /\ writing' = writing \cup {o}
  /\ UNCHANGED <<holder, phase>>

(* The exit of the direct child. *)
StopWriting(o) ==
  /\ o \in writing
  /\ writing' = writing \ {o}
  /\ UNCHANGED <<holder, phase>>

(* A terminal transition that releases the claim. *)
Settle(o) ==
  /\ phase[o] = "live" /\ o \notin writing
  /\ phase' = [phase EXCEPT ![o] = "settled"]
  /\ holder' = [s \in Sessions |-> IF holder[s] = o THEN None ELSE holder[s]]
  /\ UNCHANGED writing

(* Operations are classified without proof of the exit of their child: by  *)
(* recovery, all at once, or by a live conversation, one alone.            *)
Abandon(lost) ==
  /\ \A o \in lost : phase[o] = "live"
  /\ phase' = [o \in Operations |-> IF o \in lost THEN "unclassified" ELSE phase[o]]
  /\ UNCHANGED <<holder, writing>>

Next ==
  \/ \E o \in Operations : \/ \E s \in Sessions : Acquire(o, s)
                           \/ BeginWriting(o) \/ StopWriting(o) \/ Settle(o)
  \/ \E lost \in SUBSET Operations : Abandon(lost)

Spec == Init /\ [][Next]_vars

(* The sessions an operation holds *)
HeldBy(o) == {s \in Sessions : holder[s] = o}

(* No session is written by two operations: a writer holds a session, and  *)
(* a session has one holder.                                               *)
OneWriter ==
  \A o \in writing, p \in writing : HeldBy(o) # {} /\ (HeldBy(o) \cap HeldBy(p) # {} => o = p)

============================================================================
