-------------------------- MODULE LiveObservations --------------------------
(***************************************************************************)
(* What Target promises Control about one live child: the observations it  *)
(* sends, in order.  A turn is queued, then started, then answered, each   *)
(* once; one turn is active at a time; text belongs to the active turn;    *)
(* nothing follows the terminal observation, and Exited leaves no turn     *)
(* unanswered.  How the child's lines become observations is not visible.  *)
(***************************************************************************)
EXTENDS Naturals, Sequences

CONSTANT Turns     (* positions of turns                                   *)

VARIABLE observations

NoTurn   == 0
Terminal == {"Cancelled", "Exited", "Failed", "Indeterminate", "UnclassifiedWriter"}

Said(kind, t) == \E i \in DOMAIN observations : observations[i] = <<kind, t>>

Over      == \E verdict \in Terminal : Said(verdict, NoTurn)
Active(t) == Said("TurnStarted", t) /\ ~Said("TurnCompleted", t)

Failing   == \E t \in Turns : Said("TurnFailed", t)

Say(kind, t)  == observations' = Append(observations, <<kind, t>>)
Tell(kind, t) == Say(kind, t) /\ ~Over /\ ~Failing

Init == observations = <<>>

(* What may be told, and when.                                             *)
Initialized == Tell("Initialized", NoTurn)

Queued(t) == Tell("TurnQueued", t) /\ ~Said("TurnQueued", t)

Started(t) == /\ Tell("TurnStarted", t)
              /\ Said("TurnQueued", t) /\ ~Said("TurnStarted", t)
              /\ \A u \in Turns : ~Active(u)

Acknowledged(t) == /\ Tell("TurnAcknowledged", t)
                   /\ Said("TurnQueued", t) /\ ~Said("TurnCompleted", t)
                   /\ Said("Initialized", NoTurn)

Text(t) == /\ Tell("AssistantTextDelta", t)
           /\ Active(t) /\ Said("Initialized", NoTurn)

Completed(t) == /\ Tell("TurnCompleted", t)
                /\ Active(t) /\ Said("Initialized", NoTurn)

TurnFailed(t) == Tell("TurnFailed", t) /\ Active(t)

Ended(verdict) ==
  /\ Say(verdict, NoTurn)
  /\ ~Over
  /\ verdict = "Failed" => Failing
  /\ verdict = "Exited" => \A t \in Turns : Said("TurnQueued", t) => Said("TurnCompleted", t)

Next == \/ Initialized
        \/ \E t \in Turns : \/ Queued(t) \/ Started(t) \/ Acknowledged(t) \/ Text(t)
                            \/ Completed(t) \/ TurnFailed(t)
        \/ \E verdict \in Terminal : Ended(verdict)

ObservationSpec == Init /\ [][Next]_observations

----------------------------------------------------------------------------
(* Properties: what Control's durable turns need of the sequence *)

(* A turn is told to be started only after it was queued, and to be        *)
(* answered only after it was started: the durable transition exists.      *)
InTurnOrder ==
  \A t \in Turns : /\ Said("TurnStarted", t) => Said("TurnQueued", t)
                   /\ Said("TurnCompleted", t) => Said("TurnStarted", t)

(* Of two started turns one has been completed. *)
OneAtATime == \A t, u \in Turns : Active(t) /\ Active(u) => t = u

(* Started and completed are told once for each turn: a second transition  *)
(* of the durable turn is a Conflict and ends the conversation as          *)
(* Indeterminate, with its session claimed.                                *)
ToldOnce ==
  \A i, j \in DOMAIN observations :
    /\ observations[i] = observations[j]
    /\ observations[i][1] \in {"TurnQueued", "TurnStarted", "TurnCompleted"}
    => i = j

=============================================================================
