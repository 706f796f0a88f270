---------------------------- MODULE CursorStream ----------------------------
(***************************************************************************)
(* What a durable timeline promises to clients that read it by a cursor.   *)
(*                                                                         *)
(* The log only grows, and its one final item closes it.  A client passes  *)
(* the last item it has, is told what comes after it, and so always holds  *)
(* a prefix of the log, whatever was lost on the way.                      *)
(***************************************************************************)
EXTENDS Naturals, Sequences

CONSTANTS
  Clients,     (* who reads                                                *)
  Items,       (* what is written                                          *)
  Final        (* the items that end a timeline                            *)

VARIABLES
  log,         (* the timeline                                             *)
  received     (* per client: every item it was given, in order            *)

streamVars == <<log, received>>

StreamTypeOK ==
  /\ log \in Seq(Items)
  /\ received \in [Clients -> Seq(Items)]

StreamInit ==
  /\ log = <<>>
  /\ received = [c \in Clients |-> <<>>]

Upto(s, n) == [i \in 1..n |-> s[i]]

Closed == \E i \in DOMAIN log : log[i] \in Final

(* A transaction adds items at the end; nothing follows a final item.      *)
Extend ==
  /\ ~Closed
  /\ log' \in Seq(Items)
  /\ Len(log) < Len(log')
  /\ Upto(log', Len(log)) = log
  /\ \A i \in DOMAIN log' : log'[i] \in Final => i = Len(log')
  /\ UNCHANGED received

(* A client is given the items after its cursor, up to some snapshot.      *)
Deliver(c) ==
  /\ \E n \in Len(received[c])..Len(log) :
       received' = [received EXCEPT ![c] = Upto(log, n)]
  /\ UNCHANGED log

StreamNext == Extend \/ \E c \in Clients : Deliver(c)

StreamSpec == StreamInit /\ [][StreamNext]_streamVars

(* Each client holds a prefix of the timeline: nothing is missed, repeated *)
(* or reordered.                                                           *)
HoldsPrefix ==
  \A c \in Clients :
    /\ Len(received[c]) <= Len(log)
    /\ received[c] = Upto(log, Len(received[c]))

(* A client that was given a final item has the whole timeline, for ever.  *)
FinalIsLast ==
  \A c \in Clients : (\E i \in DOMAIN received[c] : received[c][i] \in Final) => received[c] = log

============================================================================
