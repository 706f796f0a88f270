----------------------- MODULE LiveConversation_proofs -----------------------
(***************************************************************************)
(* Proofs about LiveConversation, for every number of turns and every      *)
(* bound, and for exits that cannot be proven.                             *)
(***************************************************************************)
EXTENDS LiveConversation, TLAPS

(* The definitions that group variables or states, and those that name one *)
(* condition or one new value.                                             *)
USE DEF vars, durable, requests, observer, admission, input, output, stopping, env, NoFault,
        StarterUnchanged, SenderUnchanged, StopperUnchanged, WriterUnchanged, TargetUnchanged,
        ChildUnchanged, ObserverUnchanged, Modes, Admitting, Terminal, Unfinished, Writing,
        Exited, SenderAt, StopperAt, WriterListening, Publish, Removed, Incomplete,
        AdmitsTurns, Permitted, Drained, ClosesThrough, WriterStopped

----------------------------------------------------------------------------
(* Channels *)

(* The elements of a channel. *)
Carried(s) == {s[i] : i \in 1..Len(s)}

(* A sent element is the only new one. *)
LEMMA CarriedAppend ==
  ASSUME NEW S, NEW s \in Seq(S), NEW e \in S
  PROVE  Append(s, e) \in Seq(S) /\ Carried(Append(s, e)) = Carried(s) \cup {e}
<1>1. Append(s, e) \in Seq(S) /\ Len(Append(s, e)) = Len(s) + 1 /\ Len(s) \in Nat
  OBVIOUS
<1>2. \A i \in 1..Len(s) : Append(s, e)[i] = s[i]
  OBVIOUS
<1>3. Append(s, e)[Len(s) + 1] = e
  OBVIOUS
<1>4. QED BY <1>1, <1>2, <1>3 DEF Carried

(* The received element was carried, and what is left was carried too. *)
LEMMA CarriedTail ==
  ASSUME NEW S, NEW s \in Seq(S), s # <<>>
  PROVE  /\ Head(s) \in S /\ Head(s) \in Carried(s)
         /\ Tail(s) \in Seq(S) /\ Carried(Tail(s)) \subseteq Carried(s)
<1>1. Len(s) \in Nat \ {0} /\ Head(s) = s[1] /\ Tail(s) \in Seq(S) /\ Len(Tail(s)) = Len(s) - 1
  OBVIOUS
<1>2. \A i \in 1..Len(Tail(s)) : Tail(s)[i] = s[i + 1] /\ i + 1 \in 1..Len(s)
  BY <1>1
<1>3. QED BY <1>1, <1>2 DEF Carried

(* An empty channel carries nothing. *)
LEMMA CarriedNone == Carried(<<>>) = {}
  BY DEF Carried

----------------------------------------------------------------------------
(* The inductive invariant *)

(* The durable records: conversation and operation end together, an        *)
(* unfinished conversation holds its claim, and its turns were admitted    *)
(* one after the other.                                                    *)
Records ==
  /\ RecordsAgree
  /\ conv \in Admitting =>
       /\ op \in {"Accepted", "Running"} /\ claimed
       /\ \A p \in Positions : turn[p] \in {"absent", "Queued", "Started", "Completed", "Failed"}
  /\ conv # "absent" => \E n \in Positions : Admitted = 1..n
  /\ conv = "absent" => child = "none" /\ ~claimed /\ Admitted = {}
  /\ ~up \/ conv = "absent" => Fresh

(* The starter: nobody else ends the conversation before Control's         *)
(* observation thread runs, and nothing of Target exists before the child. *)
Starting ==
  /\ starter \notin {"idle", "observed"} => conv \in Admitting /\ ctl = "none"
  /\ starter \in {"persisted", "no_writer", "unproven"} => target = "none" /\ writer = "none"
  /\ starter = "persisted" => child = "none"
  /\ starter = "no_writer" => child \notin Writing
  /\ starter \in {"running", "observed"} => op # "Accepted"
  /\ starter # "idle" => permission = "none"

(* The input writer: what it holds was admitted, and it writes only with   *)
(* the permission.                                                         *)
Inputs ==
  /\ permission = "granted" => op # "Accepted"
  /\ writer = "running" => permission = "granted"
  /\ pending \subseteq Admitted
  /\ \A p \in Positions : sender[p] # "idle" => p \in Admitted
  /\ \A c \in Carried(commands) : c[1] = "turn" => c[2] \in Admitted
  /\ InputIsDurable

(* Its end: it writes position after position, and a close carries the one *)
(* position that the conversation was closed through.                      *)
Closing ==
  /\ writer = "none" => commands = <<>>
  /\ \A c \in Carried(commands) :
       /\ c[1] = "close" => c[2] = graceful /\ graceful # 0
       /\ c[1] = "cancel" => cancelled \/ target # "observing"
  /\ closeAt # 0 => closeAt = graceful
  /\ \A p \in 1..(next - 1) : phase[p] # "none"
  /\ stopper["Graceful"] = "closed" => /\ conv \notin {"absent", "Open"} /\ through # 0
                                       /\ \A p \in Admitted : p <= through
  /\ graceful # 0 => conv \notin {"absent", "Open"}
  /\ CloseCoversTurns
  /\ CloseDrainsInput

(* Target's observer: a verdict is published once, after the runtime is    *)
(* gone, and it claims an exit only when there was one.                    *)
Verdict ==
  /\ target = "none" => channel = <<>>
  /\ target = "done" => ~handle
  /\ target = "exited" => child \in Exited
  /\ target \in {"exited", "terminating"} => verdict # "none"
  /\ verdict # "none" => target \notin {"none", "observing"}
  /\ target = "terminating" => verdict # "Exited"
  /\ \A o \in Carried(channel) :
       /\ o[1] \in Verdicts => target = "done"
       /\ o[1] \in Verdicts \ {"UnclassifiedWriter"} => child \in Exited
       /\ o[1] = "Exited" => verdict = "Exited"
       /\ o[1] = "TurnFailed" => verdict = "Failed"
  /\ up /\ conv \in Admitting => \A p \in Positions : turn[p] = "Failed" => verdict = "Failed"

(* Control's observation thread: a State error that is not State's own     *)
(* finds the runtime gone.                                                 *)
Causes ==
  /\ ctl = "failing" /\ cause = "state" => "observation" \in failed \/ ~handle
  /\ ctl = "settling" /\ cause = "state" => "observation" \in failed
  /\ RefusalHasCause

IInv ==
  TypeOK /\ Records /\ Starting /\ Inputs /\ Closing /\ Verdict /\ Causes /\ WriterIsClaimed

----------------------------------------------------------------------------
(* A step that leaves the variables of a part of the invariant alone keeps *)
(* that part.                                                              *)

LEMMA RecordsStay ==
  ASSUME Records, up, conv # "absent", UNCHANGED <<conv, op, turn, claimed, up>>
  PROVE  Records'
  BY DEF Records, RecordsAgree, Admitted

LEMMA StartingStays ==
  ASSUME Starting, UNCHANGED <<starter, conv, ctl, target, writer, child, op, permission>>
  PROVE  Starting'
  BY DEF Starting

LEMMA InputsStay ==
  ASSUME Inputs, UNCHANGED <<permission, op, writer, commands, pending, turn, sender, phase>>
  PROVE  Inputs'
  BY DEF Inputs, InputIsDurable, Admitted

LEMMA ClosingStays ==
  ASSUME Closing,
         UNCHANGED <<writer, commands, graceful, cancelled, target, closeAt, next, phase,
                     stopper, conv, through, turn, inputFailed>>
  PROVE  Closing'
  BY DEF Closing, CloseCoversTurns, CloseDrainsInput, Admitted

LEMMA VerdictStays ==
  ASSUME Verdict, UNCHANGED <<target, channel, handle, child, verdict, up, conv, turn>>
  PROVE  Verdict'
  BY DEF Verdict

LEMMA CausesStay ==
  ASSUME Causes, UNCHANGED <<ctl, cause, failed, handle, refusal>>
  PROVE  Causes'
  BY DEF Causes, RefusalHasCause

LEMMA ClaimStays ==
  ASSUME WriterIsClaimed, child' \in Writing => child \in Writing, claimed' = claimed
  PROVE  WriterIsClaimed'
  BY DEF WriterIsClaimed

----------------------------------------------------------------------------
(* The operations the steps are made of *)

(* A fault keeps the types of the fault counter and of the failure kinds. *)
LEMMA FailsType ==
  ASSUME TypeOK, NEW kind \in {"state", "thread", "observation"}, Fails(kind)
  PROVE  /\ faults' \in 0..MaxFaults /\ crashes' \in 0..MaxCrashes
         /\ failed' \subseteq {"state", "thread", "observation"}
  BY LiveBoundsAssumption DEF TypeOK, Fails

(* The first turn is a position. *)
LEMMA FirstPosition == 1 \in Positions /\ Positions \subseteq Nat \ {0}
  BY LiveBoundsAssumption DEF Positions

(* Admitted turns are the positions up to the highest one. *)
LEMMA HighestIsLast ==
  ASSUME NEW n \in Positions, Admitted = 1..n
  PROVE  HighestPosition = n
<1>1. n \in Nat /\ n \in Admitted /\ \A q \in Admitted : q <= n
  BY FirstPosition
<1>2. \A p \in Admitted : (\A q \in Admitted : q <= p) => p = n
  BY <1>1
<1>3. QED BY <1>1, <1>2 DEF HighestPosition

(* A command is added to what the channel carries, or lost. *)
LEMMA SentType ==
  ASSUME TypeOK, NEW c \in Commands
  PROVE  /\ Sent(c) \in Seq(Commands)
         /\ Carried(Sent(c)) \subseteq Carried(commands) \cup {c}
         /\ writer = "none" => Sent(c) = commands
  BY CarriedAppend DEF TypeOK, Sent

(* A kill starts no child and leaves one that has exited alone. *)
LEMMA KillType ==
  ASSUME TypeOK, child' \in AfterKill
  PROVE  /\ child' \in {"none"} \cup Writing \cup Exited
         /\ child' \in Writing <=> child \in Writing
         /\ child \notin Writing => child' = child
  BY DEF TypeOK, AfterKill

(* A cancellation of the target sends at most the cancel command, with the *)
(* flag set, and kills at most the child.                                  *)
LEMMA CancelTargetType ==
  ASSUME TypeOK, CancelTarget
  PROVE  /\ cancelled' \in BOOLEAN /\ (cancelled => cancelled')
         /\ commands' \in Seq(Commands)
         /\ \A c \in Carried(commands') : c \in Carried(commands) \/ (c[1] = "cancel" /\ cancelled')
         /\ writer = "none" => commands' = commands
         /\ child' \in {"none"} \cup Writing \cup Exited
         /\ child' \in Writing <=> child \in Writing
         /\ child \notin Writing => child' = child
<1>1. CASE handle /\ ~cancelled
  <2>1. cancelled' = TRUE /\ commands' = Sent(<<"cancel", 0>>) /\ child' \in AfterKill
    BY <1>1 DEF CancelTarget
  <2>2. <<"cancel", 0>> \in Commands /\ <<"cancel", 0>>[1] = "cancel"
    BY DEF Commands
  <2>3. QED BY <2>1, <2>2, SentType, KillType
<1>2. CASE ~(handle /\ ~cancelled)
  BY <1>2 DEF CancelTarget, TypeOK
<1>3. QED BY <1>1, <1>2

(* So it keeps the parts of the invariant that speak of the child and of   *)
(* the commands.                                                           *)
LEMMA CancelTargetKeeps ==
  ASSUME IInv, CancelTarget
  PROVE  /\ UNCHANGED <<permission, op, writer, pending, turn, sender, phase>> => Inputs'
         /\ UNCHANGED <<writer, graceful, target, closeAt, next, phase, stopper, conv, through,
                        turn, inputFailed>> => Closing'
         /\ UNCHANGED <<target, channel, handle, verdict, up, conv, turn>> => Verdict'
         /\ UNCHANGED claimed => WriterIsClaimed'
<1>1. TypeOK /\ Inputs /\ Closing /\ Verdict /\ WriterIsClaimed
  BY DEF IInv
<1>2. UNCHANGED <<permission, op, writer, pending, turn, sender, phase>> => Inputs'
  BY <1>1, CancelTargetType DEF Inputs, InputIsDurable, Admitted
<1>3. UNCHANGED <<writer, graceful, target, closeAt, next, phase, stopper, conv, through,
                  turn, inputFailed>> => Closing'
  BY <1>1, CancelTargetType DEF Closing, CloseCoversTurns, CloseDrainsInput, Admitted
<1>4. UNCHANGED <<target, channel, handle, verdict, up, conv, turn>> => Verdict'
  BY <1>1, CancelTargetType DEF Verdict
<1>5. UNCHANGED claimed => WriterIsClaimed'
  BY <1>1, CancelTargetType DEF WriterIsClaimed
<1>6. QED BY <1>2, <1>3, <1>4, <1>5

(* A committed end of the conversation keeps the records in agreement: a   *)
(* conversation succeeds only when every turn was answered.                *)
LEMMA TerminalizeKeeps ==
  ASSUME IInv, up, NEW state \in Terminal, NEW disposition \in {"Release", "Retain"},
         Terminalize(state, disposition), up' = up,
         state = "Succeeded" => \A p \in Positions : turn[p] # "Failed"
  PROVE  /\ Records'
         /\ conv' \in Terminal /\ op' \in Terminal /\ claimed' \in BOOLEAN
         /\ turn' \in [Positions -> TurnStates] /\ closeMode' = closeMode
         /\ Admitted' = Admitted
         /\ faults' \in 0..MaxFaults /\ crashes' \in 0..MaxCrashes
         /\ failed' \subseteq {"state", "thread", "observation"} /\ failed' = failed
<1>1. /\ conv \in Admitting /\ Resolvable(state)
      /\ conv' = state /\ op' = state /\ closeMode' = closeMode
      /\ turn' = [p \in Positions |-> Resolved(state, turn[p])]
      /\ claimed' = ClaimAfter(disposition)
      /\ UNCHANGED <<failed, faults, crashes>>
  BY DEF Terminalize
<1>2. \A p \in Positions : /\ turn[p] \in {"absent", "Queued", "Started", "Completed", "Failed"}
                           /\ turn'[p] = Resolved(state, turn[p])
  BY <1>1 DEF IInv, Records
<1>3. \A p \in Positions : /\ turn'[p] \in TurnStates \ Unfinished
                           /\ turn'[p] = "absent" <=> turn[p] = "absent"
                           /\ turn[p] \notin Unfinished => turn'[p] = turn[p]
  <2>1. SUFFICES ASSUME NEW p \in Positions
                 PROVE  /\ turn'[p] \in TurnStates \ Unfinished
                        /\ turn'[p] = "absent" <=> turn[p] = "absent"
                        /\ turn[p] \notin Unfinished => turn'[p] = turn[p]
    OBVIOUS
  <2>2. turn[p] \in Unfinished => state # "Succeeded"
    BY <1>1 DEF Resolvable
  <2>3. CASE turn[p] \notin Unfinished
    BY <1>2, <2>3 DEF Resolved, TurnStates
  <2>4. CASE turn[p] \in Unfinished /\ state # "Cancelled"
    BY <1>2, <2>2, <2>4 DEF Resolved, TurnStates
  <2>5. CASE turn[p] \in Unfinished /\ state = "Cancelled"
    <3>1. Resolved(state, turn[p]) \in {"Discarded", "Cancelled"}
      BY <2>5 DEF Resolved
    <3>2. QED BY <1>2, <2>5, <3>1 DEF TurnStates
  <2>6. QED BY <2>3, <2>4, <2>5
<1>4. turn' \in [Positions -> TurnStates]
  BY <1>1, <1>3
<1>5. Admitted' = Admitted
  BY <1>3 DEF Admitted
<1>6. state = "Succeeded" => \A p \in Positions : turn'[p] \in {"absent", "Completed"}
  BY <1>1, <1>2, <1>3 DEF Resolvable
<1>7. claimed' \in BOOLEAN
  BY <1>1 DEF ClaimAfter, IInv, TypeOK
<1>8. RecordsAgree'
  BY <1>1, <1>3, <1>6 DEF RecordsAgree
<1>9. \E n \in Positions : Admitted' = 1..n
  BY <1>1, <1>5 DEF IInv, Records
<1>10. Records'
  BY <1>1, <1>8, <1>9 DEF Records
<1>11. QED BY <1>1, <1>4, <1>5, <1>7, <1>10 DEF IInv, TypeOK

(* An end that State refuses writes nothing. *)
LEMMA TerminalizeErrKeeps ==
  ASSUME IInv, NEW state \in Terminal \ {"Succeeded"}, NEW kind \in {"state", "observation"},
         TerminalizeErr(state, kind)
  PROVE  /\ UNCHANGED durable
         /\ faults' \in 0..MaxFaults /\ crashes' \in 0..MaxCrashes
         /\ failed' \subseteq {"state", "thread", "observation"}
         /\ failed \subseteq failed' /\ kind \in failed'
<1>1. Fails(kind) /\ UNCHANGED durable
  BY DEF TerminalizeErr, Resolvable
<1>2. QED BY <1>1, FailsType DEF IInv, Fails

(* A committed end of the conversation, or a State call that writes        *)
(* nothing, keeps every part of the invariant that speaks of the records:  *)
(* a claim is released only once the child has exited.                     *)
LEMMA EndKeeps ==
  ASSUME IInv, up, conv # "absent", up' = up, child' = child,
         NEW state \in Terminal, NEW disposition \in {"Release", "Retain"},
         Terminalize(state, disposition) \/ UNCHANGED durable,
         state = "Succeeded" => \A p \in Positions : turn[p] # "Failed",
         disposition = "Release" => child \notin Writing
  PROVE  /\ Records' /\ WriterIsClaimed'
         /\ conv' \in {"absent"} \cup Admitting \cup Terminal
         /\ op' \in {"absent", "Accepted", "Running"} \cup Terminal
         /\ turn' \in [Positions -> TurnStates] /\ claimed' \in BOOLEAN
         /\ closeMode' = closeMode
         /\ UNCHANGED <<writer, commands, pending, sender, phase>>
            /\ (UNCHANGED permission \/ (permission' = "dropped" /\ permission = "none")) => Inputs'
         /\ UNCHANGED <<writer, commands, phase, graceful, cancelled, target, closeAt, next,
                        stopper, through, inputFailed, pending, sender>> => Closing'
         /\ UNCHANGED <<target, handle, verdict>> /\ Carried(channel') \subseteq Carried(channel)
            /\ (channel = <<>> => channel' = <<>>) => Verdict'
<1>1. CASE Terminalize(state, disposition)
  <2>1. conv \in Admitting
    BY <1>1 DEF Terminalize
  <2>2. /\ Records'
        /\ conv' \in Terminal /\ op' \in Terminal /\ claimed' \in BOOLEAN
        /\ turn' \in [Positions -> TurnStates] /\ closeMode' = closeMode
        /\ Admitted' = Admitted
    BY <1>1, TerminalizeKeeps
  <2>3. WriterIsClaimed'
    BY <1>1 DEF IInv, WriterIsClaimed, Terminalize, ClaimAfter
  <2>4. UNCHANGED <<writer, commands, pending, sender, phase>>
        /\ (UNCHANGED permission \/ (permission' = "dropped" /\ permission = "none")) => Inputs'
    <3>1. Inputs /\ \A p \in Positions : turn'[p] # "absent" <=> turn[p] # "absent"
      BY <2>2 DEF IInv, Admitted
    <3>2. QED BY <2>2, <3>1 DEF Inputs, InputIsDurable
  <2>5. UNCHANGED <<writer, commands, phase, graceful, cancelled, target, closeAt, next,
                    stopper, through, inputFailed, pending, sender>> => Closing'
    BY <2>2 DEF IInv, Closing, CloseCoversTurns, CloseDrainsInput
  <2>6. UNCHANGED <<target, handle, verdict>> /\ Carried(channel') \subseteq Carried(channel)
        /\ (channel = <<>> => channel' = <<>>) => Verdict'
    BY <2>2 DEF IInv, Verdict
  <2>7. QED BY <2>2, <2>3, <2>4, <2>5, <2>6
<1>2. CASE UNCHANGED durable
  <2>1. TypeOK /\ Records /\ Inputs /\ Closing /\ Verdict /\ WriterIsClaimed
    BY DEF IInv
  <2>2. Records' /\ WriterIsClaimed'
    BY <1>2, <2>1, RecordsStay, ClaimStays
  <2>3. UNCHANGED <<writer, commands, pending, sender, phase>>
        /\ (UNCHANGED permission \/ (permission' = "dropped" /\ permission = "none")) => Inputs'
    BY <1>2, <2>1 DEF Inputs, InputIsDurable, Admitted
  <2>4. UNCHANGED <<writer, commands, phase, graceful, cancelled, target, closeAt, next,
                    stopper, through, inputFailed, pending, sender>> => Closing'
    BY <1>2, <2>1, ClosingStays
  <2>5. UNCHANGED <<target, handle, verdict>> /\ Carried(channel') \subseteq Carried(channel)
        /\ (channel = <<>> => channel' = <<>>) => Verdict'
    BY <1>2, <2>1 DEF Verdict
  <2>6. QED BY <1>2, <2>1, <2>2, <2>3, <2>4, <2>5 DEF TypeOK
<1>3. QED BY <1>1, <1>2

(* An observation of a turn that Control records moves the turn on. *)
LEMMA RecordKeeps ==
  ASSUME IInv, up, up' = up, NEW p \in Positions, NEW state \in {"Started", "Completed", "Failed"},
         RecordTurn(p, state), state = "Failed" => verdict = "Failed",
         UNCHANGED <<child, permission, writer, commands, pending, sender, phase, graceful, cancelled,
                     target, closeAt, next, stopper, through, inputFailed, handle, verdict>>,
         Carried(channel') \subseteq Carried(channel), channel # <<>>
  PROVE  /\ Records' /\ WriterIsClaimed' /\ Inputs' /\ Closing' /\ Verdict'
         /\ turn' \in [Positions -> TurnStates] /\ UNCHANGED <<conv, op, claimed, closeMode, env>>
<1>1. /\ conv \in Admitting /\ turn' = [turn EXCEPT ![p] = state] /\ turn[p] # "absent"
      /\ UNCHANGED <<conv, op, claimed, closeMode, env>>
  BY DEF RecordTurn, TurnAllowed
<1>2. turn \in [Positions -> TurnStates] /\ turn' \in [Positions -> TurnStates]
  BY <1>1 DEF IInv, TypeOK, TurnStates
<1>3. Admitted' = Admitted
  BY <1>1, <1>2 DEF Admitted
<1>4. Records'
  BY <1>1, <1>2, <1>3 DEF IInv, Records, RecordsAgree
<1>5. Inputs'
  BY <1>1, <1>2, <1>3 DEF IInv, Inputs, InputIsDurable
<1>6. Closing'
  BY <1>1, <1>3 DEF IInv, Closing, CloseCoversTurns, CloseDrainsInput
<1>7. Verdict'
  BY <1>1, <1>2 DEF IInv, Verdict
<1>8. WriterIsClaimed'
  BY <1>1, ClaimStays DEF IInv
<1>9. QED BY <1>1, <1>2, <1>4, <1>5, <1>6, <1>7, <1>8

(* A verdict that Control applies releases the claim only of a child that  *)
(* has exited, and succeeds only when no turn has failed.                  *)
LEMMA AppliesKeeps ==
  ASSUME IInv, up, up' = up, NEW o \in Carried(channel), o[1] \in Verdicts, Applies(o[1]),
         UNCHANGED <<child, permission, writer, commands, pending, sender, phase, graceful, cancelled,
                     target, closeAt, next, stopper, through, inputFailed, handle, verdict>>,
         Carried(channel') \subseteq Carried(channel), channel # <<>>
  PROVE  /\ Records' /\ WriterIsClaimed' /\ Inputs' /\ Closing' /\ Verdict'
         /\ conv' \in {"absent"} \cup Admitting \cup Terminal
         /\ op' \in {"absent", "Accepted", "Running"} \cup Terminal
         /\ turn' \in [Positions -> TurnStates] /\ claimed' \in BOOLEAN
         /\ UNCHANGED <<closeMode, env>>
<1>1. PICK state \in Terminal, disposition \in {"Release", "Retain"} :
        /\ Terminalize(state, disposition)
        /\ state = "Succeeded" => o[1] = "Exited"
        /\ disposition = "Release" => o[1] # "UnclassifiedWriter"
  BY DEF Applies, Verdicts
<1>2. conv \in Admitting /\ UNCHANGED env
  BY <1>1 DEF Terminalize
<1>3. state = "Succeeded" => \A p \in Positions : turn[p] # "Failed"
  BY <1>1, <1>2 DEF IInv, Verdict
<1>4. disposition = "Release" => child \notin Writing
  BY <1>1 DEF IInv, Verdict
<1>5. QED BY <1>1, <1>2, <1>3, <1>4, EndKeeps

(* The input writer keeps the invariant. *)
LEMMA WriterKeeps ==
  ASSUME IInv, WriterStep
  PROVE  IInv'
<1>1. CASE WriterStarts
  <2>1. up /\ conv # "absent"
    BY <1>1 DEF IInv, Records, Fresh, WriterStarts
  <2>2. writer' \in {"running", "done"} /\ inputFailed' \in BOOLEAN
    BY <1>1 DEF IInv, TypeOK, WriterStarts
  <2>3. TypeOK'
    BY <1>1, <2>2 DEF IInv, TypeOK, WriterStarts
  <2>4. Starting'
    BY <1>1, <2>2 DEF IInv, Starting, WriterStarts
  <2>5. Inputs'
    BY <1>1, <2>2 DEF IInv, Inputs, InputIsDurable, Admitted, WriterStarts
  <2>6. Closing'
    BY <1>1, <2>2 DEF IInv, Closing, CloseCoversTurns, CloseDrainsInput, Admitted,
           WriterStarts
  <2>7. QED
    BY <1>1, <2>1, <2>2, <2>3, <2>4, <2>5, <2>6, RecordsStay, VerdictStays, CausesStay,
       ClaimStays DEF IInv, WriterStarts
<1>2. CASE WriteTurn
  <2>1. up /\ conv # "absent"
    BY <1>2 DEF IInv, Records, Fresh, WriteTurn
  <2>2. writer' \in {"running", "done"}
    BY <1>2 DEF WriteTurn
  <2>3. inputFailed' \in BOOLEAN
    BY <1>2, <2>2 DEF IInv, TypeOK, WriteTurn
  <2>4. next' \in 1..(MaxTurns + 1)
    BY <1>2, <2>2, <2>3, LiveBoundsAssumption DEF IInv, TypeOK, WriteTurn, Positions
  <2>5. next \in Positions /\ next \in Admitted /\ op # "Accepted"
    BY <1>2, <2>2, <2>3, <2>4 DEF IInv, TypeOK, Inputs, WriteTurn
  <2>6. TypeOK'
    BY <1>2, <2>2, <2>3, <2>4, <2>5 DEF IInv, TypeOK, WriteTurn, Positions
  <2>7. Starting'
    BY <1>2, <2>2, <2>3, <2>4, <2>5 DEF IInv, Starting, WriteTurn
  <2>8. Inputs'
    BY <1>2, <2>2, <2>3, <2>4, <2>5 DEF IInv, Inputs, InputIsDurable, Admitted, WriteTurn,
           TypeOK
  <2>9. Closing'
    <3>1. TypeOK /\ Closing
      BY DEF IInv
    <3>2. \A p \in 1..(next' - 1) : phase'[p] # "none"
      <4>1. CASE target # "leaked" /\ next' = next + 1
        BY <1>2, <2>5, <3>1, <4>1 DEF WriteTurn, TypeOK, Closing, Positions
      <4>2. CASE UNCHANGED next
        BY <1>2, <2>5, <3>1, <4>2 DEF WriteTurn, TypeOK, Closing, Positions
      <4>3. QED BY <1>2, <4>1, <4>2 DEF WriteTurn
    <3>3. writer' = "done" => inputFailed'
      BY <1>2 DEF WriteTurn
    <3>4. QED
      BY <1>2, <3>1, <3>2, <3>3
         DEF WriteTurn, Closing, CloseCoversTurns, CloseDrainsInput, Admitted
  <2>10. QED
    BY <1>2, <2>1, <2>2, <2>3, <2>4, <2>5, <2>6, <2>7, <2>8, <2>9, RecordsStay,
       VerdictStays, CausesStay, ClaimStays DEF IInv, WriteTurn
<1>3. CASE CloseInput
  <2>1. up /\ conv # "absent"
    BY <1>3 DEF IInv, Records, Fresh, CloseInput
  <2>2. TypeOK'
    BY <1>3 DEF IInv, TypeOK, CloseInput
  <2>3. Starting'
    BY <1>3 DEF IInv, Starting, CloseInput
  <2>4. Inputs'
    BY <1>3 DEF IInv, Inputs, InputIsDurable, Admitted, CloseInput
  <2>5. Closing'
    BY <1>3 DEF IInv, Closing, CloseCoversTurns, CloseDrainsInput, Admitted, CloseInput,
           TypeOK
  <2>6. QED
    BY <1>3, <2>1, <2>2, <2>3, <2>4, <2>5, RecordsStay, VerdictStays, CausesStay, ClaimStays
       DEF IInv, CloseInput
<1>4. CASE ReceiveCommand
  <2>1. up /\ conv # "absent"
    BY <1>4 DEF IInv, Records, Fresh, ReceiveCommand
  <2>2. /\ Head(commands) \in Commands /\ Head(commands) \in Carried(commands)
        /\ Tail(commands) \in Seq(Commands) /\ Carried(Tail(commands)) \subseteq Carried(commands)
    BY <1>4, CarriedTail DEF IInv, TypeOK, ReceiveCommand
  <2>3. TypeOK'
    BY <1>4, <2>2 DEF IInv, TypeOK, ReceiveCommand, Inputs, Closing, Admitted
  <2>4. Starting'
    BY <1>4, <2>2 DEF IInv, Starting, ReceiveCommand
  <2>5. Inputs'
    BY <1>4, <2>2 DEF IInv, Inputs, InputIsDurable, Admitted, ReceiveCommand
  <2>6. Closing'
    BY <1>4, <2>2 DEF IInv, Closing, CloseCoversTurns, CloseDrainsInput, Admitted,
           ReceiveCommand
  <2>7. QED
    BY <1>4, <2>1, <2>2, <2>3, <2>4, <2>5, <2>6, RecordsStay, VerdictStays, CausesStay,
       ClaimStays DEF IInv, ReceiveCommand
<1>5. QED
  BY <1>1, <1>2, <1>3, <1>4 DEF WriterStep

(* The threads of conversation_stop keep the invariant. *)
LEMMA StopperKeeps ==
  ASSUME IInv, NEW m \in Modes, StopClose(m) \/ StopGraceful \/ StopCancel
  PROVE  IInv'
<1>1. CASE StopClose(m)
  <2>1. up /\ conv # "absent"
    BY <1>1 DEF IInv, Records, Fresh, StopClose, CloseWrites
  <2>2. PICK n \in Positions : Admitted = 1..n /\ HighestPosition = n
    BY <1>1, <2>1, HighestIsLast DEF IInv, Records
  <2>3. TypeOK'
    BY <1>1, <2>2, FirstPosition DEF IInv, TypeOK, StopClose, CloseWrites, Positions
  <2>4. Records'
    BY <1>1, <2>2 DEF IInv, Records, StopClose, CloseWrites, RecordsAgree, Admitted
  <2>5. Starting'
    BY <1>1, <2>2 DEF IInv, Starting, StopClose, CloseWrites
  <2>6. Closing'
    BY <1>1, <2>2, FirstPosition DEF IInv, Closing, CloseCoversTurns, CloseDrainsInput,
           Admitted, StopClose, CloseWrites, TypeOK
  <2>7. Verdict'
    BY <1>1, <2>2 DEF IInv, Verdict, StopClose, CloseWrites
  <2>8. QED
    BY <1>1, <2>1, <2>2, <2>3, <2>4, <2>5, <2>6, <2>7, InputsStay, CausesStay, ClaimStays
       DEF IInv, StopClose, CloseWrites
<1>2. CASE StopGraceful
  <2>1. up /\ conv # "absent"
    BY <1>2 DEF IInv, Records, Fresh, StopGraceful
  <2>2. through \in 0..MaxTurns /\ <<"close", through>> \in Commands
    BY <1>2 DEF IInv, TypeOK, Commands
  <2>3. TypeOK'
    BY <1>2, <2>2, SentType DEF IInv, TypeOK, StopGraceful
  <2>4. Inputs'
    BY <1>2, <2>2, SentType DEF IInv, Inputs, InputIsDurable, Admitted, StopGraceful
  <2>5. Closing'
    BY <1>2, <2>2, SentType DEF IInv, Closing, CloseCoversTurns, CloseDrainsInput, Admitted,
           StopGraceful, TypeOK
  <2>6. QED
    BY <1>2, <2>1, <2>2, <2>3, <2>4, <2>5, RecordsStay, StartingStays, VerdictStays,
       CausesStay, ClaimStays DEF IInv, StopGraceful
<1>3. CASE StopCancel
  <2>1. up /\ conv # "absent"
    BY <1>3 DEF IInv, Records, Fresh, StopCancel
  <2>2. TypeOK'
    BY <1>3, CancelTargetType DEF IInv, TypeOK, StopCancel
  <2>3. Starting'
    BY <1>3, CancelTargetType DEF IInv, Starting, StopCancel
  <2>4. Inputs'
    BY <1>3, CancelTargetKeeps DEF IInv, Inputs, InputIsDurable, Admitted, StopCancel
  <2>5. Closing'
    BY <1>3, CancelTargetType DEF IInv, Closing, CloseCoversTurns, CloseDrainsInput,
           Admitted, StopCancel, TypeOK
  <2>6. Verdict'
    BY <1>3, CancelTargetKeeps DEF IInv, Verdict, StopCancel
  <2>7. WriterIsClaimed'
    BY <1>3, CancelTargetKeeps DEF IInv, WriterIsClaimed, StopCancel
  <2>8. QED
    BY <1>3, <2>1, <2>2, <2>3, <2>4, <2>5, <2>6, <2>7, RecordsStay, CausesStay DEF IInv,
           StopCancel
<1>4. QED
  BY <1>1, <1>2, <1>3

(* So does a thread inside conversation_send. *)
LEMMA SenderKeeps ==
  ASSUME IInv, NEW p \in Positions, SendPersist(p) \/ SenderStep(p)
  PROVE  IInv'
<1>1. CASE SendPersist(p)
  <2>1. up /\ conv # "absent"
    BY <1>1 DEF IInv, Records, Fresh, SendPersist
  <2>2. PICK n \in Positions : Admitted = 1..n /\ HighestPosition = n
    BY <1>1, HighestIsLast DEF IInv, Records, SendPersist
  <2>3. Admitted' = Admitted \cup {p} /\ Admitted' = 1..p
    BY <1>1, <2>2, <2>1, FirstPosition DEF IInv, TypeOK, SendPersist, Admitted
  <2>4. TypeOK'
    BY <1>1, <2>2, <2>3 DEF IInv, TypeOK, SendPersist, TurnStates
  <2>5. Records'
    BY <1>1, <2>2, <2>3 DEF IInv, Records, SendPersist, RecordsAgree, TypeOK
  <2>6. Inputs'
    BY <1>1, <2>2, <2>3 DEF IInv, Inputs, InputIsDurable, Admitted, SendPersist, TypeOK
  <2>7. Closing'
    BY <1>1, <2>2, <2>3 DEF IInv, Closing, CloseCoversTurns, CloseDrainsInput, Admitted,
           SendPersist
  <2>8. Verdict'
    BY <1>1, <2>2, <2>3 DEF IInv, Verdict, SendPersist, TypeOK
  <2>9. QED
    BY <1>1, <2>1, <2>2, <2>3, <2>4, <2>5, <2>6, <2>7, <2>8, StartingStays, CausesStay,
       ClaimStays DEF IInv, SendPersist
<1>2. CASE SendAdmit(p)
  <2>1. up /\ conv # "absent"
    BY <1>2 DEF IInv, Records, Fresh, SendAdmit
  <2>2. TypeOK'
    BY <1>2 DEF IInv, TypeOK, SendAdmit
  <2>3. Inputs'
    BY <1>2 DEF IInv, Inputs, InputIsDurable, Admitted, SendAdmit, TypeOK
  <2>4. QED
    BY <1>2, <2>1, <2>2, <2>3, RecordsStay, StartingStays, ClosingStays, VerdictStays,
       CausesStay, ClaimStays DEF IInv, SendAdmit
<1>3. CASE SendCommand(p)
  <2>1. up /\ conv # "absent"
    BY <1>3 DEF IInv, Records, Fresh, SendCommand
  <2>2. p \in Nat
    BY <1>3, FirstPosition
  <2>3. <<"turn", p>> \in Commands
    BY <1>3, <2>2 DEF Commands
  <2>4. TypeOK'
    BY <1>3, <2>2, <2>3, SentType DEF IInv, TypeOK, SendCommand
  <2>5. Inputs'
    BY <1>3, <2>2, <2>3, SentType DEF IInv, Inputs, InputIsDurable, Admitted, SendCommand,
           TypeOK
  <2>6. Closing'
    BY <1>3, <2>2, <2>3, SentType DEF IInv, Closing, CloseCoversTurns, CloseDrainsInput,
           Admitted, SendCommand
  <2>7. QED
    BY <1>3, <2>1, <2>2, <2>3, <2>4, <2>5, <2>6, RecordsStay, StartingStays, VerdictStays,
       CausesStay, ClaimStays DEF IInv, SendCommand
<1>4. CASE SendReadsFailure(p)
  <2>1. up /\ conv # "absent"
    BY <1>4 DEF IInv, Records, Fresh, SendReadsFailure
  <2>2. TypeOK'
    BY <1>4 DEF IInv, TypeOK, SendReadsFailure
  <2>3. Inputs'
    BY <1>4 DEF IInv, Inputs, InputIsDurable, Admitted, SendReadsFailure, TypeOK
  <2>4. QED
    BY <1>4, <2>1, <2>2, <2>3, RecordsStay, StartingStays, ClosingStays, VerdictStays,
       CausesStay, ClaimStays DEF IInv, SendReadsFailure
<1>5. CASE SendCloses(p)
  <2>1. up /\ conv # "absent"
    BY <1>5 DEF IInv, Records, Fresh, SendCloses, CloseWrites
  <2>2. TypeOK'
    BY <1>5 DEF IInv, TypeOK, SendCloses, CloseWrites
  <2>3. Records'
    BY <1>5, <2>1 DEF IInv, Records, SendCloses, CloseWrites, RecordsAgree, Admitted
  <2>4. Starting'
    BY <1>5 DEF IInv, Starting, SendCloses, CloseWrites
  <2>5. Inputs'
    BY <1>5 DEF IInv, Inputs, InputIsDurable, Admitted, SendCloses, CloseWrites, TypeOK
  <2>6. Closing'
    BY <1>5 DEF IInv, Closing, CloseCoversTurns, CloseDrainsInput, Admitted, SendCloses,
           CloseWrites
  <2>7. Verdict'
    BY <1>5 DEF IInv, Verdict, SendCloses, CloseWrites
  <2>8. QED
    BY <1>5, <2>1, <2>2, <2>3, <2>4, <2>5, <2>6, <2>7, CausesStay, ClaimStays DEF IInv,
           SendCloses, CloseWrites
<1>6. CASE SendStops(p)
  <2>1. up /\ conv # "absent"
    BY <1>6 DEF IInv, Records, Fresh, SendStops
  <2>2. TypeOK'
    BY <1>6, CancelTargetType DEF IInv, TypeOK, SendStops
  <2>3. Starting'
    BY <1>6, CancelTargetType DEF IInv, Starting, SendStops
  <2>4. Inputs'
    BY <1>6, CancelTargetType DEF IInv, Inputs, InputIsDurable, Admitted, SendStops, TypeOK
  <2>5. Closing'
    BY <1>6, CancelTargetKeeps DEF IInv, Closing, CloseCoversTurns, CloseDrainsInput,
           Admitted, SendStops
  <2>6. Verdict'
    BY <1>6, CancelTargetKeeps DEF IInv, Verdict, SendStops
  <2>7. WriterIsClaimed'
    BY <1>6, CancelTargetKeeps DEF IInv, WriterIsClaimed, SendStops
  <2>8. QED
    BY <1>6, <2>1, <2>2, <2>3, <2>4, <2>5, <2>6, <2>7, RecordsStay, CausesStay DEF IInv,
           SendStops
<1>7. CASE SendStateFails(p)
  <2>1. up /\ conv # "absent"
    BY <1>7 DEF IInv, Records, Fresh, SendStateFails
  <2>2. TypeOK'
    BY <1>7, FailsType DEF IInv, TypeOK, SendStateFails
  <2>3. Inputs'
    BY <1>7 DEF IInv, Inputs, InputIsDurable, Admitted, SendStateFails, TypeOK
  <2>4. Causes'
    BY <1>7 DEF IInv, Causes, RefusalHasCause, SendStateFails, Fails
  <2>5. QED
    BY <1>7, <2>1, <2>2, <2>3, <2>4, RecordsStay, StartingStays, ClosingStays, VerdictStays,
       ClaimStays DEF IInv, SendStateFails
<1>8. QED
  BY <1>1, <1>2, <1>3, <1>4, <1>5, <1>6, <1>7 DEF SenderStep

(* The child may leave at any time. *)
LEMMA ChildKeeps ==
  ASSUME IInv, ChildExits \/ KilledChildExits
  PROVE  IInv'
<1>1. CASE ChildExits
  <2>1. TypeOK'
    BY <1>1 DEF IInv, TypeOK, ChildExits
  <2>2. Records'
    BY <1>1 DEF IInv, Records, ChildExits, RecordsAgree, Fresh, Admitted
  <2>3. Starting'
    BY <1>1 DEF IInv, Starting, ChildExits
  <2>4. Verdict'
    BY <1>1 DEF IInv, Verdict, ChildExits
  <2>5. WriterIsClaimed'
    BY <1>1 DEF IInv, WriterIsClaimed, ChildExits
  <2>6. QED
    BY <1>1, <2>1, <2>2, <2>3, <2>4, <2>5, InputsStay, ClosingStays, CausesStay DEF IInv,
           ChildExits
<1>2. CASE KilledChildExits
  <2>1. TypeOK'
    BY <1>2 DEF IInv, TypeOK, KilledChildExits
  <2>2. Records'
    BY <1>2 DEF IInv, Records, KilledChildExits, RecordsAgree, Fresh, Admitted
  <2>3. Starting'
    BY <1>2 DEF IInv, Starting, KilledChildExits
  <2>4. Verdict'
    BY <1>2 DEF IInv, Verdict, KilledChildExits
  <2>5. WriterIsClaimed'
    BY <1>2 DEF IInv, WriterIsClaimed, KilledChildExits
  <2>6. QED
    BY <1>2, <2>1, <2>2, <2>3, <2>4, <2>5, InputsStay, ClosingStays, CausesStay DEF IInv,
           KilledChildExits
<1>3. QED
  BY <1>1, <1>2

(* Target's observer keeps the invariant: it publishes a verdict after the runtime is gone. *)
LEMMA TargetKeeps ==
  ASSUME IInv, TargetStep \/ Reads
  PROVE  IInv'
<1>1. CASE ObserveExit
  <2>1. up /\ conv # "absent"
    BY <1>1 DEF IInv, Records, Fresh, ObserveExit
  <2>2. ExitVerdict \in Verdicts
    BY <1>1 DEF ExitVerdict, Verdicts
  <2>3. <<"cancel", 0>> \in Commands
    BY <1>1, <2>2 DEF Commands
  <2>4. TypeOK'
    BY <1>1, <2>2, <2>3, SentType DEF IInv, TypeOK, ObserveExit, Verdicts
  <2>5. Starting'
    BY <1>1, <2>2, <2>3 DEF IInv, Starting, ObserveExit
  <2>6. Inputs'
    BY <1>1, <2>2, <2>3, SentType DEF IInv, Inputs, InputIsDurable, Admitted, ObserveExit
  <2>7. Closing'
    BY <1>1, <2>2, <2>3, SentType DEF IInv, Closing, CloseCoversTurns, CloseDrainsInput,
           Admitted, ObserveExit
  <2>8. Verdict'
    BY <1>1, <2>2, <2>3 DEF IInv, Verdict, ObserveExit, Verdicts
  <2>9. QED
    BY <1>1, <2>1, <2>2, <2>3, <2>4, <2>5, <2>6, <2>7, <2>8, RecordsStay, CausesStay,
       ClaimStays DEF IInv, ObserveExit
<1>2. CASE PublishAfterCleanup
  <2>1. up /\ conv # "absent"
    BY <1>2 DEF IInv, Records, Fresh, PublishAfterCleanup
  <2>2. PICK v \in Verdicts :
          /\ channel' \in Seq(Observations)
          /\ Carried(channel') \subseteq Carried(channel) \cup {<<v, 0>>}
          /\ v # "UnclassifiedWriter" => child \in Exited
          /\ v = "Exited" => verdict = "Exited"
    <3>1. PICK v \in Cleaned : \/ channel' = Append(channel, <<v, 0>>)
                               \/ UNCHANGED channel
      BY <1>2 DEF PublishAfterCleanup
    <3>2. /\ v \in Verdicts
          /\ v # "UnclassifiedWriter" => child \in Exited
          /\ v = "Exited" => verdict = "Exited"
      BY <3>1 DEF Cleaned, Verdicts, IInv, TypeOK, Verdict
    <3>3. <<v, 0>> \in Observations /\ channel \in Seq(Observations)
      BY <3>2 DEF Observations, IInv, TypeOK
    <3>4. CASE channel' = Append(channel, <<v, 0>>)
      BY <3>2, <3>3, <3>4, CarriedAppend
    <3>5. CASE UNCHANGED channel
      BY <3>2, <3>3, <3>5
    <3>6. QED BY <3>1, <3>4, <3>5
  <2>3. /\ handle' = FALSE /\ target' = "done"
        /\ UNCHANGED <<phase, verdict, commands, child, env>> /\ TargetUnchanged
    BY <1>2, <2>2 DEF PublishAfterCleanup
  <2>4. {claimed', up', refusal', handle', cancelled', broken', inputFailed'} \subseteq BOOLEAN
    BY <2>2, <2>3 DEF IInv, TypeOK
  <2>5. TypeOK'
    BY <2>2, <2>3, <2>4 DEF IInv, TypeOK
  <2>6. Starting'
    BY <1>2, <2>2, <2>3, <2>4 DEF IInv, Starting, PublishAfterCleanup
  <2>7. Closing'
    BY <1>2, <2>2, <2>3, <2>4 DEF IInv, Closing, CloseCoversTurns, CloseDrainsInput,
           Admitted, PublishAfterCleanup
  <2>8. Verdict'
    BY <1>2, <2>2, <2>3, <2>4 DEF IInv, Verdict, PublishAfterCleanup, Verdicts
  <2>9. Causes'
    BY <1>2, <2>2, <2>3, <2>4 DEF IInv, Causes, RefusalHasCause, PublishAfterCleanup
  <2>10. QED
    BY <1>2, <2>1, <2>2, <2>3, <2>4, <2>5, <2>6, <2>7, <2>8, <2>9, RecordsStay, InputsStay,
       ClaimStays DEF IInv, PublishAfterCleanup
<1>3. CASE ReadError
  <2>1. up /\ conv # "absent"
    BY <1>3 DEF IInv, Records, Fresh, ReadError, Terminates
  <2>2. <<"cancel", 0>> \in Commands
    BY <1>3 DEF Commands
  <2>3. TypeOK'
    BY <1>3, <2>2, SentType, KillType DEF IInv, TypeOK, ReadError, Terminates, Verdicts
  <2>4. Starting'
    BY <1>3, <2>2, KillType DEF IInv, Starting, ReadError, Terminates
  <2>5. Inputs'
    BY <1>3, <2>2, SentType DEF IInv, Inputs, InputIsDurable, Admitted, ReadError,
           Terminates
  <2>6. Closing'
    BY <1>3, <2>2, SentType DEF IInv, Closing, CloseCoversTurns, CloseDrainsInput, Admitted,
           ReadError, Terminates
  <2>7. Verdict'
    BY <1>3, <2>2, KillType DEF IInv, Verdict, ReadError, Terminates
  <2>8. WriterIsClaimed'
    BY <1>3, <2>2, KillType DEF IInv, WriterIsClaimed, ReadError, Terminates
  <2>9. QED
    BY <1>3, <2>1, <2>2, <2>3, <2>4, <2>5, <2>6, <2>7, <2>8, RecordsStay, CausesStay
       DEF IInv, ReadError, Terminates
<1>4. ASSUME NEW p \in Positions, ReadLine(p)
      PROVE  IInv'
  <2>1. up /\ conv # "absent"
    BY <1>4 DEF IInv, Records, Fresh, ReadLine
  <2>2. PICK next_phase \in Lines(p), o \in {<<"TurnStarted", p>>, <<"TurnCompleted", p>>} :
          /\ phase' = [phase EXCEPT ![p] = next_phase]
          /\ UNCHANGED channel \/ channel' = Append(channel, o)
    BY <1>4 DEF ReadLine
  <2>3. /\ next_phase \in {"Queued", "Started", "ResultObserved", "Completed"}
        /\ phase[p] # "none"
        /\ channel' \in Seq(Observations)
        /\ Carried(channel') \subseteq Carried(channel) \cup {o}
    <3>1. /\ next_phase \in {"Queued", "Started", "ResultObserved", "Completed"}
          /\ phase[p] # "none"
      BY <2>2 DEF Lines
    <3>2. o \in Observations /\ channel \in Seq(Observations)
      BY DEF Observations, TurnEvents, IInv, TypeOK
    <3>3. CASE channel' = Append(channel, o)
      BY <3>1, <3>2, <3>3, CarriedAppend
    <3>4. CASE UNCHANGED channel
      BY <3>1, <3>2, <3>4
    <3>5. QED BY <2>2, <3>3, <3>4
  <2>4. TypeOK'
    BY <1>4, <2>2, <2>3 DEF IInv, TypeOK, ReadLine
  <2>5. Inputs'
    BY <1>4, <2>2, <2>3 DEF IInv, Inputs, InputIsDurable, Admitted, ReadLine, TypeOK
  <2>6. Closing'
    BY <1>4, <2>2, <2>3 DEF IInv, Closing, CloseCoversTurns, CloseDrainsInput, Admitted,
           ReadLine, TypeOK
  <2>7. Verdict'
    BY <1>4, <2>2, <2>3 DEF IInv, Verdict, ReadLine, Verdicts, TurnEvents
  <2>8. QED
    BY <1>4, <2>1, <2>2, <2>3, <2>4, <2>5, <2>6, <2>7, RecordsStay, StartingStays,
       CausesStay, ClaimStays DEF IInv, ReadLine
<1>5. ASSUME NEW p \in Positions, ReadFailure(p)
      PROVE  IInv'
  <2>1. up /\ conv # "absent"
    BY <1>5 DEF IInv, Records, Fresh, ReadFailure
  <2>2. <<"cancel", 0>> \in Commands
    BY <1>5 DEF Commands
  <2>3. \/ /\ channel' = Append(channel, <<"TurnFailed", p>>) /\ verdict' = "Failed"
           /\ target' = "terminating" /\ commands' = Sent(<<"cancel", 0>>)
           /\ child' \in AfterKill
        \/ target' = "leaked" /\ UNCHANGED <<channel, verdict, commands, child>>
    BY <1>5, <2>2 DEF ReadFailure, Terminates
  <2>4. /\ channel' \in Seq(Observations)
        /\ Carried(channel') \subseteq Carried(channel) \cup {<<"TurnFailed", p>>}
        /\ Carried(channel') = Carried(channel) \/ verdict' = "Failed"
    <3>1. <<"TurnFailed", p>> \in Observations /\ channel \in Seq(Observations)
      BY DEF Observations, TurnEvents, IInv, TypeOK
    <3>2. CASE channel' = Append(channel, <<"TurnFailed", p>>) /\ verdict' = "Failed"
      BY <3>1, <3>2, CarriedAppend
    <3>3. CASE UNCHANGED channel
      BY <3>1, <3>3
    <3>4. QED BY <2>3, <3>2, <3>3
  <2>5. /\ commands' \in Seq(Commands)
        /\ Carried(commands') \subseteq Carried(commands) \cup {<<"cancel", 0>>}
        /\ writer = "none" => commands' = commands
        /\ child' \in {"none"} \cup Writing \cup Exited
        /\ child' \in Writing <=> child \in Writing
        /\ child \notin Writing => child' = child
    BY <1>5, <2>2, <2>3, <2>4, SentType, KillType DEF IInv, TypeOK
  <2>6. TypeOK'
    BY <1>5, <2>2, <2>3, <2>4, <2>5 DEF IInv, TypeOK, ReadFailure, Verdicts
  <2>7. Starting'
    BY <1>5, <2>2, <2>3, <2>4, <2>5 DEF IInv, Starting, ReadFailure
  <2>8. Inputs'
    BY <1>5, <2>2, <2>3, <2>4, <2>5 DEF IInv, Inputs, InputIsDurable, Admitted, ReadFailure
  <2>9. Closing'
    BY <1>5, <2>2, <2>3, <2>4, <2>5 DEF IInv, Closing, CloseCoversTurns, CloseDrainsInput,
           Admitted, ReadFailure
  <2>10. Verdict'
    BY <1>5, <2>2, <2>3, <2>4, <2>5 DEF IInv, Verdict, ReadFailure, Verdicts
  <2>11. WriterIsClaimed'
    BY <1>5, <2>2, <2>3, <2>4, <2>5 DEF IInv, WriterIsClaimed, ReadFailure
  <2>12. QED
    BY <1>5, <2>1, <2>2, <2>3, <2>4, <2>5, <2>6, <2>7, <2>8, <2>9, <2>10, <2>11,
       RecordsStay, CausesStay DEF IInv, ReadFailure
<1>6. QED
  BY <1>1, <1>2, <1>3, <1>4, <1>5 DEF TargetStep, Reads

(* The starter keeps the invariant. *)
LEMMA StarterKeeps ==
  ASSUME IInv, StarterStep
  PROVE  IInv'
<1>1. CASE StartLive
  <2>1. up /\ conv # "absent"
    BY <1>1 DEF IInv, Records, Fresh, StartLive
  <2>2. PICK n \in Positions : Admitted = 1..n
    BY <1>1 DEF IInv, Records, Starting, StartLive
  <2>3. 1 \in Positions /\ 1 \in Admitted
    BY <1>1, <2>2, FirstPosition
  <2>4. /\ conv \in Admitting /\ op # "absent" /\ claimed /\ ctl = "none" /\ permission = "none"
        /\ target = "none" /\ channel = <<>> /\ commands = <<>> /\ verdict = "none"
        /\ Carried(channel) = {} /\ Carried(commands) = {}
    BY <1>1, <2>2, <2>3, CarriedNone DEF IInv, Records, Starting, Closing, Verdict,
           StartLive, TypeOK
  <2>5. TypeOK'
    BY <1>1, <2>2, <2>3, <2>4 DEF IInv, TypeOK, StartLive
  <2>6. Starting'
    BY <1>1, <2>2, <2>3, <2>4 DEF IInv, Starting, StartLive
  <2>7. Inputs'
    BY <1>1, <2>2, <2>3, <2>4 DEF IInv, Inputs, InputIsDurable, Admitted, StartLive
  <2>8. Closing'
    BY <1>1, <2>2, <2>3, <2>4 DEF IInv, Closing, CloseCoversTurns, CloseDrainsInput,
           Admitted, StartLive
  <2>9. Verdict'
    BY <1>1, <2>2, <2>3, <2>4 DEF IInv, Verdict, StartLive
  <2>10. Causes'
    BY <1>1, <2>2, <2>3, <2>4 DEF IInv, Causes, RefusalHasCause, StartLive
  <2>11. WriterIsClaimed'
    BY <1>1, <2>2, <2>3, <2>4 DEF IInv, WriterIsClaimed, StartLive
  <2>12. QED
    BY <1>1, <2>1, <2>2, <2>3, <2>4, <2>5, <2>6, <2>7, <2>8, <2>9, <2>10, <2>11, RecordsStay
       DEF IInv, StartLive
<1>2. CASE StartLiveFails
  <2>1. up /\ conv # "absent"
    BY <1>2 DEF IInv, Records, Fresh, StartLiveFails
  <2>2. claimed /\ channel = <<>> /\ Carried(channel) = {} /\ target = "none"
    BY <1>2, CarriedNone DEF IInv, Records, Starting, Verdict, StartLiveFails
  <2>3. TypeOK'
    BY <1>2, <2>2, FailsType DEF IInv, TypeOK, StartLiveFails
  <2>4. Starting'
    BY <1>2, <2>2 DEF IInv, Starting, StartLiveFails
  <2>5. Verdict'
    BY <1>2, <2>2 DEF IInv, Verdict, StartLiveFails
  <2>6. Causes'
    BY <1>2, <2>2 DEF IInv, Causes, RefusalHasCause, StartLiveFails, Fails
  <2>7. WriterIsClaimed'
    BY <1>2, <2>2 DEF IInv, WriterIsClaimed, StartLiveFails
  <2>8. QED
    BY <1>2, <2>1, <2>2, <2>3, <2>4, <2>5, <2>6, <2>7, RecordsStay, InputsStay, ClosingStays
       DEF IInv, StartLiveFails
<1>3. CASE FinishWithoutWorker
  <2>1. up /\ conv # "absent"
    BY <1>3 DEF IInv, Records, Fresh, FinishWithoutWorker
  <2>2. /\ Records' /\ WriterIsClaimed' /\ Inputs' /\ Closing' /\ Verdict'
        /\ conv' \in {"absent"} \cup Admitting \cup Terminal
        /\ op' \in {"absent", "Accepted", "Running"} \cup Terminal
        /\ turn' \in [Positions -> TurnStates] /\ claimed' \in BOOLEAN
        /\ closeMode' = closeMode
    <3>1. /\ UNCHANGED <<up, child, permission, writer, commands, pending, sender, phase, graceful,
                         cancelled, target, closeAt, next, stopper, through, inputFailed,
                         handle, verdict, channel>>
      BY <1>3 DEF FinishWithoutWorker
    <3>2. CASE starter = "no_writer"
      <4>1. Terminalize("Failed", "Release") \/ UNCHANGED durable
        BY <1>3, <3>2 DEF FinishWithoutWorker, TerminalizeErr
      <4>2. child \notin Writing
        BY <3>2 DEF IInv, Starting
      <4>3. QED BY <2>1, <3>1, <4>1, <4>2, EndKeeps
    <3>3. CASE starter = "unproven"
      <4>1. Terminalize("Indeterminate", "Retain") \/ UNCHANGED durable
        BY <1>3, <3>3 DEF FinishWithoutWorker, TerminalizeErr
      <4>2. QED BY <2>1, <3>1, <4>1, EndKeeps
    <3>4. QED BY <1>3, <3>2, <3>3 DEF FinishWithoutWorker
  <2>3. /\ faults' \in 0..MaxFaults /\ crashes' \in 0..MaxCrashes
        /\ failed' \subseteq {"state", "thread", "observation"} /\ failed \subseteq failed'
    <3>1. NoFault \/ Fails("state")
      BY <1>3 DEF FinishWithoutWorker, Terminalize, TerminalizeErr
    <3>2. QED BY <3>1, FailsType DEF IInv, TypeOK, Fails
  <2>4. TypeOK'
    BY <1>3, <2>2, <2>3 DEF IInv, TypeOK, FinishWithoutWorker
  <2>5. Starting'
    BY <1>3, <2>2, <2>3 DEF IInv, Starting, FinishWithoutWorker
  <2>6. Causes'
    BY <1>3, <2>2, <2>3 DEF IInv, Causes, RefusalHasCause, FinishWithoutWorker
  <2>7. QED
    BY <1>3, <2>1, <2>2, <2>3, <2>4, <2>5, <2>6 DEF IInv, FinishWithoutWorker
<1>4. CASE StartRunning
  <2>1. up /\ conv # "absent"
    BY <1>4 DEF IInv, Records, Fresh, StartRunning
  <2>2. /\ op' \in {"Accepted", "Running"} /\ faults' \in 0..MaxFaults /\ crashes' \in 0..MaxCrashes
        /\ failed' \subseteq {"state", "thread", "observation"} /\ failed \subseteq failed'
    BY <1>4, FailsType DEF IInv, TypeOK, Records, Starting, StartRunning, Fails
  <2>3. TypeOK'
    BY <1>4, <2>2 DEF IInv, TypeOK, StartRunning
  <2>4. Records'
    BY <1>4, <2>2, <2>1 DEF IInv, Records, StartRunning, RecordsAgree, Admitted, Starting
  <2>5. Starting'
    BY <1>4, <2>2 DEF IInv, Starting, StartRunning
  <2>6. Inputs'
    BY <1>4, <2>2 DEF IInv, Inputs, InputIsDurable, Admitted, StartRunning
  <2>7. Causes'
    BY <1>4, <2>2 DEF IInv, Causes, RefusalHasCause, StartRunning
  <2>8. QED
    BY <1>4, <2>1, <2>2, <2>3, <2>4, <2>5, <2>6, <2>7, ClosingStays, VerdictStays,
       ClaimStays DEF IInv, StartRunning
<1>5. CASE StartObserver
  <2>1. up /\ conv # "absent"
    BY <1>5 DEF IInv, Records, Fresh, StartObserver
  <2>2. /\ faults' \in 0..MaxFaults /\ crashes' \in 0..MaxCrashes
        /\ failed' \subseteq {"state", "thread", "observation"} /\ failed \subseteq failed'
    BY <1>5, FailsType DEF IInv, TypeOK, StartObserver, Fails
  <2>3. TypeOK'
    BY <1>5, <2>2 DEF IInv, TypeOK, StartObserver
  <2>4. Starting'
    BY <1>5, <2>2 DEF IInv, Starting, StartObserver
  <2>5. Causes'
    BY <1>5, <2>2 DEF IInv, Causes, RefusalHasCause, StartObserver
  <2>6. QED
    BY <1>5, <2>1, <2>2, <2>3, <2>4, <2>5, RecordsStay, InputsStay, ClosingStays,
       VerdictStays, ClaimStays DEF IInv, StartObserver
<1>6. CASE GrantPermission
  <2>1. up /\ conv # "absent"
    BY <1>6 DEF IInv, Records, Fresh, GrantPermission
  <2>2. TypeOK'
    BY <1>6 DEF IInv, TypeOK, GrantPermission
  <2>3. Starting'
    BY <1>6 DEF IInv, Starting, GrantPermission
  <2>4. Inputs'
    BY <1>6 DEF IInv, Inputs, InputIsDurable, Admitted, GrantPermission, Starting
  <2>5. QED
    BY <1>6, <2>1, <2>2, <2>3, <2>4, RecordsStay, ClosingStays, VerdictStays, CausesStay,
       ClaimStays DEF IInv, GrantPermission
<1>7. CASE StopAfterLiveStart
  <2>1. up /\ conv # "absent"
    BY <1>7 DEF IInv, Records, Fresh, StopAfterLiveStart
  <2>2. TypeOK'
    BY <1>7, CancelTargetType DEF IInv, TypeOK, StopAfterLiveStart
  <2>3. Starting'
    BY <1>7, CancelTargetType DEF IInv, Starting, StopAfterLiveStart
  <2>4. Inputs'
    BY <1>7, CancelTargetKeeps DEF IInv, Inputs, InputIsDurable, Admitted,
           StopAfterLiveStart
  <2>5. Closing'
    BY <1>7, CancelTargetKeeps DEF IInv, Closing, CloseCoversTurns, CloseDrainsInput,
           Admitted, StopAfterLiveStart
  <2>6. Verdict'
    BY <1>7, CancelTargetKeeps DEF IInv, Verdict, StopAfterLiveStart
  <2>7. WriterIsClaimed'
    BY <1>7, CancelTargetKeeps DEF IInv, WriterIsClaimed, StopAfterLiveStart
  <2>8. QED
    BY <1>7, <2>1, <2>2, <2>3, <2>4, <2>5, <2>6, <2>7, RecordsStay, CausesStay DEF IInv,
           StopAfterLiveStart
<1>8. CASE SettleAfterLiveStart
  <2>1. up /\ conv # "absent"
    BY <1>8 DEF IInv, Records, Fresh, SettleAfterLiveStart
  <2>2. /\ Records' /\ WriterIsClaimed' /\ Inputs' /\ Closing' /\ Verdict'
        /\ conv' \in {"absent"} \cup Admitting \cup Terminal
        /\ op' \in {"absent", "Accepted", "Running"} \cup Terminal
        /\ turn' \in [Positions -> TurnStates] /\ claimed' \in BOOLEAN
        /\ closeMode' = closeMode
    <3>1. /\ UNCHANGED <<up, child, writer, commands, pending, sender, phase, graceful, cancelled,
                         target, closeAt, next, stopper, through, inputFailed, handle, verdict>>
          /\ permission' = "dropped" /\ channel' = <<>>
      BY <1>8 DEF SettleAfterLiveStart
    <3>2. permission = "none" /\ Carried(channel') \subseteq Carried(channel)
      BY <1>8, <3>1, CarriedNone DEF SettleAfterLiveStart, IInv, Starting
    <3>3. Terminalize("Indeterminate", "Retain") \/ UNCHANGED durable
      BY <1>8 DEF SettleAfterLiveStart, TerminalizeErr
    <3>4. QED BY <2>1, <3>1, <3>2, <3>3, EndKeeps
  <2>3. /\ faults' \in 0..MaxFaults /\ crashes' \in 0..MaxCrashes
        /\ failed' \subseteq {"state", "thread", "observation"} /\ failed \subseteq failed'
    <3>1. NoFault \/ Fails("state")
      BY <1>8 DEF SettleAfterLiveStart, Terminalize, TerminalizeErr
    <3>2. QED BY <3>1, FailsType DEF IInv, TypeOK, Fails
  <2>4. TypeOK'
    BY <1>8, <2>2, <2>3 DEF IInv, TypeOK, SettleAfterLiveStart
  <2>5. Starting'
    BY <1>8, <2>2, <2>3 DEF IInv, Starting, SettleAfterLiveStart
  <2>6. Causes'
    BY <1>8, <2>2, <2>3 DEF IInv, Causes, RefusalHasCause, SettleAfterLiveStart
  <2>7. QED
    BY <1>8, <2>1, <2>2, <2>3, <2>4, <2>5, <2>6 DEF IInv, SettleAfterLiveStart
<1>9. QED
  BY <1>1, <1>2, <1>3, <1>4, <1>5, <1>6, <1>7, <1>8 DEF StarterStep

(* Control's observation thread keeps the invariant after it has applied an observation. *)
LEMMA LoopKeeps ==
  ASSUME IInv, ObserverReads \/ ObserverReadFails \/ ObserverStops \/ ObserverSettles \/ ObserverEnds
  PROVE  IInv'
<1>1. CASE ObserverReads
  <2>1. up /\ conv # "absent"
    BY <1>1 DEF IInv, Records, Fresh, ObserverReads
  <2>2. /\ faults' \in 0..MaxFaults /\ crashes' \in 0..MaxCrashes
        /\ failed' \subseteq {"state", "thread", "observation"} /\ failed \subseteq failed'
        /\ refusal' \in BOOLEAN /\ (refusal' => "observation" \in failed')
    <3>1. CASE UNCHANGED <<failed, faults, crashes, refusal>>
      BY <3>1 DEF IInv, TypeOK, Causes, RefusalHasCause
    <3>2. CASE Fails("observation") /\ refusal' = TRUE
      BY <3>2, FailsType DEF IInv, Fails
    <3>3. QED BY <1>1, <3>1, <3>2 DEF ObserverReads
  <2>3. TypeOK'
    BY <1>1, <2>2 DEF IInv, TypeOK, ObserverReads
  <2>4. Starting'
    BY <1>1, <2>2 DEF IInv, Starting, ObserverReads
  <2>5. Causes'
    BY <1>1, <2>2 DEF IInv, Causes, RefusalHasCause, ObserverReads
  <2>6. QED
    BY <1>1, <2>1, <2>2, <2>3, <2>4, <2>5, RecordsStay, InputsStay, ClosingStays,
       VerdictStays, ClaimStays DEF IInv, ObserverReads
<1>2. CASE ObserverReadFails
  <2>1. up /\ conv # "absent"
    BY <1>2 DEF IInv, Records, Fresh, ObserverReadFails
  <2>2. /\ faults' \in 0..MaxFaults /\ crashes' \in 0..MaxCrashes
        /\ failed' \subseteq {"state", "thread", "observation"} /\ failed \subseteq failed'
        /\ refusal' \in BOOLEAN /\ (refusal' => "observation" \in failed')
    <3>1. CASE UNCHANGED <<failed, faults, crashes, refusal>>
      BY <3>1 DEF IInv, TypeOK, Causes, RefusalHasCause
    <3>2. CASE Fails("observation") /\ refusal' = TRUE
      BY <3>2, FailsType DEF IInv, Fails
    <3>3. QED BY <1>2, <3>1, <3>2 DEF ObserverReadFails
  <2>3. TypeOK'
    BY <1>2, <2>2 DEF IInv, TypeOK, ObserverReadFails
  <2>4. Starting'
    BY <1>2, <2>2 DEF IInv, Starting, ObserverReadFails
  <2>5. Causes'
    BY <1>2, <2>2 DEF IInv, Causes, RefusalHasCause, ObserverReadFails
  <2>6. QED
    BY <1>2, <2>1, <2>2, <2>3, <2>4, <2>5, RecordsStay, InputsStay, ClosingStays,
       VerdictStays, ClaimStays DEF IInv, ObserverReadFails
<1>3. CASE ObserverStops
  <2>1. up /\ conv # "absent"
    BY <1>3 DEF IInv, Records, Fresh, ObserverStops
  <2>2. cause' \in {cause, "other"} /\ (cause' = cause => handle \/ cause = "other")
    BY <1>3 DEF ObserverStops
  <2>3. TypeOK'
    BY <1>3, <2>2, CancelTargetType DEF IInv, TypeOK, ObserverStops
  <2>4. Starting'
    BY <1>3, <2>2, CancelTargetType DEF IInv, Starting, ObserverStops
  <2>5. Inputs'
    BY <1>3, <2>2, CancelTargetKeeps DEF IInv, Inputs, InputIsDurable, Admitted,
           ObserverStops
  <2>6. Closing'
    BY <1>3, <2>2, CancelTargetKeeps DEF IInv, Closing, CloseCoversTurns, CloseDrainsInput,
           Admitted, ObserverStops
  <2>7. Verdict'
    BY <1>3, <2>2, CancelTargetKeeps DEF IInv, Verdict, ObserverStops
  <2>8. Causes'
    BY <1>3, <2>2 DEF IInv, Causes, RefusalHasCause, ObserverStops
  <2>9. WriterIsClaimed'
    BY <1>3, <2>2, CancelTargetKeeps DEF IInv, WriterIsClaimed, ObserverStops
  <2>10. QED
    BY <1>3, <2>1, <2>2, <2>3, <2>4, <2>5, <2>6, <2>7, <2>8, <2>9, RecordsStay DEF IInv,
           ObserverStops
<1>4. CASE ObserverSettles
  <2>1. up /\ conv # "absent"
    BY <1>4 DEF IInv, Records, Fresh, ObserverSettles
  <2>2. /\ Records' /\ WriterIsClaimed' /\ Inputs' /\ Closing' /\ Verdict'
        /\ conv' \in {"absent"} \cup Admitting \cup Terminal
        /\ op' \in {"absent", "Accepted", "Running"} \cup Terminal
        /\ turn' \in [Positions -> TurnStates] /\ claimed' \in BOOLEAN
        /\ closeMode' = closeMode
    <3>1. /\ UNCHANGED <<up, child, permission, writer, commands, pending, sender, phase, graceful,
                         cancelled, target, closeAt, next, stopper, through, inputFailed,
                         handle, verdict>>
          /\ Carried(channel') \subseteq Carried(channel) /\ (channel = <<>> => channel' = <<>>)
      BY <1>4, CarriedNone DEF ObserverSettles
    <3>2. Terminalize("Indeterminate", "Retain") \/ UNCHANGED durable
      BY <1>4 DEF ObserverSettles, TerminalizeErr
    <3>3. QED BY <2>1, <3>1, <3>2, EndKeeps
  <2>3. /\ faults' \in 0..MaxFaults /\ crashes' \in 0..MaxCrashes
        /\ failed' \subseteq {"state", "thread", "observation"} /\ failed \subseteq failed'
        /\ refusal' \in BOOLEAN /\ (refusal' => "observation" \in failed')
    <3>1. CASE Terminalize("Indeterminate", "Retain") /\ refusal' = (refusal \/ cause = "state")
      BY <1>4, <3>1 DEF ObserverSettles, Terminalize, IInv, TypeOK, Causes, RefusalHasCause
    <3>2. CASE TerminalizeErr("Indeterminate", "observation") /\ refusal' = TRUE
      BY <3>2, TerminalizeErrKeeps
    <3>3. QED BY <1>4, <3>1, <3>2 DEF ObserverSettles
  <2>4. TypeOK'
    BY <1>4, <2>2, <2>3 DEF IInv, TypeOK, ObserverSettles
  <2>5. Starting'
    BY <1>4, <2>2, <2>3 DEF IInv, Starting, ObserverSettles, Terminalize, TerminalizeErr
  <2>6. Causes'
    BY <1>4, <2>2, <2>3 DEF IInv, Causes, RefusalHasCause, ObserverSettles
  <2>7. QED
    BY <1>4, <2>1, <2>2, <2>3, <2>4, <2>5, <2>6 DEF IInv, ObserverSettles
<1>5. CASE ObserverEnds
  <2>1. up /\ conv # "absent"
    BY <1>5 DEF IInv, Records, Fresh, ObserverEnds
  <2>2. /\ Records' /\ WriterIsClaimed' /\ Inputs' /\ Closing' /\ Verdict'
        /\ conv' \in {"absent"} \cup Admitting \cup Terminal
        /\ op' \in {"absent", "Accepted", "Running"} \cup Terminal
        /\ turn' \in [Positions -> TurnStates] /\ claimed' \in BOOLEAN
        /\ closeMode' = closeMode
    <3>1. /\ UNCHANGED <<up, child, permission, writer, commands, pending, sender, phase, graceful,
                         cancelled, target, closeAt, next, stopper, through, inputFailed,
                         handle, verdict>>
          /\ Carried(channel') \subseteq Carried(channel) /\ (channel = <<>> => channel' = <<>>)
      BY <1>5, CarriedNone DEF ObserverEnds
    <3>2. Terminalize("Indeterminate", "Retain") \/ UNCHANGED durable
      BY <1>5 DEF ObserverEnds, TerminalizeErr
    <3>3. QED BY <2>1, <3>1, <3>2, EndKeeps
  <2>3. /\ faults' \in 0..MaxFaults /\ crashes' \in 0..MaxCrashes
        /\ failed' \subseteq {"state", "thread", "observation"} /\ failed \subseteq failed'
        /\ refusal' \in BOOLEAN /\ (refusal' => "observation" \in failed')
    <3>1. CASE UNCHANGED <<failed, faults, crashes, refusal>>
      BY <3>1 DEF IInv, TypeOK, Causes, RefusalHasCause
    <3>2. CASE Fails("observation") /\ refusal' = TRUE
      BY <3>2, FailsType DEF IInv, Fails
    <3>3. QED BY <1>5, <3>1, <3>2 DEF ObserverEnds, Terminalize
  <2>4. TypeOK'
    BY <1>5, <2>2, <2>3 DEF IInv, TypeOK, ObserverEnds
  <2>5. Starting'
    BY <1>5, <2>2, <2>3 DEF IInv, Starting, ObserverEnds, Terminalize, TerminalizeErr
  <2>6. Causes'
    BY <1>5, <2>2, <2>3 DEF IInv, Causes, RefusalHasCause, ObserverEnds
  <2>7. QED
    BY <1>5, <2>1, <2>2, <2>3, <2>4, <2>5, <2>6 DEF IInv, ObserverEnds
<1>6. QED
  BY <1>1, <1>2, <1>3, <1>4, <1>5
(* An applied observation, or one that could not be applied. *)
LEMMA ApplyKeeps ==
  ASSUME IInv, ObserverApplies
  PROVE  IInv'
<1>1. up /\ conv # "absent" /\ ctl = "receiving" /\ channel # <<>> /\ channel' = Tail(channel)
  BY DEF IInv, Records, Fresh, ObserverApplies
<1>2. /\ channel \in Seq(Observations) /\ Head(channel) \in Observations
      /\ Head(channel) \in Carried(channel)
      /\ channel' \in Seq(Observations) /\ Carried(channel') \subseteq Carried(channel)
  BY <1>1, CarriedTail DEF IInv, TypeOK
<1>3. /\ UNCHANGED <<requests, admission, input, output, stopping, up, refusal>>
      /\ ApplyOk(Head(channel)) \/ ApplyErr(Head(channel))
  BY DEF ObserverApplies
<1>4. starter \in {"idle", "observed"}
  BY <1>1 DEF IInv, TypeOK, Starting
<1>5. CASE ApplyOk(Head(channel))
  <2>1. ctl' = "applied" /\ cause' = cause
    BY <1>5 DEF ApplyOk
  <2>2. /\ Records' /\ WriterIsClaimed' /\ Inputs' /\ Closing' /\ Verdict'
        /\ conv' \in {"absent"} \cup Admitting \cup Terminal
        /\ op' \in {"absent", "Accepted", "Running"} \cup Terminal
        /\ turn' \in [Positions -> TurnStates] /\ claimed' \in BOOLEAN
        /\ UNCHANGED <<closeMode, env>>
    <3>1. CASE Head(channel)[1] \in TurnEvents
      <4>1. Head(channel)[2] \in Positions
        BY <1>2, <3>1 DEF Observations, TurnEvents, Verdicts
      <4>2. PICK state \in {"Started", "Completed", "Failed"} :
              /\ RecordTurn(Head(channel)[2], state)
              /\ state = "Failed" => Head(channel)[1] = "TurnFailed"
        BY <1>5, <3>1 DEF ApplyOk, EventState, TurnEvents
      <4>3. state = "Failed" => verdict = "Failed"
        BY <1>2, <4>2 DEF IInv, Verdict
      <4>4. QED BY <1>1, <1>2, <1>3, <4>1, <4>2, <4>3, RecordKeeps DEF IInv, TypeOK
    <3>2. CASE Head(channel)[1] \notin TurnEvents
      <4>1. Head(channel)[1] \in Verdicts /\ Applies(Head(channel)[1])
        BY <1>2, <1>5, <3>2 DEF ApplyOk, Observations
      <4>2. QED BY <1>1, <1>2, <1>3, <4>1, AppliesKeeps
    <3>3. QED BY <3>1, <3>2
  <2>3. op' # "Accepted" \/ op' = op
    <3>1. CASE Head(channel)[1] \in TurnEvents
      BY <1>5, <3>1 DEF ApplyOk, RecordTurn
    <3>2. CASE Head(channel)[1] \notin TurnEvents
      <4>1. Head(channel)[1] \in Verdicts /\ Applies(Head(channel)[1])
        BY <1>2, <1>5, <3>2 DEF ApplyOk, Observations
      <4>2. PICK state \in Terminal, disposition \in {"Release", "Retain"} :
              Terminalize(state, disposition)
        BY <4>1 DEF Applies, Verdicts
      <4>3. QED BY <4>2 DEF Terminalize
    <3>3. QED BY <3>1, <3>2
  <2>4. TypeOK'
    BY <1>2, <1>3, <2>1, <2>2 DEF IInv, TypeOK
  <2>5. Starting'
    BY <1>3, <1>4, <2>1, <2>3 DEF IInv, Starting
  <2>6. Causes'
    BY <1>3, <2>1, <2>2 DEF IInv, Causes, RefusalHasCause
  <2>7. QED BY <2>2, <2>4, <2>5, <2>6 DEF IInv
<1>6. CASE ApplyErr(Head(channel))
  <2>1. ctl' = "failing" /\ UNCHANGED durable /\ cause' \in {"state", "other"}
    BY <1>6 DEF ApplyErr
  <2>2. /\ faults' \in 0..MaxFaults /\ crashes' \in 0..MaxCrashes
        /\ failed' \subseteq {"state", "thread", "observation"} /\ failed \subseteq failed'
    <3>1. NoFault \/ Fails("observation")
      BY <1>6 DEF ApplyErr
    <3>2. QED BY <3>1, FailsType DEF IInv, TypeOK, Fails
  <2>3. cause' = "state" => "observation" \in failed' \/ ~handle
    <3>1. CASE Head(channel)[1] = "Exited"
      BY <1>2, <3>1 DEF IInv, Verdict, Verdicts
    <3>2. CASE Fails("observation")
      BY <3>2 DEF Fails
    <3>3. QED BY <1>6, <3>1, <3>2 DEF ApplyErr
  <2>4. TypeOK'
    BY <1>2, <1>3, <2>1, <2>2 DEF IInv, TypeOK
  <2>5. Starting'
    BY <1>3, <1>4, <2>1 DEF IInv, Starting
  <2>6. Verdict'
    BY <1>1, <1>2, <1>3, <2>1 DEF IInv, Verdict
  <2>7. Causes'
    BY <1>3, <2>1, <2>2, <2>3 DEF IInv, Causes, RefusalHasCause
  <2>8. QED
    BY <1>1, <1>3, <2>1, <2>4, <2>5, <2>6, <2>7, RecordsStay, InputsStay, ClosingStays, ClaimStays
       DEF IInv
<1>7. QED BY <1>3, <1>5, <1>6

(* Admission finds no trace of the conversation anywhere. *)
LEMMA AdmissionKeeps ==
  ASSUME IInv, StartPersist
  PROVE  IInv'
<1>1. /\ up' = up /\ up /\ Fresh /\ child = "none" /\ Admitted = {}
      /\ conv' = "Open" /\ op' = "Accepted" /\ claimed' = TRUE /\ starter' = "persisted"
      /\ turn' = [turn EXCEPT ![1] = "Queued"]
  BY DEF IInv, Records, StartPersist
<1>2. Admitted' = {1} /\ {1} = 1..1 /\ 1 \in Positions
  BY <1>1, FirstPosition DEF IInv, TypeOK, Admitted
<1>3. \A p \in Positions : turn'[p] \in {"absent", "Queued"}
  BY <1>1 DEF IInv, TypeOK, Admitted
<1>4. TypeOK'
  <2>1. {claimed', up', refusal', handle', cancelled', broken', inputFailed'} \subseteq BOOLEAN
    BY <1>1 DEF IInv, TypeOK, StartPersist
  <2>2. turn' \in [Positions -> TurnStates]
    BY <1>1, <1>2 DEF IInv, TypeOK, TurnStates
  <2>3. /\ conv' = "Open" /\ op' = "Accepted" /\ starter' = "persisted"
        /\ UNCHANGED <<closeMode, child, sender, stopper, through, ctl, cause, admitted, graceful,
                       commands, permission, writer, pending, next, closeAt, phase, target,
                       verdict, channel, failed, faults, crashes>>
    BY DEF StartPersist
  <2>4. QED BY <2>1, <2>2, <2>3 DEF IInv, TypeOK
<1>5. Records'
  BY <1>1, <1>2, <1>3 DEF Records, RecordsAgree
<1>6. Starting'
  BY <1>1 DEF Starting, StartPersist, Fresh
<1>7. Inputs'
  BY <1>1, CarriedNone DEF Inputs, InputIsDurable, StartPersist, Fresh
<1>8. Closing'
  BY <1>1, CarriedNone DEF Closing, CloseCoversTurns, CloseDrainsInput, StartPersist, Fresh
<1>9. Verdict'
  BY <1>1, <1>3, CarriedNone DEF Verdict, StartPersist, Fresh
<1>10. Causes' /\ WriterIsClaimed'
  BY <1>1 DEF Causes, RefusalHasCause, WriterIsClaimed, StartPersist, Fresh
<1>11. QED BY <1>4, <1>5, <1>6, <1>7, <1>8, <1>9, <1>10 DEF IInv

(* The memory of a daemon that has just started satisfies the parts of the *)
(* invariant that speak of it, whatever the records are.                   *)
LEMMA FreshMemory ==
  Fresh => /\ Starting /\ Inputs /\ Closing /\ Causes
           /\ ~up \/ conv \notin Admitting => Verdict
<1>1. SUFFICES ASSUME Fresh
               PROVE  /\ Starting /\ Inputs /\ Closing /\ Causes
                      /\ ~up \/ conv \notin Admitting => Verdict
  OBVIOUS
<1>2. Carried(channel) = {} /\ Carried(commands) = {}
  BY <1>1, CarriedNone DEF Fresh
<1>3. Starting
  BY <1>1 DEF Fresh, Starting
<1>4. Closing
  BY <1>1, <1>2 DEF Fresh, Closing, CloseCoversTurns, CloseDrainsInput
<1>5. Causes /\ Inputs
  BY <1>1, <1>2 DEF Fresh, Causes, RefusalHasCause, Inputs, InputIsDurable
<1>6. ~up \/ conv \notin Admitting => Verdict
  BY <1>1, <1>2 DEF Fresh, Verdict
<1>7. QED BY <1>3, <1>4, <1>5, <1>6

(* And it has the types of the variables. *)
LEMMA FreshTypes ==
  Fresh /\ conv \in {"absent"} \cup Admitting \cup Terminal
        /\ op \in {"absent", "Accepted", "Running"} \cup Terminal
        /\ turn \in [Positions -> TurnStates] /\ claimed \in BOOLEAN /\ up \in BOOLEAN
        /\ closeMode \in {"none"} \cup Modes /\ child \in {"none"} \cup Writing \cup Exited
        /\ faults \in 0..MaxFaults /\ crashes \in 0..MaxCrashes
  => TypeOK
<1>1. SUFFICES ASSUME Fresh, conv \in {"absent"} \cup Admitting \cup Terminal,
                      op \in {"absent", "Accepted", "Running"} \cup Terminal,
                      turn \in [Positions -> TurnStates], claimed \in BOOLEAN, up \in BOOLEAN,
                      closeMode \in {"none"} \cup Modes,
                      child \in {"none"} \cup Writing \cup Exited,
                      faults \in 0..MaxFaults, crashes \in 0..MaxCrashes
               PROVE  TypeOK
  OBVIOUS
<1>2. {claimed, up, refusal, handle, cancelled, broken, inputFailed} \subseteq BOOLEAN
  BY <1>1 DEF Fresh
<1>3. /\ sender \in [Positions -> {"idle", "persisted", "admitted", "failed", "closing", "stopping"}]
      /\ stopper \in [Modes -> {"idle", "closed"}]
      /\ phase \in [Positions -> {"none", "AwaitingQueue", "Queued", "Started",
                                  "ResultObserved", "Completed"}]
  BY <1>1 DEF Fresh
<1>4. commands \in Seq(Commands) /\ channel \in Seq(Observations)
  BY <1>1 DEF Fresh
<1>5. /\ next \in 1..(MaxTurns + 1) /\ through \in 0..MaxTurns /\ graceful \in 0..MaxTurns
      /\ closeAt \in 0..MaxTurns
  BY <1>1, LiveBoundsAssumption DEF Fresh
<1>6. /\ starter = "idle" /\ ctl = "none" /\ cause = "none" /\ admitted = {} /\ pending = {}
      /\ permission = "none" /\ writer = "none" /\ target = "none" /\ verdict = "none"
      /\ failed = {}
  BY <1>1 DEF Fresh
<1>7. QED BY <1>1, <1>2, <1>3, <1>4, <1>5, <1>6 DEF TypeOK

(* A crash loses the memory of the daemon and leaves the records. *)
LEMMA CrashKeeps ==
  ASSUME IInv, Crash
  PROVE  IInv'
<1>1. Fresh' /\ up' = FALSE /\ UNCHANGED <<conv, closeMode, op, turn, claimed, child, faults>>
  BY DEF Crash, Fresh
<1>2. crashes' \in 0..MaxCrashes
  BY LiveBoundsAssumption DEF IInv, TypeOK, Crash
<1>3. (Fresh /\ conv \in {"absent"} \cup Admitting \cup Terminal
             /\ op \in {"absent", "Accepted", "Running"} \cup Terminal
             /\ turn \in [Positions -> TurnStates] /\ claimed \in BOOLEAN /\ up \in BOOLEAN
             /\ closeMode \in {"none"} \cup Modes /\ child \in {"none"} \cup Writing \cup Exited
             /\ faults \in 0..MaxFaults /\ crashes \in 0..MaxCrashes)'
  BY <1>1, <1>2 DEF IInv, TypeOK
<1>4. TypeOK'
  BY <1>3, FreshTypes, PTL
<1>5. Records'
  BY <1>1 DEF IInv, Records, RecordsAgree, Admitted
<1>6. (Starting /\ Inputs /\ Closing /\ Causes /\ (~up \/ conv \notin Admitting => Verdict))'
  BY <1>1, FreshMemory, PTL
<1>7. WriterIsClaimed'
  BY <1>1 DEF IInv, WriterIsClaimed
<1>8. QED BY <1>1, <1>4, <1>5, <1>6, <1>7 DEF IInv

(* A restart resolves the records of an incomplete conversation, and       *)
(* releases no claim.                                                      *)
LEMMA RestartKeeps ==
  ASSUME IInv, Restart
  PROVE  IInv'
<1>1. /\ Fresh /\ up' = TRUE
      /\ UNCHANGED <<closeMode, claimed, child, faults, crashes>>
  BY DEF IInv, Records, Restart
<1>2. Fresh'
  BY <1>1 DEF Restart, Fresh
<1>3. /\ conv' \in {"absent"} \cup Terminal /\ (conv' = "absent" <=> conv = "absent")
      /\ op' \in {"absent", "Accepted", "Running"} \cup Terminal
      /\ turn' \in [Positions -> TurnStates] /\ Admitted' = Admitted /\ RecordsAgree'
  <2>1. CASE Incomplete
    <3>1. /\ conv' = "Indeterminate" /\ op' = "Indeterminate"
          /\ turn' = [p \in Positions |-> Resolved("Indeterminate", turn[p])]
      BY <2>1 DEF Restart
    <3>2. \A p \in Positions : turn'[p] = IF turn[p] \in Unfinished THEN "Indeterminate" ELSE turn[p]
      BY <3>1 DEF Resolved
    <3>3. \A p \in Positions : turn[p] \in TurnStates
      BY DEF IInv, TypeOK
    <3>4. turn' \in [Positions -> TurnStates] /\ \A p \in Positions : turn'[p] \notin Unfinished
      BY <3>1, <3>2, <3>3 DEF TurnStates
    <3>5. Admitted' = Admitted
      BY <3>2 DEF Admitted
    <3>6. QED BY <2>1, <3>1, <3>4, <3>5 DEF RecordsAgree
  <2>2. CASE ~Incomplete
    BY <2>2 DEF IInv, TypeOK, Records, RecordsAgree, Admitted, Restart
  <2>3. QED BY <2>1, <2>2
<1>4. Records'
  BY <1>1, <1>2, <1>3 DEF IInv, Records
<1>5. (Fresh /\ conv \in {"absent"} \cup Admitting \cup Terminal
             /\ op \in {"absent", "Accepted", "Running"} \cup Terminal
             /\ turn \in [Positions -> TurnStates] /\ claimed \in BOOLEAN /\ up \in BOOLEAN
             /\ closeMode \in {"none"} \cup Modes /\ child \in {"none"} \cup Writing \cup Exited
             /\ faults \in 0..MaxFaults /\ crashes \in 0..MaxCrashes)'
  BY <1>1, <1>2, <1>3 DEF IInv, TypeOK
<1>6. TypeOK'
  BY <1>5, FreshTypes, PTL
<1>7. (Starting /\ Inputs /\ Closing /\ Causes /\ (~up \/ conv \notin Admitting => Verdict))'
  BY <1>2, FreshMemory, PTL
<1>8. WriterIsClaimed'
  BY <1>1 DEF IInv, WriterIsClaimed
<1>9. QED BY <1>3, <1>4, <1>6, <1>7, <1>8 DEF IInv

----------------------------------------------------------------------------
(* The invariant is inductive *)

(* The initial states satisfy it. *)
LEMMA InitHolds == Init => IInv
<1>1. SUFFICES ASSUME Init
               PROVE  IInv
  OBVIOUS
<1>2. TypeOK
  <2>1. turn \in [Positions -> TurnStates] /\ claimed \in BOOLEAN /\ up \in BOOLEAN
    BY <1>1 DEF Init, TurnStates
  <2>2. faults \in 0..MaxFaults /\ crashes \in 0..MaxCrashes
    BY <1>1, LiveBoundsAssumption DEF Init
  <2>3. QED BY <1>1, <2>1, <2>2, FreshTypes DEF Init
<1>3. Admitted = {}
  BY <1>1 DEF Init, Admitted
<1>4. Records
  BY <1>1, <1>3 DEF Init, Records, RecordsAgree
<1>5. Starting /\ Inputs /\ Closing /\ Causes /\ Verdict
  BY <1>1, FreshMemory DEF Init
<1>6. QED BY <1>1, <1>2, <1>4, <1>5 DEF IInv, Init, WriterIsClaimed

(* A step that changes nothing keeps it. *)
LEMMA StutterKeeps ==
  ASSUME IInv, UNCHANGED vars
  PROVE  IInv'
<1>1. TypeOK'
  BY DEF IInv, TypeOK
<1>2. Records'
  BY DEF IInv, Records, RecordsAgree, Admitted, Fresh
<1>3. QED
  BY <1>1, <1>2, StartingStays, InputsStay, ClosingStays, VerdictStays, CausesStay, ClaimStays
     DEF IInv

(* Every step keeps it. *)
LEMMA NextKeeps == IInv /\ [Next]_vars => IInv'
<1>1. SUFFICES ASSUME IInv, [Next]_vars
               PROVE  IInv'
  OBVIOUS
<1>2. CASE StartPersist
  BY <1>1, <1>2, AdmissionKeeps
<1>3. CASE StarterStep
  BY <1>1, <1>3, StarterKeeps
<1>4. ASSUME NEW p \in Positions, SendPersist(p) \/ SenderStep(p)
      PROVE  IInv'
  BY <1>1, <1>4, SenderKeeps
<1>5. ASSUME NEW m \in Modes, StopClose(m) \/ StopGraceful \/ StopCancel
      PROVE  IInv'
  BY <1>1, <1>5, StopperKeeps
<1>6. CASE WriterStep
  BY <1>1, <1>6, WriterKeeps
<1>7. CASE TargetStep \/ Reads
  BY <1>1, <1>7, TargetKeeps
<1>8. CASE ChildExits \/ KilledChildExits
  BY <1>1, <1>8, ChildKeeps
<1>9. CASE ObserverStep
  BY <1>1, <1>9, ApplyKeeps, LoopKeeps DEF ObserverStep
<1>10. CASE Crash \/ Restart
  BY <1>1, <1>10, CrashKeeps, RestartKeeps
<1>11. CASE Quiescent \/ UNCHANGED vars
  BY <1>1, <1>11, StutterKeeps DEF Quiescent
<1>12. CASE \E m \in Modes : StopClose(m)
  BY <1>5, <1>12
<1>13. CASE StopGraceful \/ StopCancel
  BY <1>5, <1>13
<1>14. CASE \E p \in Positions : SendPersist(p) \/ SenderStep(p)
  BY <1>4, <1>14
<1>15. QED
  BY <1>1, <1>2, <1>3, <1>6, <1>7, <1>8, <1>9, <1>10, <1>11, <1>12, <1>13, <1>14 DEF Next

(* In every reachable state, whatever the number of turns, faults and      *)
(* crashes, and whether kills and waits succeed or not, the records, the   *)
(* threads of Control and those of Target are in step with each other.     *)
THEOREM Inductive == Spec => []IInv
  BY InitHolds, NextKeeps, PTL DEF Spec

----------------------------------------------------------------------------
(* What follows *)

(* Every variable keeps its type. *)
THEOREM TypeCorrect == Spec => []TypeOK
<1>1. IInv => TypeOK
  BY DEF IInv
<1>2. QED BY <1>1, Inductive, PTL

(* A conversation, its operation and its turns end together and agree on   *)
(* how: one that succeeded has answered every turn, one that ended has no  *)
(* unfinished turn (terminalize_conversation, resolve_unfinished and the   *)
(* recovery of incomplete conversations).                                  *)
THEOREM RecordsStayAgreed == Spec => []RecordsAgree
<1>1. IInv => RecordsAgree
  BY DEF IInv, Records
<1>2. QED BY <1>1, Inductive, PTL

(* A child whose exit has not been reached keeps its session claimed, also *)
(* when a kill or a wait fails, when Control gives up, and across crashes. *)
THEOREM ClaimOutlivesChild == Spec => []WriterIsClaimed
<1>1. IInv => WriterIsClaimed
  BY DEF IInv
<1>2. QED BY <1>1, Inductive, PTL

(* A turn reaches the child only after it is durable, and after its        *)
(* operation durably runs.                                                 *)
THEOREM DurableBeforeInput == Spec => []InputIsDurable
<1>1. IInv => InputIsDurable
  BY DEF IInv, Inputs
<1>2. QED BY <1>1, Inductive, PTL

(* No turn is admitted beyond a graceful close, so Target refuses none.    *)
THEOREM NoTurnBeyondClose == Spec => []CloseCoversTurns
<1>1. IInv => CloseCoversTurns
  BY DEF IInv, Closing
<1>2. QED BY <1>1, Inductive, PTL

(* The input of a conversation that is neither cancelled nor failing is    *)
(* closed only behind every admitted turn, whatever the order in which the *)
(* senders reach the writer.                                               *)
THEOREM InputIsDrained == Spec => []CloseDrainsInput
<1>1. IInv => CloseDrainsInput
  BY DEF IInv, Closing
<1>2. QED BY <1>1, Inductive, PTL

(* Requests are refused only after State has failed the observation        *)
(* thread: an exit that Control rejects finds the runtime gone, so its     *)
(* cause is not reported as one of State's.                                *)
THEOREM RefusalIsCaused == Spec => []RefusalHasCause
<1>1. IInv => RefusalHasCause
  BY DEF IInv, Causes
<1>2. QED BY <1>1, Inductive, PTL

----------------------------------------------------------------------------
(* A live conversation implements the promise of SessionWriter *)

(* A step that leaves the claim, the child and the phase of the            *)
(* conversation alone is none of the promise.                              *)
LEMMA OutsideStutters ==
  ASSUME claimed' = claimed, child' \in Writing <=> child \in Writing,
         conv' = "absent" <=> conv = "absent", conv' \in Admitting <=> conv \in Admitting
  PROVE  UNCHANGED Promise!vars
  BY DEF Promise!vars, Phase

(* A cancellation of the target does not end a child: SIGKILL does, later. *)
LEMMA CancelStutters ==
  ASSUME IInv, CancelTarget, claimed' = claimed,
         conv' = "absent" <=> conv = "absent", conv' \in Admitting <=> conv \in Admitting
  PROVE  UNCHANGED Promise!vars
<1>1. child' \in Writing <=> child \in Writing
  BY CancelTargetType DEF IInv
<1>2. QED BY <1>1, OutsideStutters

(* A committed end of the conversation settles or abandons it, with the    *)
(* claim; a refused one changes nothing.                                   *)
LEMMA EndRefines ==
  ASSUME IInv, NEW state \in Terminal, NEW disposition \in {"Release", "Retain"},
         Terminalize(state, disposition) \/ UNCHANGED durable, child' = child,
         disposition = "Release" => child \notin Writing
  PROVE  [Promise!Next]_(Promise!vars)
<1>1. CASE UNCHANGED durable
  BY <1>1, OutsideStutters
<1>2. CASE Terminalize(state, disposition)
  <2>1. /\ conv \in Admitting /\ claimed /\ conv' = state
        /\ claimed' = (claimed /\ disposition = "Retain")
    BY <1>2 DEF IInv, Records, Terminalize, ClaimAfter
  <2>2. Phase = "live" /\ Phase' = IF disposition = "Retain" THEN "unclassified" ELSE "settled"
    BY <2>1 DEF Phase
  <2>3. CASE disposition = "Release"
    <3>1. Promise!Settle(1)
      BY <2>1, <2>2, <2>3 DEF Promise!Settle
    <3>2. QED BY <3>1 DEF Promise!Next
  <2>4. CASE disposition = "Retain"
    <3>1. Promise!Abandon({1})
      BY <2>1, <2>2, <2>4 DEF Promise!Abandon
    <3>2. QED BY <3>1 DEF Promise!Next
  <2>5. QED BY <2>3, <2>4
<1>3. QED BY <1>1, <1>2

(* Admission acquires the session. *)
LEMMA AdmissionRefines ==
  ASSUME IInv, StartPersist
  PROVE  [Promise!Next]_(Promise!vars)
<1>1. conv = "absent" /\ ~claimed /\ conv' = "Open" /\ claimed' = TRUE /\ child' = child
  BY DEF IInv, Records, StartPersist
<1>2. Phase = "fresh" /\ Phase' = "live"
  BY <1>1 DEF Phase
<1>3. Promise!Acquire(1, 1)
  BY <1>1, <1>2 DEF Promise!Acquire
<1>4. QED BY <1>3 DEF Promise!Next

(* The spawn of the child, also of one whose cleanup could not be proven.  *)
LEMMA SpawnRefines ==
  ASSUME IInv, starter = "persisted", child' \in Writing, UNCHANGED durable
  PROVE  [Promise!Next]_(Promise!vars)
<1>1. conv \in Admitting /\ child = "none"
  BY DEF IInv, Starting
<1>2. Phase = "live" /\ Phase' = "live"
  BY <1>1 DEF Phase
<1>3. Promise!BeginWriting(1)
  BY <1>1, <1>2 DEF Promise!BeginWriting
<1>4. QED BY <1>3 DEF Promise!Next

(* The exit of the child, while the daemon serves or is down. *)
LEMMA ExitRefines ==
  ASSUME child \in Writing, child' \in Exited, UNCHANGED durable
  PROVE  [Promise!Next]_(Promise!vars)
<1>1. child' \notin Writing /\ Phase' = Phase
  BY DEF Phase
<1>2. Promise!StopWriting(1)
  BY <1>1 DEF Promise!StopWriting
<1>3. QED BY <1>2 DEF Promise!Next

(* A restart abandons an incomplete conversation and keeps its claim. *)
LEMMA RestartRefines ==
  ASSUME IInv, Restart
  PROVE  [Promise!Next]_(Promise!vars)
<1>1. claimed' = claimed /\ child' = child
  BY DEF Restart
<1>2. CASE conv \in Admitting
  <2>1. claimed /\ conv' = "Indeterminate"
    BY <1>2 DEF IInv, Records, Restart
  <2>2. Phase = "live" /\ Phase' = "unclassified"
    BY <1>1, <1>2, <2>1 DEF Phase
  <2>3. Promise!Abandon({1})
    BY <1>1, <2>2 DEF Promise!Abandon
  <2>4. QED BY <2>3 DEF Promise!Next
<1>3. CASE conv \notin Admitting
  BY <1>1, <1>3, OutsideStutters DEF Restart
<1>4. QED BY <1>2, <1>3

(* The starting thread. *)
LEMMA StarterRefines ==
  ASSUME IInv, StarterStep
  PROVE  [Promise!Next]_(Promise!vars)
<1>1. CASE StartLive
  BY <1>1, SpawnRefines DEF StartLive
<1>2. CASE StartLiveFails
  <2>1. starter = "persisted" /\ child = "none" /\ UNCHANGED durable
    BY <1>2 DEF IInv, Starting, StartLiveFails
  <2>2. CASE child' \in Writing
    BY <2>1, <2>2, SpawnRefines
  <2>3. CASE child' \notin Writing
    BY <2>1, <2>3, OutsideStutters
  <2>4. QED BY <2>2, <2>3
<1>3. CASE FinishWithoutWorker
  <2>1. PICK state \in {"Failed", "Indeterminate"}, disposition \in {"Release", "Retain"} :
          /\ Terminalize(state, disposition) \/ UNCHANGED durable
          /\ disposition = "Release" => starter = "no_writer"
    BY <1>3 DEF FinishWithoutWorker, TerminalizeErr
  <2>2. child' = child
    BY <1>3 DEF FinishWithoutWorker
  <2>3. disposition = "Release" => child \notin Writing
    BY <2>1 DEF IInv, Starting
  <2>4. QED BY <2>1, <2>2, <2>3, EndRefines
<1>4. CASE StartRunning
  BY <1>4, OutsideStutters DEF StartRunning
<1>5. CASE StartObserver \/ GrantPermission
  BY <1>5, OutsideStutters DEF StartObserver, GrantPermission
<1>6. CASE StopAfterLiveStart
  BY <1>6, CancelStutters DEF StopAfterLiveStart
<1>7. CASE SettleAfterLiveStart
  <2>1. (Terminalize("Indeterminate", "Retain") \/ UNCHANGED durable) /\ child' = child
    BY <1>7 DEF SettleAfterLiveStart, TerminalizeErr
  <2>2. QED BY <2>1, EndRefines
<1>8. QED BY <1>1, <1>2, <1>3, <1>4, <1>5, <1>6, <1>7 DEF StarterStep

(* The requests that send and stop. *)
LEMMA RequestsRefine ==
  ASSUME IInv, \/ \E p \in Positions : SendPersist(p) \/ SenderStep(p)
               \/ \E m \in Modes : StopClose(m)
               \/ StopGraceful \/ StopCancel
  PROVE  [Promise!Next]_(Promise!vars)
<1>1. ASSUME NEW p \in Positions, SendPersist(p) \/ SendAdmit(p) \/ SendCommand(p)
      PROVE  UNCHANGED Promise!vars
  BY <1>1, OutsideStutters DEF SendPersist, SendAdmit, SendCommand
<1>2. ASSUME NEW p \in Positions, SendReadsFailure(p) \/ SendStateFails(p)
      PROVE  UNCHANGED Promise!vars
  BY <1>2, OutsideStutters DEF SendReadsFailure, SendStateFails
<1>3. ASSUME NEW p \in Positions, SendCloses(p)
      PROVE  UNCHANGED Promise!vars
  BY <1>3, OutsideStutters DEF SendCloses, CloseWrites
<1>4. ASSUME NEW p \in Positions, SendStops(p)
      PROVE  UNCHANGED Promise!vars
  BY <1>4, CancelStutters DEF SendStops
<1>5. ASSUME NEW m \in Modes, StopClose(m)
      PROVE  UNCHANGED Promise!vars
  BY <1>5, OutsideStutters DEF StopClose, CloseWrites
<1>6. CASE StopGraceful
  BY <1>6, OutsideStutters DEF StopGraceful
<1>7. CASE StopCancel
  BY <1>7, CancelStutters DEF StopCancel
<1>8. QED BY <1>1, <1>2, <1>3, <1>4, <1>5, <1>6, <1>7 DEF SenderStep

(* The input writer writes to the child, and neither ends nor starts it. *)
LEMMA WriterRefines ==
  ASSUME IInv, WriterStep
  PROVE  [Promise!Next]_(Promise!vars)
<1>1. UNCHANGED <<durable, child>>
  BY DEF WriterStep, WriterStarts, WriteTurn, CloseInput, ReceiveCommand
<1>2. QED BY <1>1, OutsideStutters

(* Target's observer kills the child, and does not release its claim. *)
LEMMA TargetRefines ==
  ASSUME IInv, TargetStep \/ Reads
  PROVE  [Promise!Next]_(Promise!vars)
<1>1. UNCHANGED durable /\ (child' = child \/ child' \in AfterKill)
  BY DEF TargetStep, Reads, ObserveExit, PublishAfterCleanup, ReadError, ReadLine, ReadFailure,
         Terminates
<1>2. child' \in Writing <=> child \in Writing
  BY <1>1, KillType DEF IInv
<1>3. QED BY <1>1, <1>2, OutsideStutters

(* Control's observation thread releases the claim only on a verdict of an *)
(* observed exit.                                                          *)
LEMMA ObserverRefines ==
  ASSUME IInv, ObserverStep
  PROVE  [Promise!Next]_(Promise!vars)
<1>1. CASE ObserverApplies
  <2>1. /\ child' = child /\ Head(channel) \in Carried(channel) /\ Head(channel) \in Observations
        /\ ApplyOk(Head(channel)) \/ ApplyErr(Head(channel))
    BY <1>1, CarriedTail DEF IInv, TypeOK, ObserverApplies
  <2>2. CASE ApplyErr(Head(channel))
    BY <2>1, <2>2, OutsideStutters DEF ApplyErr
  <2>3. CASE ApplyOk(Head(channel)) /\ Head(channel)[1] \in TurnEvents
    BY <2>1, <2>3, OutsideStutters DEF ApplyOk, RecordTurn
  <2>4. CASE ApplyOk(Head(channel)) /\ Head(channel)[1] \notin TurnEvents
    <3>1. Head(channel)[1] \in Verdicts /\ Applies(Head(channel)[1])
      BY <2>1, <2>4 DEF ApplyOk, Observations
    <3>2. PICK state \in Terminal, disposition \in {"Release", "Retain"} :
            /\ Terminalize(state, disposition)
            /\ disposition = "Release" => Head(channel)[1] # "UnclassifiedWriter"
      BY <3>1 DEF Applies, Verdicts
    <3>3. disposition = "Release" => child \notin Writing
      BY <2>1, <3>1, <3>2 DEF IInv, Verdict
    <3>4. QED BY <2>1, <3>2, <3>3, EndRefines
  <2>5. QED BY <2>1, <2>2, <2>3, <2>4
<1>2. CASE ObserverReads \/ ObserverReadFails
  BY <1>2, OutsideStutters DEF ObserverReads, ObserverReadFails
<1>3. CASE ObserverStops
  BY <1>3, CancelStutters DEF ObserverStops
<1>4. CASE ObserverSettles \/ ObserverEnds
  <2>1. (Terminalize("Indeterminate", "Retain") \/ UNCHANGED durable) /\ child' = child
    BY <1>4 DEF ObserverSettles, ObserverEnds, TerminalizeErr
  <2>2. QED BY <2>1, EndRefines
<1>5. QED BY <1>1, <1>2, <1>3, <1>4 DEF ObserverStep

(* Every step is a step of the promise, or none. *)
LEMMA StepRefines == IInv /\ [Next]_vars => [Promise!Next]_(Promise!vars)
<1>1. SUFFICES ASSUME IInv, [Next]_vars
               PROVE  [Promise!Next]_(Promise!vars)
  OBVIOUS
<1>2. CASE StartPersist
  BY <1>1, <1>2, AdmissionRefines
<1>3. CASE StarterStep
  BY <1>1, <1>3, StarterRefines
<1>4. CASE \/ \E p \in Positions : SendPersist(p) \/ SenderStep(p)
           \/ \E m \in Modes : StopClose(m)
           \/ StopGraceful \/ StopCancel
  BY <1>1, <1>4, RequestsRefine
<1>5. CASE WriterStep
  BY <1>1, <1>5, WriterRefines
<1>6. CASE TargetStep \/ Reads
  BY <1>1, <1>6, TargetRefines
<1>7. CASE ChildExits \/ KilledChildExits
  BY <1>7, ExitRefines DEF ChildExits, KilledChildExits
<1>8. CASE ObserverStep
  BY <1>1, <1>8, ObserverRefines
<1>9. CASE Restart
  BY <1>1, <1>9, RestartRefines
<1>10. CASE Crash \/ Quiescent \/ UNCHANGED vars
  BY <1>10, OutsideStutters DEF Crash, Quiescent
<1>11. QED BY <1>1, <1>2, <1>3, <1>4, <1>5, <1>6, <1>7, <1>8, <1>9, <1>10 DEF Next

(* A live conversation writes to its session only while it holds it, and   *)
(* gives it back only when its child has exited; one that ends without     *)
(* proof of the exit never gives it back.                                  *)
THEOREM Implements == Spec => ImplementsSessionWriter
<1>1. Init => Promise!Init
  BY DEF Init, Promise!Init, Phase
<1>2. IInv /\ [Next]_vars => [Promise!Next]_(Promise!vars)
  BY StepRefines
<1>3. QED
  BY <1>1, <1>2, Inductive, PTL DEF Spec, ImplementsSessionWriter, Promise!Spec

============================================================================
