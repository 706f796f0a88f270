------------------------- MODULE OneShotOutput_proofs -------------------------
(***************************************************************************)
(* Proofs about OneShotOutput, for every prompt, pipe and output, whatever *)
(* the child writes and in which batches Target reads it.                  *)
(***************************************************************************)
EXTENDS OneShotOutput, WellFoundedInduction, FiniteSetTheorems, SequenceTheorems, TLAPS

(* The definitions that group variables or states, and those that name one *)
(* condition.                                                              *)
USE DEF durable, pipes, agent, loop, control, readers, vars, WriterUnchanged, ChildUnchanged,
        TargetUnchanged, ControlUnchanged, ReaderUnchanged, NoFault, Fault, Lives, Polls,
        LastLines, Joined, Killed, HasExited, Served, HasTerminated, NextSequence

----------------------------------------------------------------------------
(* Induction *)

(* A set of numbers has a least element. *)
LEMMA Least ==
  ASSUME NEW T, T \subseteq Nat, T # {}
  PROVE  \E x \in T : \A y \in T : x <= y
<1> DEFINE R == {ss \in Nat \X Nat : ss[1] < ss[2]}
<1>1. IsWellFoundedOn(R, Nat)
  BY NatLessThanWellFounded DEF OpToRel
<1>2. PICK x \in T : \A y \in T : ~(<<y, x>> \in R)
  <2> HIDE DEF R
  <2>1. QED BY <1>1, WFMin
<1>3. \A y \in T : ~(y < x)
  BY <1>2
<1>4. QED BY <1>3

(* A set that has zero, and with a number the next one, has every number. *)
LEMMA Induction ==
  ASSUME NEW T, 0 \in T, \A n \in Nat : n \in T => n + 1 \in T
  PROVE  \A n \in Nat : n \in T
<1>1. SUFFICES ASSUME Nat \ T # {}
               PROVE  FALSE
  OBVIOUS
<1>2. PICK x \in Nat \ T : \A y \in Nat \ T : x <= y
  <2>1. (Nat \ T) \subseteq Nat
    OBVIOUS
  <2>2. QED BY <1>1, <2>1, Least
<1>3. x # 0 /\ x \in Nat /\ x - 1 \in Nat /\ ~(x <= x - 1) /\ (x - 1) + 1 = x
  BY <1>2
<1>4. x - 1 \in T
  BY <1>2, <1>3
<1>5. x \in T
  BY <1>3, <1>4
<1>6. QED BY <1>2, <1>5

(* f holds the first n values of a sequence that starts with `first` and   *)
(* goes on as the table `following` says.                                  *)
Unrolls(f, n, S, first, following) ==
  /\ f \in [0..n -> S]
  /\ f[0] = first
  /\ \A i \in 1..n : f[i] = following[i][f[i - 1]]

(* There is such a function for every number of values. *)
LEMMA Recursion ==
  ASSUME NEW S, NEW first \in S, NEW following \in [Nat -> [S -> S]], NEW n \in Nat
  PROVE  \E f : Unrolls(f, n, S, first, following)
<1> DEFINE T == {m \in Nat : \E f : Unrolls(f, m, S, first, following)}
<1>1. 0 \in T
  <2>1. Unrolls([i \in 0..0 |-> first], 0, S, first, following)
    BY DEF Unrolls
  <2>2. QED BY <2>1
<1>2. ASSUME NEW m \in Nat, m \in T
      PROVE  m + 1 \in T
  <2>1. PICK f : Unrolls(f, m, S, first, following)
    BY <1>2
  <2> DEFINE g == [i \in 0..(m + 1) |-> IF i = m + 1 THEN following[m + 1][f[m]] ELSE f[i]]
  <2>2. f[m] \in S /\ following[m + 1][f[m]] \in S
    BY <2>1 DEF Unrolls
  <2>3. g \in [0..(m + 1) -> S] /\ g[0] = first
    BY <2>1, <2>2 DEF Unrolls
  <2>4. ASSUME NEW i \in 1..(m + 1)
        PROVE  g[i] = following[i][g[i - 1]]
    <3>1. i - 1 \in 0..m /\ g[i - 1] = f[i - 1]
      OBVIOUS
    <3>2. CASE i = m + 1
      BY <3>1, <3>2
    <3>3. CASE i # m + 1
      BY <2>1, <3>1, <3>3 DEF Unrolls
    <3>4. QED BY <3>2, <3>3
  <2>5. Unrolls(g, m + 1, S, first, following)
    <3> HIDE DEF g
    <3>1. QED BY <2>3, <2>4 DEF Unrolls
  <2>6. QED BY <2>5
<1>3. \A m \in Nat : m \in T
  <2> HIDE DEF T
  <2>1. QED BY <1>1, <1>2, Induction
<1>4. QED BY <1>3

----------------------------------------------------------------------------
(* Lines *)

(* The diagnostics of one line. *)
Telling(line) == IF line \in DOMAIN DiagnosticOf THEN <<DiagnosticOf[line]>> ELSE <<>>

(* A line tells at most one diagnostic. *)
LEMMA TellingType == ASSUME NEW line PROVE Telling(line) \in Seq(Diagnostics)
<1>1. /\ DOMAIN DiagnosticOf = {"retry", "auth", "bad_retry"}
      /\ DiagnosticOf["retry"] = "provider_retrying"
      /\ DiagnosticOf["auth"] = "authentication_failed"
      /\ DiagnosticOf["bad_retry"] = "diagnostic_unclassified"
  BY DEF DiagnosticOf
<1>2. line \in DOMAIN DiagnosticOf => DiagnosticOf[line] \in Diagnostics
  BY <1>1 DEF Diagnostics
<1>3. QED BY <1>2 DEF Telling

(* DiagnosticsIn takes line after line. *)
LEMMA DiagnosticsStepwise ==
  ASSUME NEW lines \in Seq(Kinds)
  PROVE  \E f \in [0..Len(lines) -> Seq(Diagnostics)] :
           /\ f[0] = <<>>
           /\ \A n \in 1..Len(lines) : f[n] = f[n - 1] \o Telling(lines[n])
           /\ DiagnosticsIn(lines) = f[Len(lines)]
<1> DEFINE S == Seq(Diagnostics)
<1> DEFINE following == [n \in Nat |-> [d \in S |-> d \o Telling(lines[n])]]
<1>1. following \in [Nat -> [S -> S]]
  <2>1. \A n \in Nat, d \in S : d \o Telling(lines[n]) \in S
    BY TellingType
  <2>2. QED BY <2>1
<1>2. PICK f : Unrolls(f, Len(lines), S, <<>>, following)
  <2>1. Len(lines) \in Nat /\ <<>> \in S
    OBVIOUS
  <2> HIDE DEF following, S
  <2>2. QED BY <1>1, <2>1, Recursion
<1>3. /\ f \in [0..Len(lines) -> S] /\ f[0] = <<>>
      /\ \A n \in 1..Len(lines) : f[n] = f[n - 1] \o Telling(lines[n])
  <2>1. ASSUME NEW n \in 1..Len(lines)
        PROVE  f[n] = f[n - 1] \o Telling(lines[n])
    <3>1. n \in Nat /\ n - 1 \in 0..Len(lines)
      OBVIOUS
    <3>2. f[n - 1] \in S /\ f[n] = following[n][f[n - 1]]
      <4> HIDE DEF following, S
      <4>1. QED BY <1>2, <3>1 DEF Unrolls
    <3>3. QED BY <3>1, <3>2
  <2>2. QED BY <1>2, <2>1 DEF Unrolls
<1> HIDE DEF S
<1> DEFINE Holds(g) ==
      g = [n \in 0..Len(lines) |->
             IF n = 0 THEN <<>>
             ELSE g[n - 1] \o (IF lines[n] \in DOMAIN DiagnosticOf
                               THEN <<DiagnosticOf[lines[n]]>> ELSE <<>>)]
<1>4. Holds(f)
  <2>1. \A n \in 0..Len(lines) :
          f[n] = IF n = 0 THEN <<>>
                 ELSE f[n - 1] \o (IF lines[n] \in DOMAIN DiagnosticOf
                                   THEN <<DiagnosticOf[lines[n]]>> ELSE <<>>)
    <3>1. \A n \in 0..Len(lines) : n = 0 \/ n \in 1..Len(lines)
      OBVIOUS
    <3>2. QED BY <1>3, <3>1 DEF Telling
  <2>2. QED BY <1>3, <2>1
<1> DEFINE u == CHOOSE g : Holds(g)
<1>5. Holds(u)
  <2> HIDE DEF Holds
  <2>1. QED BY <1>4
<1>6. DiagnosticsIn(lines) = u[Len(lines)]
  BY DEF DiagnosticsIn
<1> HIDE DEF u
<1>7. \A n \in 0..Len(lines) : u[n] = f[n]
  <2> DEFINE T == {n \in Nat : n <= Len(lines) => u[n] = f[n]}
  <2>1. 0 \in T
    BY <1>3, <1>5
  <2>2. ASSUME NEW n \in Nat, n \in T
        PROVE  n + 1 \in T
    <3>1. CASE n + 1 <= Len(lines)
      <4>1. n + 1 \in 1..Len(lines) /\ n + 1 \in 0..Len(lines) /\ (n + 1) - 1 = n /\ u[n] = f[n]
            /\ n + 1 # 0
        BY <2>2, <3>1
      <4>2. f[n + 1] = f[n] \o Telling(lines[n + 1])
        BY <1>3, <4>1
      <4>3. u[n + 1] = u[n] \o Telling(lines[n + 1])
        <5>1. \A k \in 0..Len(lines) :
                u[k] = IF k = 0 THEN <<>>
                       ELSE u[k - 1] \o (IF lines[k] \in DOMAIN DiagnosticOf
                                         THEN <<DiagnosticOf[lines[k]]>> ELSE <<>>)
          BY <1>5
        <5>2. u[n + 1] = u[(n + 1) - 1] \o Telling(lines[n + 1])
          BY <4>1, <5>1 DEF Telling
        <5>3. QED BY <4>1, <5>2
      <4>4. u[n + 1] = f[n + 1]
        BY <4>1, <4>2, <4>3, Zenon
      <4>5. QED BY <4>4
    <3>2. CASE ~(n + 1 <= Len(lines))
      BY <3>2
    <3>3. QED BY <3>1, <3>2
  <2>3. \A n \in Nat : n \in T
    <3> HIDE DEF T
    <3>1. QED BY <2>1, <2>2, Induction
  <2>4. QED BY <2>3
<1>8. Len(lines) \in 0..Len(lines)
  OBVIOUS
<1>9. QED BY <1>3, <1>6, <1>7, <1>8 DEF S

(* What lines tell is diagnostics. *)
LEMMA DiagnosticsType ==
  ASSUME NEW lines \in Seq(Kinds)
  PROVE  DiagnosticsIn(lines) \in Seq(Diagnostics)
<1>1. Len(lines) \in 0..Len(lines)
  OBVIOUS
<1>2. QED BY <1>1, DiagnosticsStepwise

(* No lines tell nothing. *)
LEMMA DiagnosticsOfNone == DiagnosticsIn(<<>>) = <<>>
<1>1. <<>> \in Seq(Kinds) /\ Len(<<>>) = 0
  OBVIOUS
<1>2. QED BY <1>1, DiagnosticsStepwise

(* Lines tell the same in two batches as in one. *)
LEMMA DiagnosticsOfBoth ==
  ASSUME NEW s \in Seq(Kinds), NEW t \in Seq(Kinds)
  PROVE  DiagnosticsIn(s \o t) = DiagnosticsIn(s) \o DiagnosticsIn(t)
<1>1. /\ s \o t \in Seq(Kinds) /\ Len(s \o t) = Len(s) + Len(t)
      /\ Len(s) \in Nat /\ Len(t) \in Nat
      /\ \A i \in 1..Len(s) : (s \o t)[i] = s[i]
      /\ \A i \in 1..Len(t) : (s \o t)[Len(s) + i] = t[i]
  OBVIOUS
<1>2. PICK f \in [0..Len(s) -> Seq(Diagnostics)] :
        /\ f[0] = <<>>
        /\ \A n \in 1..Len(s) : f[n] = f[n - 1] \o Telling(s[n])
        /\ DiagnosticsIn(s) = f[Len(s)]
  BY DiagnosticsStepwise
<1>3. PICK g \in [0..Len(t) -> Seq(Diagnostics)] :
        /\ g[0] = <<>>
        /\ \A n \in 1..Len(t) : g[n] = g[n - 1] \o Telling(t[n])
        /\ DiagnosticsIn(t) = g[Len(t)]
  BY DiagnosticsStepwise
<1>4. PICK h \in [0..Len(s \o t) -> Seq(Diagnostics)] :
        /\ h[0] = <<>>
        /\ \A n \in 1..Len(s \o t) : h[n] = h[n - 1] \o Telling((s \o t)[n])
        /\ DiagnosticsIn(s \o t) = h[Len(s \o t)]
  BY <1>1, DiagnosticsStepwise
<1>5. \A n \in Nat : n <= Len(s) => h[n] = f[n]
  <2> DEFINE T == {n \in Nat : n <= Len(s) => h[n] = f[n]}
  <2>1. 0 \in T
    BY <1>2, <1>4
  <2>2. ASSUME NEW n \in Nat, n \in T
        PROVE  n + 1 \in T
    <3>1. CASE n + 1 <= Len(s)
      <4>1. n + 1 \in 1..Len(s) /\ n + 1 \in 1..Len(s \o t) /\ (n + 1) - 1 = n /\ h[n] = f[n]
        BY <1>1, <2>2, <3>1
      <4>2. f[n + 1] = f[n] \o Telling(s[n + 1]) /\ h[n + 1] = h[n] \o Telling((s \o t)[n + 1])
        BY <1>2, <1>4, <4>1
      <4>3. (s \o t)[n + 1] = s[n + 1]
        BY <1>1, <4>1
      <4>4. h[n + 1] = f[n + 1]
        BY <4>1, <4>2, <4>3, Zenon
      <4>5. QED BY <4>4
    <3>2. CASE ~(n + 1 <= Len(s))
      BY <3>2
    <3>3. QED BY <3>1, <3>2
  <2>3. \A n \in Nat : n \in T
    <3> HIDE DEF T
    <3>1. QED BY <2>1, <2>2, Induction
  <2>4. QED BY <2>3
<1>6. \A n \in Nat : n <= Len(t) => h[Len(s) + n] = f[Len(s)] \o g[n]
  <2> DEFINE T == {n \in Nat : n <= Len(t) => h[Len(s) + n] = f[Len(s)] \o g[n]}
  <2>1. 0 \in T
    <3>1. h[Len(s)] = f[Len(s)] /\ f[Len(s)] \in Seq(Diagnostics) /\ Len(s) + 0 = Len(s)
      BY <1>1, <1>5
    <3>2. f[Len(s)] \o <<>> = f[Len(s)]
      BY <3>1
    <3>3. QED BY <1>3, <3>1, <3>2
  <2>2. ASSUME NEW n \in Nat, n \in T
        PROVE  n + 1 \in T
    <3>1. ASSUME n + 1 <= Len(t)
          PROVE  h[Len(s) + (n + 1)] = f[Len(s)] \o g[n + 1]
      <4>1. /\ n + 1 \in 1..Len(t) /\ (n + 1) - 1 = n /\ n \in 0..Len(t)
            /\ Len(s) + (n + 1) \in 1..Len(s \o t) /\ (Len(s) + (n + 1)) - 1 = Len(s) + n
            /\ h[Len(s) + n] = f[Len(s)] \o g[n]
        BY <1>1, <2>2, <3>1
      <4>2. /\ g[n + 1] = g[n] \o Telling(t[n + 1])
            /\ h[Len(s) + (n + 1)] = h[Len(s) + n] \o Telling((s \o t)[Len(s) + (n + 1)])
        BY <1>3, <1>4, <4>1
      <4>3. (s \o t)[Len(s) + (n + 1)] = t[n + 1]
        BY <1>1, <4>1
      <4>4. /\ f[Len(s)] \in Seq(Diagnostics) /\ g[n] \in Seq(Diagnostics)
            /\ Telling(t[n + 1]) \in Seq(Diagnostics)
        <5>1. Len(s) \in 0..Len(s)
          BY <1>1
        <5>2. QED BY <4>1, <5>1, TellingType
      <4>5. (f[Len(s)] \o g[n]) \o Telling(t[n + 1]) = f[Len(s)] \o (g[n] \o Telling(t[n + 1]))
        <5>1. \A a, b, c \in Seq(Diagnostics) : (a \o b) \o c = a \o (b \o c)
          BY ConcatAssociative
        <5>2. QED BY <4>4, <5>1, Zenon
      <4>6. h[Len(s) + (n + 1)] = f[Len(s)] \o g[n + 1]
        <5>1. h[Len(s) + (n + 1)] = (f[Len(s)] \o g[n]) \o Telling(t[n + 1])
          BY <4>1, <4>2, <4>3, Zenon
        <5>2. QED BY <4>2, <4>5, <5>1, Zenon
      <4>7. QED BY <4>6
    <3>2. n + 1 \in Nat
      OBVIOUS
    <3>3. QED BY <3>1, <3>2, Zenon
  <2>3. \A n \in Nat : n \in T
    <3> HIDE DEF T
    <3>1. QED BY <2>1, <2>2, Induction
  <2>4. QED BY <2>3
<1>7. h[Len(s) + Len(t)] = f[Len(s)] \o g[Len(t)]
  BY <1>1, <1>6
<1>8. QED BY <1>1, <1>2, <1>3, <1>4, <1>7

----------------------------------------------------------------------------
(* The inductive invariant *)

(* The lines that no success has. *)
Bad == {"foreign", "garbled", "failure"}

(* What lines establish, as long as none of them is an error. *)
Wanted(lines) == Range(lines) \cap {"init", "result"}

Payloads == [i \in DOMAIN rows |-> rows[i].payload]

(* No line has been an error so far. *)
Clean == evidence \cap {"failure", "ambiguous"} = {}

(* The worker of the operation runs, in the daemon that started it. *)
Executing == up /\ worker = "executing"

(* What the child wrote was read line by line and none twice: while the    *)
(* evidence is clean it stands for exactly the lines read, and so do the   *)
(* diagnostics, recorded or on their way.                                  *)
ReadExactly(lines) ==
  /\ said = lines \o (buffer \o stdout)
  /\ Range(lines) \cap Bad = {}
  /\ evidence = Wanted(lines)
  /\ recorder # "failed" => Payloads \o channel = DiagnosticsIn(lines)

LinesRead == Executing /\ Clean => \E lines \in Seq(Kinds) : ReadExactly(lines)

(* The threads: Target has nothing left of a child that has exited when it *)
(* gives its verdict, its recorder ends after it, and the worker last.     *)
Threads ==
  /\ Executing /\ target # "lines" => buffer = <<>>
  /\ Executing /\ target \in {"verdict", "returned"} => HasExited /\ stdout = <<>>
  /\ Executing /\ recorder = "done" => channel = <<>>
  /\ recorder = "done" => target = "returned"
  /\ worker = "executing" => op = "Running"
  /\ worker = "done" => target = "returned" /\ recorder # "receiving"
  /\ writer = "written" => unwritten = 0

(* What the pipes hold was written by the child, and so was the failure    *)
(* that the evidence has.                                                  *)
Failures ==
  /\ Range(buffer) \cup Range(stdout) \subseteq Range(said)
  /\ "failure" \in evidence => "failure" \in Range(said)

(* What Target returns, before anybody has heard of it. *)
Returned ==
  Executing /\ target = "returned" =>
    /\ outcome # "nothing"
    /\ outcome = "Succeeded" => /\ Clean /\ {"init", "result"} \subseteq evidence
                                /\ writer = "written"
    /\ outcome = "Failed" => "failure" \in evidence \/ "ambiguous" \notin evidence

(* A success stands, and its child writes no more. *)
Settled == op = "Succeeded" => SuccessIsComplete /\ child # "alive"

(* A client stops only after the last row. *)
Readers ==
  /\ stopped # {} => op # "Running"
  /\ \A c \in Clients : /\ IsPrefix(received[c], rows)
                        /\ c \in stopped => received[c] = rows

IInv ==
  TypeOK /\ Threads /\ LinesRead /\ Failures /\ Returned /\ Settled /\ FailedIsProven /\ Readers

USE DEF Executing, Clean

----------------------------------------------------------------------------
(* A step that leaves the variables of a part of the invariant alone keeps *)
(* that part.                                                              *)

LEMMA ThreadsStay ==
  ASSUME Threads,
         UNCHANGED <<target, up, worker, buffer, child, stdout, op, recorder, channel, writer,
                     unwritten>>
  PROVE  Threads'
  BY DEF Threads

LEMMA LinesStay ==
  ASSUME LinesRead,
         UNCHANGED <<up, worker, evidence, said, buffer, stdout, recorder, rows, channel>>
  PROVE  LinesRead'
  BY DEF LinesRead, ReadExactly, Payloads

LEMMA FailuresStay ==
  ASSUME Failures, UNCHANGED <<buffer, stdout, said, evidence>>
  PROVE  Failures'
  BY DEF Failures

LEMMA ReturnedStays ==
  ASSUME Returned, UNCHANGED <<up, worker, target, outcome, evidence, writer>>
  PROVE  Returned'
  BY DEF Returned

LEMMA SettledStays ==
  ASSUME Settled, UNCHANGED <<op, rows, said, unwritten>>, child' = "alive" => child = "alive"
  PROVE  Settled'
  BY DEF Settled, SuccessIsComplete, SuccessIsEvidenced, SuccessHasDiagnostics, Happened

LEMMA FailedStays ==
  ASSUME FailedIsProven, UNCHANGED <<op, said, evidence>>
  PROVE  FailedIsProven'
  BY DEF FailedIsProven, Happened

LEMMA ReadersStay ==
  ASSUME Readers, UNCHANGED <<op, rows, stopped, received>>
  PROVE  Readers'
  BY DEF Readers

(* What has happened is in what the child said. *)
LEMMA HappenedIs == \A kind : Happened(kind) <=> kind \in Range(said)
  BY DEF Happened, Range

(* Evidence of an operation that is no longer running is not touched. *)
LEMMA FailedKeeps ==
  ASSUME TypeOK, Threads, FailedIsProven, target # "returned", UNCHANGED op
  PROVE  FailedIsProven'
  BY DEF Threads, FailedIsProven, TypeOK

----------------------------------------------------------------------------
(* Batches of lines *)

(* How the batches are grouped does not matter. *)
LEMMA Associative ==
  \A a, b, c \in Seq(Kinds) : (a \o b) \o c = a \o (b \o c)
  BY ConcatAssociative

(* Two batches hold the lines of both. *)
LEMMA RangeOfBoth ==
  ASSUME NEW S, NEW s \in Seq(S), NEW t \in Seq(S)
  PROVE  Range(s \o t) = Range(s) \cup Range(t)
<1>1. /\ Len(s) \in Nat /\ Len(t) \in Nat
      /\ Range(s) = {s[i] : i \in 1..Len(s)} /\ Range(t) = {t[i] : i \in 1..Len(t)}
      /\ Range(s \o t) = {(s \o t)[i] : i \in 1..(Len(s) + Len(t))}
  BY DEF Range
<1>2. /\ \A i \in 1..Len(s) : (s \o t)[i] = s[i] /\ i \in 1..(Len(s) + Len(t))
      /\ \A i \in 1..Len(t) : /\ (s \o t)[Len(s) + i] = t[i]
                              /\ Len(s) + i \in 1..(Len(s) + Len(t))
      /\ \A i \in 1..(Len(s) + Len(t)) : i \in 1..Len(s) \/ /\ i - Len(s) \in 1..Len(t)
                                                            /\ Len(s) + (i - Len(s)) = i
  BY <1>1
<1>3. Range(s) \cup Range(t) \subseteq Range(s \o t)
  BY <1>1, <1>2
<1>4. ASSUME NEW i \in 1..(Len(s) + Len(t))
      PROVE  (s \o t)[i] \in Range(s) \cup Range(t)
  <2>1. CASE i \in 1..Len(s)
    BY <1>1, <1>2, <2>1
  <2>2. CASE i - Len(s) \in 1..Len(t) /\ Len(s) + (i - Len(s)) = i
    <3>1. (s \o t)[Len(s) + (i - Len(s))] = t[i - Len(s)]
      BY <1>2, <2>2
    <3>2. QED BY <1>1, <2>2, <3>1
  <2>3. QED BY <1>2, <2>1, <2>2
<1>5. QED BY <1>1, <1>3, <1>4

(* One line is all that is in its batch. *)
LEMMA RangeOfOne == \A e : Range(<<e>>) = {e}
  BY DEF Range

(* The first line that is an error, if there is one. *)
LEMMA FirstErrorIs ==
  ASSUME NEW batch \in Seq(Kinds)
  PROVE  \/ /\ FirstError(batch) = 0
            /\ \A i \in 1..Len(batch) : batch[i] \notin {"foreign", "failure"}
         \/ /\ FirstError(batch) \in 1..Len(batch)
            /\ batch[FirstError(batch)] \in {"foreign", "failure"}
<1> DEFINE I == {i \in 1..Len(batch) : batch[i] \in {"foreign", "failure"}}
<1>1. FirstError(batch) = IF I # {} THEN CHOOSE x \in I : \A y \in I : x <= y ELSE 0
  BY DEF FirstError, SelectInSeq, Min
<1>2. CASE I = {}
  BY <1>1, <1>2
<1>3. CASE I # {}
  <2>1. I \subseteq Nat /\ I \subseteq 1..Len(batch)
    OBVIOUS
  <2>2. FirstError(batch) \in I
    <3> HIDE DEF I
    <3>1. \E x \in I : \A y \in I : x <= y
      BY <1>3, <2>1, Least
    <3>2. QED BY <1>1, <1>3, <3>1
  <2>3. QED BY <2>2
<1>4. QED BY <1>2, <1>3

(* What is taken of a batch, and what it has established: without errors   *)
(* it was taken whole, and an error of the provider is one of its lines.   *)
LEMMA BatchIs ==
  ASSUME NEW batch \in Seq(Kinds)
  PROVE  /\ Taken(batch) \in Seq(Kinds)
         /\ Errors(batch) \subseteq {"ambiguous", "failure"}
         /\ Errors(batch) = {} => Taken(batch) = batch /\ Range(batch) \cap Bad = {}
         /\ "failure" \in Errors(batch) => "failure" \in Range(batch)
         /\ Range(Taken(batch)) \subseteq Range(batch)
<1>1. Range(batch) = {batch[i] : i \in 1..Len(batch)} /\ Len(batch) \in Nat
  BY DEF Range
<1>2. CASE "garbled" \in Range(batch)
  <2>1. Taken(batch) = <<>> /\ <<>> \in Seq(Kinds) /\ Range(<<>>) = {}
    BY <1>2 DEF Taken, Range
  <2>2. Taken(batch) # batch
    BY <1>1, <1>2, <2>1
  <2>3. Errors(batch) = {"ambiguous"}
    BY <1>2, <2>2 DEF Errors
  <2>4. QED BY <2>1, <2>3
<1>3. CASE "garbled" \notin Range(batch) /\ FirstError(batch) = 0
  <2>1. Taken(batch) = batch
    BY <1>3 DEF Taken
  <2>2. Errors(batch) = {}
    BY <1>3, <2>1 DEF Errors
  <2>3. \A i \in 1..Len(batch) : batch[i] \notin {"foreign", "failure"}
    BY <1>3, FirstErrorIs
  <2>4. Range(batch) \cap Bad = {}
    BY <1>1, <1>3, <2>3 DEF Bad
  <2>5. QED BY <2>1, <2>2, <2>4
<1>4. CASE "garbled" \notin Range(batch) /\ FirstError(batch) # 0
  <2> DEFINE k == FirstError(batch)
  <2>1. k \in 1..Len(batch) /\ batch[k] \in {"foreign", "failure"} /\ batch[k] \in Range(batch)
    BY <1>1, <1>4, FirstErrorIs
  <2>2. Taken(batch) = SubSeq(batch, 1, k - 1)
    BY <1>4 DEF Taken
  <2> HIDE DEF k
  <2>3. /\ Taken(batch) \in Seq(Kinds) /\ Len(Taken(batch)) = k - 1
        /\ \A i \in 1..(k - 1) : Taken(batch)[i] = batch[i]
    BY <2>1, <2>2
  <2>4. Taken(batch) # batch
    BY <2>1, <2>3
  <2>5. Errors(batch) = {IF batch[k] = "failure" THEN "failure" ELSE "ambiguous"}
    BY <1>4, <2>4 DEF Errors, k
  <2>6. Range(Taken(batch)) \subseteq Range(batch)
    <3>1. \A i \in 1..(k - 1) : i \in 1..Len(batch)
      BY <1>1, <2>1
    <3>2. Range(Taken(batch)) = {Taken(batch)[i] : i \in 1..(k - 1)}
      BY <2>1, <2>3 DEF Range
    <3>3. QED BY <1>1, <2>3, <3>1, <3>2
  <2>7. QED BY <2>1, <2>3, <2>5, <2>6
<1>5. QED BY <1>2, <1>3, <1>4

(* Nothing establishes nothing. *)
LEMMA NoBatch == Taken(<<>>) = <<>> /\ Errors(<<>>) = {} /\ Range(<<>>) = {}
<1>1. <<>> \in Seq(Kinds) /\ Range(<<>>) = {} /\ Len(<<>>) = 0
  BY DEF Range
<1>2. FirstError(<<>>) = 0
  <2>1. FirstError(<<>>) = 0 \/ FirstError(<<>>) \in 1..Len(<<>>)
    BY <1>1, FirstErrorIs
  <2>2. 1..Len(<<>>) = {}
    BY <1>1
  <2>3. QED BY <2>1, <2>2
<1>3. Taken(<<>>) = <<>>
  BY <1>1, <1>2 DEF Taken
<1>4. Errors(<<>>) = {}
  BY <1>1, <1>3 DEF Errors
<1>5. QED BY <1>1, <1>3, <1>4

----------------------------------------------------------------------------
(* Rows and readers *)

(* The rows behind a cursor are the last ones. *)
LEMMA RowsAfterIs ==
  ASSUME TypeOK, NEW after \in 0..Len(rows)
  PROVE  RowsAfter(after) = SubSeq(rows, after + 1, Len(rows))
<1>1. rows \in Seq(Items) /\ \A i \in 1..Len(rows) : rows[i].seq = i
  BY DEF TypeOK
<1>2. {i \in DOMAIN rows : rows[i].seq <= after} = 1..after
  BY <1>1
<1>3. Cardinality(1..after) = after
  <2>1. CASE after = 0
    <3>1. 1..0 = {}
      OBVIOUS
    <3>2. QED BY <2>1, <3>1, FS_EmptySet
  <2>2. CASE after # 0
    BY <2>2, FS_Interval
  <2>3. QED BY <2>1, <2>2
<1>4. QED BY <1>2, <1>3 DEF RowsAfter

(* The diagnostics that are recorded. *)
LEMMA PayloadsType ==
  ASSUME TypeOK
  PROVE  Payloads \in Seq(Diagnostics) /\ Len(Payloads) = Len(rows)
<1>1. rows \in Seq(Items) /\ DOMAIN rows = 1..Len(rows) /\ Len(rows) \in Nat
  BY DEF TypeOK
<1>2. ASSUME NEW i \in 1..Len(rows)
      PROVE  rows[i].payload \in Diagnostics
  <2>1. rows[i] \in Items
    BY <1>1
  <2>2. QED BY <2>1 DEF Items
<1>3. Payloads \in [1..Len(rows) -> Diagnostics]
  BY <1>1, <1>2 DEF Payloads
<1>4. QED BY <1>1, <1>3

(* A client that holds a prefix and is told the rest holds everything. *)
LEMMA PrefixGrows ==
  ASSUME TypeOK, NEW c \in Clients, IsPrefix(received[c], rows)
  PROVE  received[c] \o RowsAfter(Cursor(c)) = rows
<1> DEFINE s == received[c]
<1>1. /\ rows \in Seq(Items) /\ s \in Seq(Items) /\ Len(s) \in Nat /\ Len(rows) \in Nat
      /\ \A i \in 1..Len(rows) : rows[i].seq = i
  BY DEF TypeOK
<1>2. Len(s) <= Len(rows) /\ SubSeq(s, 1, Len(s)) = SubSeq(rows, 1, Len(s))
  BY DEF IsPrefix
<1> HIDE DEF s
<1>3. s = SubSeq(rows, 1, Len(s))
  BY <1>1, <1>2
<1>4. Cursor(c) = Len(s)
  <2>1. CASE s = <<>>
    BY <2>1 DEF Cursor, s
  <2>2. CASE s # <<>>
    <3>1. Len(s) \in 1..Len(rows) /\ s[Len(s)] = rows[Len(s)]
      BY <1>1, <1>2, <1>3, <2>2
    <3>2. Cursor(c) = s[Len(s)].seq
      BY <2>2 DEF Cursor, Last, s
    <3>3. QED BY <1>1, <3>1, <3>2
  <2>3. QED BY <2>1, <2>2
<1>5. Len(s) \in 0..Len(rows)
  BY <1>1, <1>2
<1>6. RowsAfter(Cursor(c)) = SubSeq(rows, Len(s) + 1, Len(rows))
  BY <1>4, <1>5, RowsAfterIs
<1>7. SubSeq(rows, 1, Len(s)) \o SubSeq(rows, Len(s) + 1, Len(rows)) = SubSeq(rows, 1, Len(rows))
  <2>1. /\ 1 \in 1..(Len(rows) + 1) /\ Len(s) \in (1 - 1)..Len(rows)
        /\ Len(rows) \in Len(s)..Len(rows)
    BY <1>1, <1>5
  <2>2. QED BY <1>1, <2>1, ConcatAdjacentSubSeq
<1>8. SubSeq(rows, 1, Len(rows)) = rows
  BY <1>1
<1>9. s \o RowsAfter(Cursor(c)) = rows
  BY <1>3, <1>6, <1>7, <1>8
<1>10. QED BY <1>9 DEF s

----------------------------------------------------------------------------
(* The prompt writer and the child *)

(* The prompt writer ends with the whole prompt written, or broken. *)
LEMMA WriterKeeps ==
  ASSUME IInv, WritePrompt \/ WritePromptFails
  PROVE  IInv'
<1>1. /\ UNCHANGED <<agent, durable, loop, cancel, control, readers, up, troubles>>
      /\ writer = "writing"
  BY DEF WritePrompt, WritePromptFails
<1>2. /\ unwritten' \in 0..Prompt /\ stdin' \in 0..StdinRoom
      /\ writer' \in {"writing", "written", "broken"}
      /\ writer' = "written" => unwritten' = 0
  BY OutputAssumption DEF IInv, TypeOK, WritePrompt, WritePromptFails
<1>3. TypeOK'
  BY <1>1, <1>2 DEF IInv, TypeOK
<1>4. Threads'
  BY <1>1, <1>2 DEF IInv, Threads
<1>5. Returned'
  BY <1>1 DEF IInv, Returned
<1>6. Settled'
  <2>1. CASE WritePrompt
    BY <2>1 DEF IInv, Settled, WritePrompt
  <2>2. CASE WritePromptFails
    BY <2>2, SettledStays DEF IInv, WritePromptFails
  <2>3. QED BY <2>1, <2>2
<1>7. QED
  BY <1>1, <1>3, <1>4, <1>5, <1>6, LinesStay, FailuresStay, FailedStays, ReadersStay DEF IInv

(* A line the child emits is behind everything that was not read. *)
LEMMA EmitsKeeps ==
  ASSUME IInv, Emits
  PROVE  IInv'
<1>1. PICK line \in Kinds : stdout' = Append(stdout, line) /\ said' = Append(said, line)
  BY DEF Emits
<1>2. /\ child = "alive" /\ Len(stdout) < StdoutRoom /\ owes' = FALSE
      /\ UNCHANGED <<stdin, child, durable, unwritten, writer, loop, cancel, control, readers,
                     up, troubles>>
  BY DEF Emits
<1>3. /\ said \in Seq(Kinds) /\ stdout \in Seq(Kinds) /\ buffer \in Seq(Kinds)
      /\ said' \in Seq(Kinds) /\ stdout' \in Seq(Kinds)
      /\ said' = said \o <<line>> /\ stdout' = stdout \o <<line>> /\ <<line>> \in Seq(Kinds)
      /\ Len(stdout') = Len(stdout) + 1 /\ Len(stdout) \in Nat
  <2>1. said \in Seq(Kinds) /\ stdout \in Seq(Kinds) /\ buffer \in Seq(Kinds)
    BY DEF IInv, TypeOK
  <2>2. \A s \in Seq(Kinds) : Append(s, line) = s \o <<line>>
    BY AppendIsConcat
  <2>3. QED BY <1>1, <2>1, <2>2
<1>4. TypeOK'
  <2>1. Len(stdout') <= StdoutRoom
    BY <1>2, <1>3, OutputAssumption
  <2>2. {owes', cancel', refusal', up'} \subseteq BOOLEAN
    BY <1>2 DEF IInv, TypeOK
  <2>3. QED BY <1>2, <1>3, <2>1, <2>2 DEF IInv, TypeOK
<1>5. Range(said') = Range(said) \cup {line} /\ Range(stdout') = Range(stdout) \cup {line}
  <2>1. /\ Range(said \o <<line>>) = Range(said) \cup Range(<<line>>)
        /\ Range(stdout \o <<line>>) = Range(stdout) \cup Range(<<line>>)
    BY <1>3, RangeOfBoth
  <2>2. QED BY <1>3, <2>1, RangeOfOne
<1>6. Threads'
  BY <1>2 DEF IInv, Threads
<1>7. LinesRead'
  <2>1. SUFFICES ASSUME Executing, Clean
                 PROVE  (\E lines \in Seq(Kinds) : ReadExactly(lines))'
    BY <1>2 DEF LinesRead
  <2>2. PICK lines \in Seq(Kinds) : ReadExactly(lines)
    BY <2>1 DEF IInv, LinesRead
  <2>3. said' = lines \o (buffer' \o stdout')
    <3>1. said' = (lines \o (buffer \o stdout)) \o <<line>>
      BY <1>3, <2>2 DEF ReadExactly
    <3>2. buffer \o stdout \in Seq(Kinds)
      BY <1>3
    <3>3. (lines \o (buffer \o stdout)) \o <<line>> = lines \o ((buffer \o stdout) \o <<line>>)
      <4>1. lines \in Seq(Kinds) /\ <<line>> \in Seq(Kinds)
        BY <1>3
      <4> DEFINE unread == buffer \o stdout
      <4>2. unread \in Seq(Kinds)
        BY <3>2
      <4> HIDE DEF unread
      <4>3. (lines \o unread) \o <<line>> = lines \o (unread \o <<line>>)
        BY <4>1, <4>2, Associative
      <4>4. QED BY <4>3 DEF unread
    <3>4. (buffer \o stdout) \o <<line>> = buffer \o (stdout \o <<line>>)
      BY <1>3, Associative
    <3>5. buffer' = buffer
      BY <1>2
    <3>6. QED BY <1>3, <3>1, <3>3, <3>4, <3>5
  <2>4. QED BY <1>2, <2>2, <2>3 DEF ReadExactly, Payloads
<1>8. Failures'
  BY <1>2, <1>5 DEF IInv, Failures
<1>9. Settled'
  BY <1>2 DEF IInv, Settled
<1>10. FailedIsProven'
  <2>1. Happened("failure") => Happened("failure")'
    <3>1. SUFFICES ASSUME NEW i \in DOMAIN said
                   PROVE  i \in DOMAIN said' /\ said'[i] = said[i]
      BY DEF Happened
    <3>2. QED BY <1>1, <1>3
  <2>2. QED BY <1>2, <2>1 DEF IInv, FailedIsProven
<1>11. QED
  BY <1>2, <1>4, <1>6, <1>7, <1>8, <1>9, <1>10, ReturnedStays, ReadersStay DEF IInv

(* What else the child does. *)
LEMMA ChildKeeps ==
  ASSUME IInv, ReadsPrompt \/ Speaks \/ Finishes \/ Exits \/ Dies
  PROVE  IInv'
<1>1. /\ UNCHANGED <<durable, unwritten, writer, loop, cancel, control, readers, up, troubles,
                     stdout, said>>
      /\ stdin' \in 0..StdinRoom /\ owes' \in BOOLEAN
      /\ child' \in {"alive", "killed", "exited_ok", "exited_bad", "orphan"}
      /\ child \in {"alive", "killed"}
      /\ child' = "alive" => child = "alive"
  <2>1. /\ stdin \in 0..StdinRoom /\ owes \in BOOLEAN /\ StdinRoom \in Nat
        /\ child \in {"alive", "killed", "exited_ok", "exited_bad", "orphan"}
    BY OutputAssumption DEF IInv, TypeOK
  <2>2. CASE ReadsPrompt
    BY <2>1, <2>2 DEF ReadsPrompt
  <2>3. CASE Speaks
    BY <2>1, <2>3 DEF Speaks
  <2>4. CASE Finishes \/ Exits \/ Dies
    BY <2>1, <2>4 DEF Finishes, Exits, Dies
  <2>5. QED BY <2>2, <2>3, <2>4
<1>2. TypeOK'
  <2>1. {owes', cancel', refusal', up'} \subseteq BOOLEAN
    BY <1>1 DEF IInv, TypeOK
  <2>2. QED BY <1>1, <2>1 DEF IInv, TypeOK
<1>3. Threads'
  BY <1>1 DEF IInv, Threads
<1>4. QED
  BY <1>1, <1>2, <1>3, LinesStay, FailuresStay, ReturnedStays, SettledStays, FailedStays,
     ReadersStay DEF IInv

----------------------------------------------------------------------------
(* Target's observation loop *)

(* A poll moves lines from the pipe to the buffer, and a read that fails   *)
(* makes the output ambiguous.                                             *)
LEMMA PollKeeps ==
  ASSUME IInv, Poll \/ PollFails
  PROVE  IInv'
<1>1. /\ up /\ target = "poll" /\ target' = "lines"
      /\ UNCHANGED <<durable, pipes, owes, said, cancel, control, readers, up, outcome>>
      /\ \/ buffer' = buffer \o stdout /\ stdout' = <<>>
         \/ UNCHANGED <<buffer, stdout>>
      /\ \/ Poll /\ UNCHANGED <<evidence, child, troubles>>
         \/ evidence' = evidence \cup {"ambiguous"} /\ child' = Killed
  BY DEF Poll, PollFails
<1>2. /\ buffer \in Seq(Kinds) /\ stdout \in Seq(Kinds) /\ Len(stdout) <= StdoutRoom
      /\ Len(stdout) \in Nat /\ StdoutRoom \in Nat
      /\ <<>> \in Seq(Kinds) /\ Len(<<>>) = 0
  BY OutputAssumption DEF IInv, TypeOK
<1>3. /\ buffer' \in Seq(Kinds) /\ stdout' \in Seq(Kinds) /\ Len(stdout') <= StdoutRoom
      /\ buffer' \o stdout' = buffer \o stdout
  <2>1. CASE buffer' = buffer \o stdout /\ stdout' = <<>>
    <3>1. buffer \o stdout \in Seq(Kinds)
      BY <1>2
    <3>2. (buffer \o stdout) \o <<>> = buffer \o stdout
      BY <3>1
    <3>3. QED BY <1>2, <2>1, <3>1, <3>2
  <2>2. CASE UNCHANGED <<buffer, stdout>>
    BY <1>2, <2>2
  <2>3. QED BY <1>1, <2>1, <2>2
<1>4. /\ troubles' \in 0..MaxTroubles
      /\ child' \in {"alive", "killed", "exited_ok", "exited_bad", "orphan"}
      /\ child' = "alive" => child = "alive"
      /\ evidence' \subseteq {"init", "result", "failure", "ambiguous"}
  <2>1. troubles' \in 0..MaxTroubles
    BY OutputAssumption DEF IInv, TypeOK, Poll, PollFails
  <2>2. QED BY <1>1, <2>1 DEF IInv, TypeOK, Poll
<1>5. TypeOK'
  BY <1>1, <1>3, <1>4 DEF IInv, TypeOK
<1>6. Threads'
  BY <1>1 DEF IInv, Threads, TypeOK
<1>7. LinesRead'
  BY <1>1, <1>3 DEF IInv, LinesRead, ReadExactly, Payloads
<1>8. Failures'
  <2>1. Range(buffer') \cup Range(stdout') = Range(buffer) \cup Range(stdout)
    <3>1. CASE buffer' = buffer \o stdout /\ stdout' = <<>>
      BY <1>2, <3>1, RangeOfBoth, NoBatch
    <3>2. QED BY <1>1, <3>1
  <2>2. QED BY <1>1, <2>1 DEF IInv, Failures
<1>9. Returned'
  BY <1>1 DEF IInv, Returned
<1>10. FailedIsProven'
  BY <1>1, FailedKeeps DEF IInv
<1>11. QED
  BY <1>1, <1>4, <1>5, <1>6, <1>7, <1>8, <1>9, <1>10, SettledStays, ReadersStay DEF IInv

(* What it means to interpret a batch: the next lines the child wrote are  *)
(* read, with all they establish and tell, or they hold an error.          *)
LEMMA BatchKeeps ==
  ASSUME IInv, up, target \in {"lines", "status"},
         NEW batch \in Seq(Kinds), NEW rest \in Seq(Kinds), buffer \o stdout = batch \o rest,
         Range(batch) \cup Range(rest) \subseteq Range(said),
         evidence' = Established(batch) \/ evidence' = Established(batch) \cup {"ambiguous"},
         "ambiguous" \in evidence' \/ buffer' \o stdout' = rest,
         channel' = Sent(Taken(batch)),
         UNCHANGED <<said, recorder, rows, up, worker>>,
         Range(buffer') \cup Range(stdout') \subseteq Range(rest)
  PROVE  /\ LinesRead' /\ Failures'
         /\ evidence' \subseteq {"init", "result", "failure", "ambiguous"}
         /\ channel' \in Seq(Diagnostics)
<1>1. /\ Taken(batch) \in Seq(Kinds)
      /\ Errors(batch) \subseteq {"ambiguous", "failure"}
      /\ Errors(batch) = {} => Taken(batch) = batch /\ Range(batch) \cap Bad = {}
      /\ "failure" \in Errors(batch) => "failure" \in Range(batch)
  BY BatchIs
<1>2. Established(batch) = evidence \cup Wanted(Taken(batch)) \cup Errors(batch)
  BY DEF Established, Wanted
<1>3. /\ DiagnosticsIn(Taken(batch)) \in Seq(Diagnostics) /\ channel \in Seq(Diagnostics)
      /\ evidence \subseteq {"init", "result", "failure", "ambiguous"}
  BY <1>1, DiagnosticsType DEF IInv, TypeOK
<1>4. channel' \in Seq(Diagnostics)
  BY <1>3 DEF Sent
<1>5. evidence' \subseteq {"init", "result", "failure", "ambiguous"}
  BY <1>1, <1>2, <1>3 DEF Wanted
<1>6. Failures'
  <2>1. "failure" \in evidence' => "failure" \in evidence \/ "failure" \in Errors(batch)
    BY <1>2 DEF Wanted
  <2>2. QED BY <1>1, <2>1 DEF IInv, Failures
<1>7. LinesRead'
  <2>1. SUFFICES ASSUME Executing, Clean'
                 PROVE  (\E lines \in Seq(Kinds) : ReadExactly(lines))'
    BY DEF LinesRead
  <2>2. /\ buffer' \o stdout' = rest /\ Clean /\ Errors(batch) = {}
        /\ evidence' = evidence \cup Wanted(batch)
    BY <1>1, <1>2, <2>1
  <2>3. PICK lines \in Seq(Kinds) : ReadExactly(lines)
    BY <2>1, <2>2 DEF IInv, LinesRead
  <2> DEFINE both == lines \o batch
  <2>4. both \in Seq(Kinds) /\ Range(both) = Range(lines) \cup Range(batch)
    BY RangeOfBoth
  <2>5. said' = both \o (buffer' \o stdout')
    <3>1. said = lines \o (batch \o rest)
      BY <2>3 DEF ReadExactly
    <3>2. (lines \o batch) \o rest = lines \o (batch \o rest)
      BY Associative
    <3>3. QED BY <2>2, <3>1, <3>2
  <2>6. recorder' # "failed" => (Payloads \o channel)' = DiagnosticsIn(both)
    <3>1. SUFFICES ASSUME recorder # "failed"
                   PROVE  (Payloads \o channel)' = DiagnosticsIn(both)
      OBVIOUS
    <3>2. recorder = "receiving"
      BY <3>1 DEF IInv, TypeOK, Threads
    <3>3. channel' = channel \o DiagnosticsIn(batch)
      BY <1>1, <2>2, <3>2 DEF Sent
    <3>4. Payloads \in Seq(Diagnostics) /\ Payloads' = Payloads
      BY PayloadsType DEF IInv, Payloads
    <3>5. DiagnosticsIn(batch) \in Seq(Diagnostics)
      BY DiagnosticsType
    <3>6. (Payloads \o channel) \o DiagnosticsIn(batch)
            = Payloads \o (channel \o DiagnosticsIn(batch))
      <4>1. \A a, b, c \in Seq(Diagnostics) : (a \o b) \o c = a \o (b \o c)
        BY ConcatAssociative
      <4>2. QED BY <1>3, <3>4, <3>5, <4>1, Zenon
    <3>7. Payloads \o channel = DiagnosticsIn(lines)
      BY <2>3, <3>1 DEF ReadExactly
    <3>8. DiagnosticsIn(both) = DiagnosticsIn(lines) \o DiagnosticsIn(batch)
      BY DiagnosticsOfBoth
    <3>9. QED BY <3>3, <3>4, <3>6, <3>7, <3>8
  <2>7. Range(both) \cap Bad = {} /\ evidence' = Wanted(both)
    BY <1>1, <2>2, <2>3, <2>4 DEF ReadExactly, Wanted
  <2> HIDE DEF both
  <2>8. QED BY <2>4, <2>5, <2>6, <2>7 DEF ReadExactly
<1>8. QED BY <1>4, <1>5, <1>6, <1>7

(* The lines of a poll. *)
LEMMA InterpretKeeps ==
  ASSUME IInv, Interpret
  PROVE  IInv'
<1>1. /\ up /\ target = "lines" /\ target' = "status" /\ buffer' = <<>>
      /\ evidence' = Established(buffer) /\ channel' = Sent(Taken(buffer))
      /\ child' = child \/ child' = Killed
      /\ UNCHANGED <<durable, pipes, owes, said, cancel, recorder, worker, refusal, readers, up,
                     stdout, outcome, troubles>>
  BY DEF Interpret
<1>2. /\ buffer \in Seq(Kinds) /\ stdout \in Seq(Kinds) /\ <<>> \in Seq(Kinds)
      /\ <<>> \o stdout = stdout
  BY DEF IInv, TypeOK
<1>3. /\ LinesRead' /\ Failures'
      /\ evidence' \subseteq {"init", "result", "failure", "ambiguous"}
      /\ channel' \in Seq(Diagnostics)
  <2>1. Range(buffer) \cup Range(stdout) \subseteq Range(said)
    BY DEF IInv, Failures
  <2>2. buffer' \o stdout' = stdout /\ Range(buffer') \cup Range(stdout') \subseteq Range(stdout)
    BY <1>1, <1>2, NoBatch
  <2>3. QED BY <1>1, <1>2, <2>1, <2>2, BatchKeeps
<1>4. TypeOK'
  <2>1. child' \in {"alive", "killed", "exited_ok", "exited_bad", "orphan"}
    BY <1>1 DEF IInv, TypeOK
  <2>2. QED BY <1>1, <1>2, <1>3, <2>1 DEF IInv, TypeOK
<1>5. Threads'
  BY <1>1 DEF IInv, Threads, TypeOK
<1>6. Returned' /\ FailedIsProven'
  BY <1>1, FailedKeeps DEF IInv, Returned
<1>7. QED BY <1>1, <1>3, <1>4, <1>5, <1>6, SettledStays, ReadersStay DEF IInv

(* The status of the child: the loop goes on, or the last lines are read.  *)
LEMMA StatusKeeps ==
  ASSUME IInv, StillRuns \/ StatusFails \/ HasEnded
  PROVE  IInv'
<1>1. CASE StillRuns \/ StatusFails
  <2>1. /\ up /\ target = "status" /\ target' = "poll"
        /\ evidence' = evidence \/ evidence' = evidence \cup {"ambiguous"}
        /\ child' = child \/ child' = Killed
        /\ UNCHANGED <<durable, pipes, owes, said, cancel, control, readers, up, stdout, buffer,
                       outcome>>
        /\ troubles' \in 0..MaxTroubles
    BY <1>1, OutputAssumption DEF IInv, TypeOK, StillRuns, StatusFails
  <2>2. TypeOK'
    <3>1. /\ child' \in {"alive", "killed", "exited_ok", "exited_bad", "orphan"}
          /\ evidence' \subseteq {"init", "result", "failure", "ambiguous"}
      BY <2>1 DEF IInv, TypeOK
    <3>2. QED BY <2>1, <3>1 DEF IInv, TypeOK
  <2>3. Threads'
    BY <2>1 DEF IInv, Threads, TypeOK
  <2>4. LinesRead'
    BY <2>1 DEF IInv, LinesRead, ReadExactly, Payloads
  <2>5. Failures' /\ Returned' /\ FailedIsProven'
    BY <2>1, FailedKeeps DEF IInv, Failures, Returned
  <2>6. QED BY <2>1, <2>2, <2>3, <2>4, <2>5, SettledStays, ReadersStay DEF IInv
<1>2. CASE HasEnded
  <2>1. /\ up /\ target = "status" /\ target' = "verdict" /\ HasExited /\ stdout' = <<>>
        /\ UNCHANGED <<durable, pipes, owes, said, cancel, recorder, worker, refusal, readers, up,
                       child, buffer, outcome>>
    BY <1>2 DEF HasEnded
  <2>2. PICK batch \in {<<>>, stdout} :
          /\ \/ evidence' = Established(batch) /\ batch = stdout
             \/ evidence' = Established(batch) \cup {"ambiguous"}
          /\ channel' = Sent(Taken(batch))
          /\ troubles' \in 0..MaxTroubles
    BY <1>2, OutputAssumption DEF IInv, TypeOK, HasEnded
  <2>3. /\ stdout \in Seq(Kinds) /\ <<>> \in Seq(Kinds) /\ Range(<<>>) = {} /\ buffer \in Seq(Kinds)
        /\ Range(buffer) \cup Range(stdout) \subseteq Range(said)
    BY NoBatch DEF IInv, TypeOK, Failures
  <2>4. /\ LinesRead' /\ Failures'
        /\ evidence' \subseteq {"init", "result", "failure", "ambiguous"}
        /\ channel' \in Seq(Diagnostics)
    <3>1. buffer = <<>> /\ buffer' = <<>> /\ buffer' \o stdout' = <<>>
      BY <2>1 DEF IInv, Threads, TypeOK
    <3>2. /\ \A s \in Seq(Kinds) : <<>> \o s = s /\ s \o <<>> = s
          /\ Range(buffer') \cup Range(stdout') = {}
      BY <2>1, <2>3, <3>1
    <3>3. CASE batch = stdout
      <4>1. buffer \o stdout = batch \o <<>>
        BY <2>3, <3>1, <3>2, <3>3
      <4>2. QED BY <2>1, <2>2, <2>3, <3>1, <3>2, <3>3, <4>1, BatchKeeps
    <3>4. CASE batch = <<>> /\ batch # stdout
      <4>1. buffer \o stdout = batch \o stdout /\ "ambiguous" \in evidence'
        BY <2>2, <3>1, <3>4
      <4>2. QED BY <2>1, <2>2, <2>3, <3>1, <3>2, <3>4, <4>1, BatchKeeps
    <3>5. QED BY <3>3, <3>4
  <2>5. TypeOK'
    BY <2>1, <2>2, <2>3, <2>4, OutputAssumption DEF IInv, TypeOK
  <2>6. Threads'
    BY <2>1 DEF IInv, Threads, TypeOK
  <2>7. Returned' /\ FailedIsProven'
    BY <2>1, FailedKeeps DEF IInv, Returned
  <2>8. QED BY <2>1, <2>4, <2>5, <2>6, <2>7, SettledStays, ReadersStay DEF IInv
<1>3. QED BY <1>1, <1>2

(* The verdict. *)
LEMMA ReturnsKeeps ==
  ASSUME IInv, Returns
  PROVE  IInv'
<1>1. /\ up /\ target = "verdict" /\ target' = "returned" /\ outcome' = Verdict
      /\ UNCHANGED <<durable, pipes, agent, cancel, control, readers, up, buffer, evidence,
                     troubles>>
  BY DEF Returns
<1>2. /\ Verdict \in Outcomes
      /\ Verdict = "Succeeded" => /\ Clean /\ {"init", "result"} \subseteq evidence
                                  /\ writer = "written"
      /\ Verdict = "Failed" => "failure" \in evidence \/ "ambiguous" \notin evidence
  <2>1. CASE cancel
    BY <2>1 DEF Verdict, Outcomes
  <2>2. CASE ~cancel /\ "failure" \in evidence
    BY <2>2 DEF Verdict, Outcomes
  <2>3. CASE ~cancel /\ "failure" \notin evidence /\ "ambiguous" \in evidence
    <3>1. evidence \cap {"failure", "ambiguous"} = {"ambiguous"}
      BY <2>3
    <3>2. QED BY <2>3, <3>1 DEF Verdict, Outcomes
  <2>4. CASE ~cancel /\ evidence \cap {"failure", "ambiguous"} = {} /\ child = "exited_bad"
    BY <2>4 DEF Verdict, Outcomes
  <2>5. CASE ~cancel /\ evidence \cap {"failure", "ambiguous"} = {} /\ child # "exited_bad"
    BY <2>5 DEF Verdict, Outcomes
  <2>6. cancel \in BOOLEAN
    BY DEF IInv, TypeOK
  <2>7. QED BY <2>1, <2>2, <2>3, <2>4, <2>5, <2>6
<1>3. TypeOK'
  BY <1>1, <1>2 DEF IInv, TypeOK
<1>4. Threads'
  BY <1>1 DEF IInv, Threads
<1>5. Returned'
  BY <1>1, <1>2 DEF Returned, Outcomes
<1>6. QED
  BY <1>1, <1>3, <1>4, <1>5, LinesStay, FailuresStay, SettledStays, FailedStays, ReadersStay
     DEF IInv

----------------------------------------------------------------------------
(* Control *)

(* A cancellation is only a flag until Target looks at it. *)
LEMMA CancelKeeps ==
  ASSUME IInv, Cancel
  PROVE  IInv'
<1>1. /\ cancel' = TRUE /\ troubles' \in 0..MaxTroubles
      /\ UNCHANGED <<durable, pipes, agent, loop, control, readers, up>>
  BY OutputAssumption DEF IInv, TypeOK, Cancel
<1>2. TypeOK'
  <2>1. {owes', cancel', refusal', up'} \subseteq BOOLEAN
    BY <1>1 DEF IInv, TypeOK
  <2>2. QED BY <1>1, <2>1 DEF IInv, TypeOK
<1>3. QED
  BY <1>1, <1>2, ThreadsStay, LinesStay, FailuresStay, ReturnedStays, SettledStays, FailedStays,
     ReadersStay DEF IInv

(* A diagnostic leaves the channel for the next row. *)
LEMMA RecordKeeps ==
  ASSUME IInv, Record
  PROVE  IInv'
<1> DEFINE head == Head(channel)
<1> DEFINE row  == [seq |-> Len(rows) + 1, payload |-> head]
<1>1. /\ up /\ recorder = "receiving" /\ channel # <<>> /\ op = "Running"
      /\ rows' = Append(rows, row) /\ channel' = Tail(channel)
      /\ UNCHANGED <<op, recorder, worker, refusal, cancel, troubles, pipes, agent, loop, readers,
                     up>>
  BY DEF Record
<1>2. /\ rows \in Seq(Items) /\ Len(rows) \in Nat /\ channel \in Seq(Diagnostics)
      /\ head \in Diagnostics /\ channel' \in Seq(Diagnostics) /\ channel = <<head>> \o channel'
      /\ \A i \in 1..Len(rows) : rows[i].seq = i
  <2>1. rows \in Seq(Items) /\ channel \in Seq(Diagnostics)
        /\ \A i \in 1..Len(rows) : rows[i].seq = i
    BY DEF IInv, TypeOK
  <2>2. head \in Diagnostics /\ Tail(channel) \in Seq(Diagnostics)
        /\ channel = <<head>> \o Tail(channel)
    BY <1>1, <2>1
  <2>3. QED BY <1>1, <2>1, <2>2
<1>3. row \in Items
  BY <1>2 DEF Items
<1>4. /\ rows' \in Seq(Items) /\ Len(rows') = Len(rows) + 1
      /\ \A i \in 1..Len(rows) : rows'[i] = rows[i]
      /\ rows'[Len(rows) + 1] = row
      /\ row.seq = Len(rows) + 1 /\ row.payload = head
      /\ \A i \in 1..(Len(rows) + 1) : i \in 1..Len(rows) \/ i = Len(rows) + 1
  <2>1. row.seq = Len(rows) + 1 /\ row.payload = head
    OBVIOUS
  <2>2. \A i \in 1..(Len(rows) + 1) : i \in 1..Len(rows) \/ i = Len(rows) + 1
    <3>1. Len(rows) \in Nat
      BY <1>2
    <3>2. QED BY <3>1
  <2> HIDE DEF row
  <2>3. QED BY <1>1, <1>2, <1>3, <2>1, <2>2
<1> HIDE DEF row
<1>5. \A i \in DOMAIN rows' : rows'[i].seq = i
  <2>1. SUFFICES ASSUME NEW i \in 1..(Len(rows) + 1)
                 PROVE  rows'[i].seq = i
    BY <1>4
  <2>2. CASE i \in 1..Len(rows)
    BY <1>2, <1>4, <2>2
  <2>3. CASE i = Len(rows) + 1
    BY <1>4, <2>3
  <2>4. QED BY <1>4, <2>2, <2>3
<1>6. TypeOK'
  BY <1>1, <1>2, <1>4, <1>5 DEF IInv, TypeOK
<1>7. Payloads' = Payloads \o <<head>>
  <2>1. /\ Payloads \in Seq(Diagnostics) /\ Len(Payloads) = Len(rows)
        /\ Payloads \o <<head>> \in Seq(Diagnostics)
        /\ Len(Payloads \o <<head>>) = Len(rows) + 1
    BY <1>2, PayloadsType DEF IInv
  <2>2. DOMAIN rows' = 1..(Len(rows) + 1)
    BY <1>2, <1>4
  <2>3. /\ Payloads' = [i \in 1..(Len(rows) + 1) |-> rows'[i].payload]
        /\ Payloads = [i \in 1..Len(rows) |-> rows[i].payload]
    BY <1>2, <2>2 DEF Payloads
  <2>4. ASSUME NEW i \in 1..(Len(rows) + 1)
        PROVE  rows'[i].payload = (Payloads \o <<head>>)[i]
    <3>1. CASE i \in 1..Len(rows)
      <4>1. (Payloads \o <<head>>)[i] = Payloads[i]
        BY <1>2, <2>1, <3>1
      <4>2. QED BY <1>4, <2>3, <3>1, <4>1
    <3>2. CASE i = Len(rows) + 1
      <4>1. (Payloads \o <<head>>)[i] = head
        BY <1>2, <2>1, <3>2
      <4>2. rows'[i].payload = head
        BY <1>4, <3>2
      <4>3. QED BY <4>1, <4>2, Zenon
    <3>3. QED BY <1>4, <3>1, <3>2
  <2> DEFINE longer == Payloads \o <<head>>
  <2>5. DOMAIN longer = 1..(Len(rows) + 1) /\ longer = [i \in DOMAIN longer |-> longer[i]]
    BY <2>1
  <2>6. \A i \in 1..(Len(rows) + 1) : rows'[i].payload = longer[i]
    BY <2>4
  <2> HIDE DEF longer
  <2>7. Payloads' = longer
    BY <2>3, <2>5, <2>6
  <2>8. QED BY <2>7 DEF longer
<1>8. (Payloads \o channel)' = Payloads \o channel
  <2>1. Payloads \in Seq(Diagnostics) /\ <<head>> \in Seq(Diagnostics)
    BY <1>2, PayloadsType DEF IInv
  <2>2. \A a, b, c \in Seq(Diagnostics) : (a \o b) \o c = a \o (b \o c)
    BY ConcatAssociative
  <2>3. (Payloads \o <<head>>) \o channel' = Payloads \o (<<head>> \o channel')
    BY <1>2, <2>1, <2>2, Zenon
  <2>4. QED BY <1>2, <1>7, <2>3, Zenon
<1>9. LinesRead'
  BY <1>1, <1>8 DEF IInv, LinesRead, ReadExactly
<1>10. Threads'
  BY <1>1 DEF IInv, Threads
<1>11. Settled'
  BY <1>1 DEF Settled
<1>12. Readers'
  <2>1. stopped = {} /\ stopped' = {}
    BY <1>1 DEF IInv, Readers
  <2>2. ASSUME NEW c \in Clients
        PROVE  IsPrefix(received'[c], rows')
    <3>1. /\ received[c] \in Seq(Items) /\ Len(received[c]) \in Nat
          /\ Len(received[c]) <= Len(rows)
          /\ SubSeq(received[c], 1, Len(received[c])) = SubSeq(rows, 1, Len(received[c]))
      BY DEF IInv, TypeOK, Readers, IsPrefix
    <3>2. SubSeq(rows', 1, Len(received[c])) = SubSeq(rows, 1, Len(received[c]))
      <4> DEFINE k == Len(received[c])
      <4>1. k \in Nat /\ k <= Len(rows) /\ rows \in Seq(Items) /\ rows' \in Seq(Items)
            /\ \A i \in 1..k : rows'[i] = rows[i]
        BY <1>2, <1>4, <3>1
      <4> HIDE DEF k
      <4>2. QED BY <1>4, <4>1 DEF k
    <3>3. QED BY <1>1, <1>4, <3>1, <3>2 DEF IsPrefix
  <2>3. QED BY <1>1, <2>1, <2>2 DEF Readers
<1>13. QED
  BY <1>1, <1>6, <1>9, <1>10, <1>11, <1>12, FailuresStay, ReturnedStays, FailedStays DEF IInv

(* A recorder that fails leaves its channel; the outcome is no success.    *)
LEMMA RecorderKeeps ==
  ASSUME IInv, RecordFails \/ RecorderEnds
  PROVE  IInv'
<1>1. /\ UNCHANGED <<durable, worker, refusal, pipes, agent, loop, readers, up>>
      /\ recorder = "receiving"
      /\ \/ recorder' = "failed" /\ channel' = <<>> /\ cancel' = TRUE
         \/ recorder' = "done" /\ channel = <<>> /\ channel' = <<>> /\ target = "returned"
            /\ cancel' = cancel
      /\ troubles' \in 0..MaxTroubles
  <2>1. CASE RecordFails
    <3>1. troubles' \in 0..MaxTroubles
      <4>1. CASE op = "Running"
        BY <2>1, <4>1, OutputAssumption DEF IInv, TypeOK, RecordFails
      <4>2. CASE op # "Running"
        BY <2>1, <4>2 DEF IInv, TypeOK, RecordFails
      <4>3. QED BY <4>1, <4>2
    <3>2. QED BY <2>1, <3>1 DEF RecordFails
  <2>2. CASE RecorderEnds
    BY <2>2 DEF IInv, TypeOK, RecorderEnds
  <2>3. QED BY <2>1, <2>2
<1>2. TypeOK'
  <2>1. {owes', cancel', refusal', up'} \subseteq BOOLEAN
    BY <1>1 DEF IInv, TypeOK
  <2>2. <<>> \in Seq(Diagnostics)
    OBVIOUS
  <2>3. QED BY <1>1, <2>1, <2>2 DEF IInv, TypeOK
<1>3. Threads'
  BY <1>1 DEF IInv, Threads
<1>4. LinesRead'
  <2>1. \/ recorder' = "failed"
        \/ UNCHANGED channel /\ recorder # "failed"
    BY <1>1
  <2>2. QED BY <1>1, <2>1 DEF IInv, LinesRead, ReadExactly, Payloads
<1>5. QED
  BY <1>1, <1>2, <1>3, <1>4, FailuresStay, ReturnedStays, SettledStays, FailedStays, ReadersStay
     DEF IInv

(* The outcome becomes durable. *)
LEMMA SettleKeeps ==
  ASSUME IInv, Settle \/ SettleFails
  PROVE  IInv'
<1>1. /\ up /\ worker = "executing" /\ target = "returned" /\ worker' = "done"
      /\ recorder # "receiving" /\ op = "Running"
      /\ UNCHANGED <<rows, channel, recorder, cancel, pipes, agent, loop, readers, up>>
      /\ refusal' \in BOOLEAN /\ troubles' \in 0..MaxTroubles
      /\ op' \in {"Running"} \cup Outcomes
      /\ op' = op \/ (op' = outcome /\ recorder = "done")
  <2>0. troubles \in 0..MaxTroubles /\ refusal \in BOOLEAN
    BY DEF IInv, TypeOK
  <2>1. CASE Settle
    <3>1. \/ op' = outcome /\ UNCHANGED <<troubles, refusal>>
          \/ refusal' = TRUE /\ op' = op /\ troubles < MaxTroubles /\ troubles' = troubles + 1
      BY <2>1 DEF Settle
    <3>2. refusal' \in BOOLEAN /\ troubles' \in 0..MaxTroubles
      <4>1. CASE UNCHANGED <<troubles, refusal>>
        BY <2>0, <4>1
      <4>2. CASE refusal' = TRUE /\ troubles < MaxTroubles /\ troubles' = troubles + 1
        BY <2>0, <4>2, OutputAssumption
      <4>3. QED BY <3>1, <4>1, <4>2
    <3>3. op = "Running" /\ outcome \in Outcomes \cup {"nothing"} /\ outcome # "nothing"
      BY <2>1 DEF IInv, TypeOK, Threads, Returned, Settle
    <3>4. QED BY <2>1, <3>1, <3>2, <3>3 DEF Settle
  <2>2. CASE SettleFails
    <3>1. op = "Running" /\ op' = op /\ refusal' = TRUE /\ troubles' = troubles
      BY <2>2 DEF IInv, Threads, SettleFails
    <3>2. refusal' \in BOOLEAN /\ troubles' \in 0..MaxTroubles
      BY <2>0, <3>1
    <3>3. /\ up /\ worker = "executing" /\ target = "returned" /\ worker' = "done"
          /\ recorder = "failed"
          /\ UNCHANGED <<rows, channel, recorder, cancel, pipes, agent, loop, readers, up>>
      BY <2>2 DEF SettleFails
    <3>4. QED BY <3>1, <3>2, <3>3
  <2>3. QED BY <2>1, <2>2
<1>2. TypeOK'
  <2>1. {owes', cancel', refusal', up'} \subseteq BOOLEAN
    BY <1>1 DEF IInv, TypeOK
  <2>2. QED BY <1>1, <2>1 DEF IInv, TypeOK
<1>3. Threads' /\ LinesRead' /\ Returned'
  BY <1>1 DEF IInv, Threads, LinesRead, Returned
<1>4. FailedIsProven'
  <2>1. SUFFICES ASSUME op' = "Failed", "ambiguous" \in evidence
                 PROVE  Happened("failure")'
    BY <1>1 DEF FailedIsProven
  <2>2. "failure" \in Range(said)
    BY <1>1, <2>1 DEF IInv, Returned, Failures
  <2>3. Happened("failure")
    BY <2>2, HappenedIs
  <2>4. QED BY <1>1, <2>3 DEF Happened
<1>5. Settled'
  <2>1. SUFFICES ASSUME op' = "Succeeded"
                 PROVE  SuccessIsComplete' /\ child' # "alive"
    BY DEF Settled
  <2>2. /\ outcome = "Succeeded" /\ recorder = "done" /\ Clean
        /\ {"init", "result"} \subseteq evidence /\ unwritten = 0
        /\ HasExited /\ stdout = <<>> /\ channel = <<>> /\ buffer = <<>>
    BY <1>1, <2>1 DEF IInv, Returned, Threads
  <2>3. PICK lines \in Seq(Kinds) : ReadExactly(lines)
    BY <1>1, <2>2 DEF IInv, LinesRead
  <2>4. said = lines
    <3>1. lines \o (<<>> \o <<>>) = lines
      OBVIOUS
    <3>2. QED BY <2>2, <2>3, <3>1 DEF ReadExactly
  <2>5. {"init", "result"} \subseteq Range(said) /\ Range(said) \cap Bad = {}
    BY <2>2, <2>3, <2>4 DEF ReadExactly, Wanted
  <2>6. Payloads = DiagnosticsIn(said)
    <3>1. Payloads \o <<>> = Payloads
      BY PayloadsType DEF IInv
    <3>2. QED BY <2>2, <2>3, <2>4, <3>1 DEF ReadExactly
  <2>7. SuccessIsEvidenced'
    <3>1. /\ Happened("init") /\ Happened("result")
          /\ ~Happened("foreign") /\ ~Happened("garbled") /\ ~Happened("failure")
      BY <2>5, HappenedIs DEF Bad
    <3>2. QED BY <1>1, <2>2, <3>1 DEF SuccessIsEvidenced, Happened
  <2>8. SuccessHasDiagnostics'
    <3>1. said' = said /\ rows' = rows
      BY <1>1
    <3>2. QED BY <2>6, <3>1 DEF SuccessHasDiagnostics, Payloads
  <2>9. QED BY <1>1, <2>2, <2>7, <2>8 DEF SuccessIsComplete
<1>6. Readers'
  BY <1>1 DEF IInv, Readers
<1>7. QED BY <1>1, <1>2, <1>3, <1>4, <1>5, <1>6, FailuresStay DEF IInv

----------------------------------------------------------------------------
(* Clients and the daemon *)

(* A reply brings a client every row there is. *)
LEMMA AnswerKeeps ==
  ASSUME IInv, NEW c \in Clients, Answer(c)
  PROVE  IInv'
<1>1. /\ UNCHANGED <<durable, pipes, agent, loop, cancel, control, up, troubles>>
      /\ received' = [received EXCEPT ![c] = rows]
      /\ stopped' = IF op \in Outcomes THEN stopped \cup {c} ELSE stopped
      /\ rows \in Seq(Items) /\ received \in [Clients -> Seq(Items)]
  <2>1. received[c] \o RowsAfter(Cursor(c)) = rows
    BY PrefixGrows DEF IInv, Readers
  <2>2. QED BY <2>1 DEF IInv, TypeOK, Answer
<1>2. received' \in [Clients -> Seq(Items)] /\ stopped' \subseteq Clients
  BY <1>1 DEF IInv, TypeOK
<1>3. TypeOK'
  BY <1>1, <1>2 DEF IInv, TypeOK
<1>4. Readers'
  <2>1. stopped' # {} => op' # "Running"
    BY <1>1 DEF IInv, Readers, Outcomes
  <2>2. ASSUME NEW d \in Clients
        PROVE  IsPrefix(received'[d], rows') /\ (d \in stopped' => received'[d] = rows')
    <3>1. CASE d = c
      <4>1. received'[d] = rows /\ rows' = rows
        BY <1>1, <3>1
      <4>2. IsPrefix(rows, rows)
        BY <1>1 DEF IsPrefix
      <4>3. QED BY <4>1, <4>2
    <3>2. CASE d # c
      BY <1>1, <3>2 DEF IInv, Readers
    <3>3. QED BY <3>1, <3>2
  <2>3. QED BY <2>1, <2>2 DEF Readers
<1>5. QED
  BY <1>1, <1>3, <1>4, ThreadsStay, LinesStay, FailuresStay, ReturnedStays, SettledStays,
     FailedStays DEF IInv

(* What a crash takes, nothing durable stands on. *)
LEMMA CrashKeeps ==
  ASSUME IInv, Crash
  PROVE  IInv'
<1>1. /\ up' = FALSE /\ refusal' = FALSE /\ channel' = <<>> /\ buffer' = <<>>
      /\ child' \in {child, "orphan"} /\ (child' = "alive" => child = "alive")
      /\ troubles' \in 0..MaxTroubles
      /\ UNCHANGED <<durable, pipes, stdout, owes, said, target, evidence, outcome, cancel,
                     recorder, worker, readers>>
  BY OutputAssumption DEF IInv, TypeOK, Crash
<1>2. TypeOK'
  <2>1. {owes', cancel', refusal', up'} \subseteq BOOLEAN
    BY <1>1 DEF IInv, TypeOK
  <2>2. <<>> \in Seq(Diagnostics) /\ <<>> \in Seq(Kinds)
    OBVIOUS
  <2>3. QED BY <1>1, <2>1, <2>2 DEF IInv, TypeOK
<1>3. Threads' /\ LinesRead' /\ Returned'
  BY <1>1 DEF IInv, Threads, LinesRead, Returned
<1>4. Failures'
  BY <1>1, NoBatch DEF IInv, Failures
<1>5. QED BY <1>1, <1>2, <1>3, <1>4, SettledStays, FailedStays, ReadersStay DEF IInv

(* Recovery ends an operation that was running as Indeterminate.           *)
LEMMA RestartKeeps ==
  ASSUME IInv, Restart
  PROVE  IInv'
<1>1. /\ up' = TRUE /\ target' = "returned" /\ recorder' = "done" /\ worker' = "done"
      /\ writer' = "broken" /\ op' = (IF op = "Running" THEN "Indeterminate" ELSE op)
      /\ UNCHANGED <<rows, unwritten, stdin, agent, buffer, evidence, outcome, cancel, channel,
                     refusal, readers, troubles>>
  BY DEF Restart
<1>2. TypeOK'
  <2>1. {owes', cancel', refusal', up'} \subseteq BOOLEAN
    BY <1>1 DEF IInv, TypeOK
  <2>2. op' \in {"Running"} \cup Outcomes
    BY <1>1 DEF IInv, TypeOK, Outcomes
  <2>3. QED BY <1>1, <2>1, <2>2 DEF IInv, TypeOK
<1>3. Threads' /\ LinesRead' /\ Returned'
  BY <1>1 DEF IInv, Threads, LinesRead, Returned
<1>4. Settled' /\ FailedIsProven' /\ Readers'
  <2>1. CASE op = "Running"
    BY <1>1, <2>1 DEF IInv, Settled, FailedIsProven, Readers
  <2>2. CASE op # "Running"
    BY <1>1, <2>2, SettledStays, FailedStays, ReadersStay DEF IInv
  <2>3. QED BY <2>1, <2>2
<1>5. QED BY <1>1, <1>2, <1>3, <1>4, FailuresStay DEF IInv

----------------------------------------------------------------------------
(* Theorems *)

(* It holds when the child has been given permission. *)
LEMMA InitHolds == Init => IInv
<1>1. SUFFICES ASSUME Init
               PROVE  IInv
  OBVIOUS
<1>2. TypeOK
  <2>1. /\ <<>> \in Seq(Items) /\ <<>> \in Seq(Kinds) /\ <<>> \in Seq(Diagnostics)
        /\ Len(<<>>) = 0 /\ DOMAIN <<>> = {}
    OBVIOUS
  <2>2. {owes, cancel, refusal, up} \subseteq BOOLEAN
    BY <1>1 DEF Init
  <2>3. /\ rows \in Seq(Items) /\ \A i \in DOMAIN rows : rows[i].seq = i
        /\ stdout \in Seq(Kinds) /\ Len(stdout) <= StdoutRoom /\ said \in Seq(Kinds)
        /\ buffer \in Seq(Kinds) /\ channel \in Seq(Diagnostics)
    BY <1>1, <2>1, OutputAssumption DEF Init
  <2>4. received \in [Clients -> Seq(Items)]
    BY <1>1, <2>1 DEF Init
  <2>5. QED BY <1>1, <2>2, <2>3, <2>4, OutputAssumption DEF Init, TypeOK
<1>3. Threads /\ Returned /\ Settled /\ FailedIsProven
  BY <1>1 DEF Init, Threads, Returned, Settled, FailedIsProven
<1>4. Failures
  BY <1>1, NoBatch DEF Init, Failures
<1>5. LinesRead
  <2>1. ReadExactly(<<>>)
    <3>1. /\ <<>> \in Seq(Kinds) /\ <<>> \in Seq(Diagnostics)
          /\ <<>> \o <<>> = <<>> /\ <<>> \o (<<>> \o <<>>) = <<>>
      OBVIOUS
    <3>2. Payloads = <<>>
      BY <1>1 DEF Init, Payloads
    <3>3. Wanted(<<>>) = {}
      BY NoBatch DEF Wanted
    <3>4. QED BY <1>1, <3>1, <3>2, <3>3, NoBatch, DiagnosticsOfNone DEF Init, ReadExactly
  <2>2. <<>> \in Seq(Kinds)
    OBVIOUS
  <2>3. QED BY <2>1, <2>2 DEF LinesRead
<1>6. Readers
  <2>1. ASSUME NEW c \in Clients
        PROVE  IsPrefix(received[c], rows)
    BY <1>1 DEF Init, IsPrefix
  <2>2. QED BY <1>1, <2>1 DEF Init, Readers
<1>7. QED BY <1>2, <1>3, <1>4, <1>5, <1>6 DEF IInv

(* A step of somebody else keeps it. *)
LEMMA StutterKeeps ==
  ASSUME IInv, UNCHANGED vars
  PROVE  IInv'
<1>1. TypeOK'
  BY DEF IInv, TypeOK
<1>2. QED
  BY <1>1, ThreadsStay, LinesStay, FailuresStay, ReturnedStays, SettledStays, FailedStays,
     ReadersStay DEF IInv

(* So every step keeps it. *)
LEMMA NextKeeps ==
  ASSUME IInv, [Next]_vars
  PROVE  IInv'
<1>1. CASE WritePrompt \/ WritePromptFails
  BY <1>1, WriterKeeps
<1>2. CASE Emits
  BY <1>2, EmitsKeeps
<1>3. CASE ReadsPrompt \/ Speaks \/ Finishes \/ Exits \/ Dies
  BY <1>3, ChildKeeps
<1>4. CASE Poll \/ PollFails
  BY <1>4, PollKeeps
<1>5. CASE Interpret
  BY <1>5, InterpretKeeps
<1>6. CASE StillRuns \/ StatusFails \/ HasEnded
  BY <1>6, StatusKeeps
<1>7. CASE Returns
  BY <1>7, ReturnsKeeps
<1>8. CASE Cancel
  BY <1>8, CancelKeeps
<1>9. CASE Record
  BY <1>9, RecordKeeps
<1>10. CASE RecordFails \/ RecorderEnds
  BY <1>10, RecorderKeeps
<1>11. CASE Settle \/ SettleFails
  BY <1>11, SettleKeeps
<1>12. CASE \E c \in Clients : Answer(c)
  BY <1>12, AnswerKeeps
<1>13. CASE Crash
  BY <1>13, CrashKeeps
<1>14. CASE Restart
  BY <1>14, RestartKeeps
<1>15. CASE UNCHANGED vars
  BY <1>15, StutterKeeps
<1>16. Quiescent => UNCHANGED vars
  BY DEF Quiescent
<1> USE DEF Next, ChildStep, TargetStep, ControlStep
<1>17. QED
  BY <1>1, <1>2, <1>3, <1>4, <1>5, <1>6, <1>7, <1>8, <1>9, <1>10, <1>11, <1>12, <1>13, <1>14,
     <1>15, <1>16

(* The strengthening holds of every execution. *)
THEOREM Inductive == Spec => []IInv
<1>1. Init => IInv
  BY InitHolds
<1>2. IInv /\ [Next]_vars => IInv'
  BY NextKeeps
<1>3. QED BY <1>1, <1>2, PTL DEF Spec

(* Succeeded stands on everything the child wrote: an init and a result,   *)
(* no line that contradicts them, the whole prompt written, and a row for  *)
(* each diagnostic, in order and once; however the lines were batched.     *)
THEOREM SuccessIsWhole == Spec => []SuccessIsComplete
<1>1. IInv => SuccessIsComplete
  BY DEF IInv, Settled, SuccessIsComplete, SuccessIsEvidenced, SuccessHasDiagnostics
<1>2. QED BY <1>1, Inductive, PTL

(* An operation is Failed for what the provider said or for how its child  *)
(* ended by itself, never for the kill of a child with ambiguous output.   *)
THEOREM FailureIsProven == Spec => []FailedIsProven
<1>1. IInv => FailedIsProven
  BY DEF IInv
<1>2. QED BY <1>1, Inductive, PTL

(* A client holds the first rows, in order and once, and every row when it *)
(* is told that the operation has ended, over crashes and restarts.        *)
THEOREM ReadersAreServed == Spec => []ReadersHoldRows
<1>1. IInv => ReadersHoldRows
  BY DEF IInv, Readers, ReadersHoldRows
<1>2. QED BY <1>1, Inductive, PTL

=============================================================================
