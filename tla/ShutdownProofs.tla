--------------------------- MODULE ShutdownProofs ---------------------------
(***************************************************************************)
(* That the logger keeps every message, for any capacity of its channels   *)
(* and any number of messages.                                             *)
(***************************************************************************)
EXTENDS Shutdown, SequenceTheorems, TLAPS

IInv == TypeOK /\ LogsKept

-----------------------------------------------------------------------------
(* The names main goes through.                                            *)
LEMMA Components ==
  /\ Len(Order) = 6
  /\ \A i \in 1..5 : Order[i] \in Component
  /\ "cluster" \in Component
<1>1. Len(Order) = 6 /\ Order[3] = "cluster"
  BY DEF Order
<1> QED
  BY <1>1 DEF Component

(* A message that has been numbered stays one.                             *)
LEMMA SeqGrows ==
  ASSUME NEW k \in Nat, NEW s \in Seq(1..k)
  PROVE  s \in Seq(1..(k + 1)) /\ Append(s, k + 1) \in Seq(1..(k + 1))
<1>1. s \in Seq(1..(k + 1))
  <2>1. \A i \in 1..Len(s) : s[i] \in 1..(k + 1)
    BY ElementOfSeq
  <2> QED
    BY <2>1, ElementOfSeq, SeqDef
<1> QED
  BY <1>1

(* The next message is the next number.                                    *)
LEMMA NextNumber ==
  ASSUME NEW k \in Nat
  PROVE  Append([i \in 1..k |-> i], k + 1) = [i \in 1..(k + 1) |-> i]
<1> DEFINE f == [i \in 1..k |-> i]
           g == [i \in 1..(k + 1) |-> i]
<1>1. f \in [1..k -> 1..(k + 1)] /\ g \in [1..(k + 1) -> 1..(k + 1)]
  OBVIOUS
<1>2. f \in Seq(1..(k + 1)) /\ g \in Seq(1..(k + 1))
  BY <1>1, SeqDef
<1>3. Len(f) = k /\ Len(g) = k + 1
  BY <1>1, <1>2, LenProperties
<1>4. (\A i \in 1..k : f[i] = i) /\ \A i \in 1..(k + 1) : g[i] = i
  OBVIOUS
<1> HIDE DEF f, g
<1>5. /\ Append(f, k + 1) \in Seq(1..(k + 1))
      /\ Len(Append(f, k + 1)) = k + 1
      /\ \A i \in 1..k : Append(f, k + 1)[i] = f[i]
      /\ Append(f, k + 1)[k + 1] = k + 1
  BY <1>2, <1>3, AppendProperties
<1>6. \A i \in 1..(k + 1) : Append(f, k + 1)[i] = g[i]
  BY <1>4, <1>5
<1>7. Append(f, k + 1) = g
  BY <1>2, <1>3, <1>5, <1>6, SeqEqual
<1> QED
  BY <1>7 DEF f, g

(* Appending to the second of two sequences appends to both.               *)
LEMMA AppendAfter ==
  ASSUME NEW S, NEW w \in Seq(S), NEW l \in Seq(S), NEW x \in S
  PROVE  w \o Append(l, x) = Append(w \o l, x)
<1>1. w \o l \in Seq(S) /\ <<x>> \in Seq(S)
  BY ConcatProperties
<1>2. Append(l, x) = l \o <<x>> /\ Append(w \o l, x) = (w \o l) \o <<x>>
  BY <1>1, AppendIsConcat
<1> QED
  BY <1>1, <1>2, ConcatAssociative

(* A new line with the next number leaves the lines numbered in order.     *)
LEMMA Numbered ==
  ASSUME NEW k \in Nat, NEW w \in Seq(1..k), NEW l \in Seq(1..k)
  PROVE  w \o l = [i \in 1..k |-> i] =>
           w \o Append(l, k + 1) = [i \in 1..(k + 1) |-> i]
<1>1. /\ w \in Seq(1..(k + 1)) /\ l \in Seq(1..(k + 1))
      /\ k + 1 \in 1..(k + 1)
  <2>1. w \in Seq(1..(k + 1)) /\ l \in Seq(1..(k + 1))
    BY SeqGrows, Zenon
  <2>2. k + 1 \in 1..(k + 1)
    OBVIOUS
  <2> QED
    BY <2>1, <2>2
<1>2. w \o Append(l, k + 1) = Append(w \o l, k + 1)
  <2> DEFINE S == 1..(k + 1)
             x == k + 1
  <2>1. w \in Seq(S) /\ l \in Seq(S) /\ x \in S
    BY <1>1
  <2> HIDE DEF S, x
  <2>2. w \o Append(l, x) = Append(w \o l, x)
    BY <2>1, AppendAfter
  <2> QED
    BY <2>2 DEF x
<1> QED
  BY <1>2, NextNumber

(* To take the next message and print it changes nothing in the order of   *)
(* what was printed and what is to be printed.                             *)
LEMMA Moved ==
  ASSUME NEW S, NEW w \in Seq(S), NEW l \in Seq(S), l # <<>>
  PROVE  /\ Head(l) \in S /\ Tail(l) \in Seq(S)
         /\ Len(Tail(l)) = Len(l) - 1
         /\ Append(w, Head(l)) \o Tail(l) = w \o l
<1>1. /\ Head(l) \in S /\ Tail(l) \in Seq(S) /\ Len(Tail(l)) = Len(l) - 1
      /\ Head(l) = l[1] /\ \A i \in 1..Len(Tail(l)) : Tail(l)[i] = l[i + 1]
  BY HeadTailProperties
<1>2. Append(w, Head(l)) \o Tail(l) \in Seq(S) /\ w \o l \in Seq(S)
  BY <1>1
<1>3. Len(Append(w, Head(l)) \o Tail(l)) = Len(w \o l)
  BY <1>1
<1>4. ASSUME NEW i \in 1..Len(w \o l)
      PROVE  (Append(w, Head(l)) \o Tail(l))[i] = (w \o l)[i]
  <2>1. CASE i <= Len(w)
    BY <1>1, <2>1
  <2>2. CASE i = Len(w) + 1
    BY <1>1, <2>2
  <2>3. CASE i > Len(w) + 1
    BY <1>1, <2>3
  <2> QED
    BY <2>1, <2>2, <2>3
<1> QED
  BY <1>1, <1>2, <1>3, <1>4, SeqEqual

(* At the start nothing has been logged.                                   *)
LEMMA InitIInv == Init => IInv
<1> SUFFICES ASSUME Init PROVE IInv
  OBVIOUS
<1>1. TypeOK
  BY ShutdownAssumption, Components DEF Init, Start, TypeOK
<1>2. LogsKept
  <2>1. written \o logs = <<>> /\ said = 0
    BY DEF Init
  <2>2. [i \in 1..0 |-> i] = <<>>
    OBVIOUS
  <2> QED
    BY <2>1, <2>2 DEF LogsKept
<1> QED
  BY <1>1, <1>2 DEF IInv

(* l.c <- message: it comes after all others.                              *)
LEMMA PutIInv ==
  ASSUME IInv, Put, UNCHANGED <<written, logQueue, writer>>
  PROVE  /\ said' \in Nat
         /\ logs' \in Seq(1..said') /\ Len(logs') <= BufferSize
         /\ written' \in Seq(1..said') /\ logQueue' \in Seq(1..said')
         /\ LogsKept'
<1>1. TypeOK /\ LogsKept /\ BufferSize \in Nat
  BY ShutdownAssumption DEF IInv
<1>2. said \in Nat /\ said' = said + 1 /\ logs' = Append(logs, said + 1)
  BY <1>1 DEF Put, TypeOK
<1>3. /\ logs' \in Seq(1..said') /\ Len(logs') <= BufferSize
      /\ written' \in Seq(1..said') /\ logQueue' \in Seq(1..said')
  <2>1. ASSUME NEW s \in Seq(1..said) PROVE s \in Seq(1..said')
    BY <1>2, SeqGrows
  <2>2. logs \in Seq(1..said) /\ Len(logs) < BufferSize
    BY <1>1 DEF Put, Room, TypeOK
  <2>3. logs' \in Seq(1..said') /\ Len(logs') <= BufferSize
    BY <1>1, <1>2, <2>2, SeqGrows
  <2> QED
    BY <1>1, <2>1, <2>3 DEF TypeOK
<1>4. ASSUME written \o logs = [i \in 1..said |-> i]
      PROVE  written \o logs' = [i \in 1..said' |-> i]
  <2>1. written \in Seq(1..said) /\ logs \in Seq(1..said)
    BY <1>1 DEF TypeOK
  <2> QED
    BY <1>2, <1>4, <2>1, Numbered
<1> QED
  <2>1. LogsKept'
    BY <1>1, <1>4 DEF LogsKept
  <2> QED
    BY <1>2, <1>3, <2>1

(* Whoever changes neither the channels nor the writer.                    *)
LEMMA ControlIInv ==
  ASSUME IInv, UNCHANGED <<config, said, logs, written, logQueue, writer>>,
         main' \in {"serve", "killed", "warn", "tell", "return", "gone"},
         turn' \in 1..Len(Order),
         loop' \in [Component -> {"run", "say", "ending", "say last", "stuck", "done"}]
  PROVE  IInv'
BY DEF IInv, TypeOK, LogsKept

(* main, once it has taken the signal.                                     *)
LEMMA MainIInv == ASSUME IInv, Kill \/ Main PROVE IInv'
<1>1. CASE Kill
  BY <1>1, ControlIInv DEF Kill, IInv, TypeOK
<1>2. CASE Warn
  <2>1. Put /\ UNCHANGED <<written, logQueue, writer>>
    BY <1>2 DEF Warn
  <2> QED
    BY <1>2, <2>1, PutIInv DEF Warn, IInv, TypeOK
<1>3. CASE WarnOfKill
  <2>1. Put /\ UNCHANGED <<written, logQueue, writer>>
    BY <1>3 DEF WarnOfKill
  <2> QED
    BY <1>3, <2>1, PutIInv DEF WarnOfKill, IInv, TypeOK
<1>4. CASE Tell
  <2>1. /\ UNCHANGED <<config, said, logs, written, logQueue, writer>>
        /\ main' = "warn"
    BY <1>4 DEF Tell
  <2>2. turn' \in 1..Len(Order)
    <3>1. turn \in 1..6 /\ turn < 6 /\ turn' = turn + 1
      BY <1>4, Components DEF Tell, IInv, TypeOK
    <3> QED
      BY <3>1, Components
  <2>3. loop' \in [Component -> {"run", "say", "ending", "say last", "stuck", "done"}]
    BY <1>4 DEF Tell, IInv, TypeOK
  <2> QED
    BY <2>1, <2>2, <2>3, ControlIInv
<1>5. CASE TellLog
  BY <1>5 DEF TellLog, IInv, TypeOK, LogsKept
<1>6. CASE Return
  BY <1>6, ControlIInv DEF Return, IInv, TypeOK
<1> QED
  BY <1>1, <1>2, <1>3, <1>4, <1>5, <1>6 DEF Main

(* A component that logs, or a first node that gets stuck.                 *)
LEMMA ComponentIInv ==
  ASSUME IInv, ReadyAgain \/ \E c \in Component : Say(c) \/ Said(c)
  PROVE  IInv'
<1>1. CASE ReadyAgain
  BY <1>1, ControlIInv, Components DEF ReadyAgain, IInv, TypeOK
<1>2. ASSUME NEW c \in Component, Say(c) PROVE IInv'
  BY <1>2, ControlIInv DEF Say, IInv, TypeOK
<1>3. ASSUME NEW c \in Component, Said(c) PROVE IInv'
  <2>1. Put /\ UNCHANGED <<written, logQueue, writer>>
    BY <1>3 DEF Said
  <2> QED
    BY <1>3, <2>1, PutIInv DEF Said, IInv, TypeOK
<1> QED
  BY <1>1, <1>2, <1>3

(* The logger: what it takes it prints, until it is told to terminate.     *)
LEMMA LoggerIInv == ASSUME IInv, Logger PROVE IInv'
<1>1. TypeOK /\ LogsKept /\ said \in Nat /\ BufferSize \in Nat
  BY ShutdownAssumption DEF IInv, TypeOK
<1>2. /\ logs # <<>>
      /\ UNCHANGED <<main, turn, loop, config, said>>
      /\ logs' = Tail(logs)
  BY DEF Logger, Write, Take, WriteAndWait, DrainSkips, DrainPrints
<1>3. /\ Head(logs) \in 1..said
      /\ logs' \in Seq(1..said) /\ Len(logs') <= BufferSize
      /\ Append(written, Head(logs)) \in Seq(1..said)
      /\ Append(written, Head(logs)) \o Tail(logs) = written \o logs
  <2>1. written \in Seq(1..said) /\ logs \in Seq(1..said) /\ Len(logs) <= BufferSize
    BY <1>1 DEF TypeOK
  <2>2. /\ Head(logs) \in 1..said /\ Tail(logs) \in Seq(1..said)
        /\ Len(Tail(logs)) = Len(logs) - 1
        /\ Append(written, Head(logs)) \o Tail(logs) = written \o logs
    BY <1>2, <2>1, Moved
  <2>3. Len(logs) \in Nat
    BY <2>1, LenProperties
  <2>4. Len(Tail(logs)) <= BufferSize
    BY <1>1, <2>1, <2>2, <2>3
  <2>5. Append(written, Head(logs)) \in Seq(1..said)
    BY <2>1, <2>2, AppendProperties
  <2> QED
    BY <1>2, <2>2, <2>4, <2>5
<1>4. CASE Write
  <2>1. written' = Append(written, Head(logs)) /\ UNCHANGED writer
    BY <1>4 DEF Write, Take
  <2>2. logQueue' \in Seq(1..said) /\ Len(logQueue') <= BufferSize
    <3>1. logQueue \in Seq(1..said) /\ Len(logQueue) <= BufferSize
      BY <1>1 DEF TypeOK
    <3>2. logQueue' = IF Len(logQueue) < BufferSize
                      THEN Append(logQueue, Head(logs)) ELSE logQueue
      BY <1>4 DEF Write, Take, HasRoom
    <3>3. Len(logQueue) \in Nat
      BY <3>1, LenProperties
    <3>4. /\ Append(logQueue, Head(logs)) \in Seq(1..said)
          /\ Len(Append(logQueue, Head(logs))) = Len(logQueue) + 1
      BY <1>3, <3>1, AppendProperties
    <3>5. CASE Len(logQueue) < BufferSize
      BY <1>1, <3>2, <3>3, <3>4, <3>5
    <3>6. CASE ~ (Len(logQueue) < BufferSize)
      BY <3>1, <3>2, <3>6
    <3> QED
      BY <3>5, <3>6
  <2> QED
    BY <1>1, <1>2, <1>3, <2>1, <2>2 DEF IInv, TypeOK, LogsKept
<1>5. CASE WriteAndWait
  <2>1. /\ written' = Append(written, Head(logs)) /\ writer = "run"
        /\ UNCHANGED logQueue /\ writer' = "stuck"
    BY <1>5 DEF WriteAndWait
  <2> QED
    BY <1>1, <1>2, <1>3, <2>1 DEF IInv, TypeOK, LogsKept
<1>6. CASE DrainSkips
  BY <1>1, <1>2, <1>3, <1>6 DEF DrainSkips, IInv, TypeOK, LogsKept
<1>7. CASE DrainPrints
  BY <1>1, <1>2, <1>3, <1>7 DEF DrainPrints, IInv, TypeOK, LogsKept
<1> QED
  BY <1>4, <1>5, <1>6, <1>7 DEF Logger

(* Someone reads /api/v1/perf/logs.                                        *)
LEMMA ReadIInv == ASSUME IInv, ReadLogs PROVE IInv'
<1>1. /\ logQueue' \in Seq(1..said) /\ Len(logQueue') <= BufferSize
  <2>1. logQueue \in Seq(1..said) /\ Len(logQueue) <= BufferSize
    BY DEF IInv, TypeOK
  <2>2. logQueue # <<>> /\ logQueue' = Tail(logQueue)
    BY DEF ReadLogs
  <2> QED
    BY <2>1, <2>2, HeadTailProperties, ShutdownAssumption
<1> QED
  BY <1>1 DEF ReadLogs, IInv, TypeOK, LogsKept

(* Every step keeps the lines numbered, wherever they are.                 *)
LEMMA NextIInv == IInv /\ [Next]_vars => IInv'
<1> SUFFICES ASSUME IInv, [Next]_vars PROVE IInv'
  OBVIOUS
<1>1. CASE UNCHANGED vars
  BY <1>1 DEF vars, IInv, TypeOK, LogsKept
<1> QED
  BY <1>1, MainIInv, ComponentIInv, LoggerIInv, ReadIInv DEF Next

-----------------------------------------------------------------------------
(* Neither the channel nor logQueue ever holds more than it has room for:  *)
(* the test of logQueue's length in Log.Start is right although others     *)
(* take messages out of it at any time.                                    *)
THEOREM TypeCorrect == Spec => []TypeOK
<1>1. IInv => TypeOK
  BY DEF IInv
<1> QED
  BY <1>1, InitIInv, NextIInv, PTL DEF Spec

(* Until the logger is told to terminate, what was printed, followed by    *)
(* what is in the channel, is everything that was logged, once and in      *)
(* order.                                                                  *)
THEOREM LogsAlwaysKept == Spec => []LogsKept
<1>1. IInv => LogsKept
  BY DEF IInv
<1> QED
  BY <1>1, InitIInv, NextIInv, PTL DEF Spec

=============================================================================
