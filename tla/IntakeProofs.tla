---------------------------- MODULE IntakeProofs ----------------------------
(***************************************************************************)
(* Proofs about Intake, for any number of workers, lines and starts, any   *)
(* capacity of the channel and any lines the broker may refuse.            *)
(***************************************************************************)
EXTENDS Intake, SequenceTheorems, TLAPS

LEMMA HeadTail ==
  ASSUME NEW S, NEW s \in Seq(S), s # <<>>
  PROVE  /\ Head(s) \in S /\ Tail(s) \in Seq(S)
         /\ Len(Tail(s)) = Len(s) - 1
         /\ Head(s) = s[1] /\ 1 \in DOMAIN s
         /\ \A i \in DOMAIN Tail(s) : i + 1 \in DOMAIN s /\ Tail(s)[i] = s[i + 1]
  BY SMT

LEMMA AppendAt ==
  ASSUME NEW S, NEW s \in Seq(S), NEW e \in S
  PROVE  /\ Append(s, e) \in Seq(S) /\ Len(Append(s, e)) = Len(s) + 1
         /\ \A i \in DOMAIN Append(s, e) : \/ i \in DOMAIN s /\ Append(s, e)[i] = s[i]
                                           \/ i = Len(s) + 1 /\ Append(s, e)[i] = e
         /\ \A i \in DOMAIN s : i # Len(s) + 1 /\ i < Len(s) + 1
  BY SMT

-----------------------------------------------------------------------------
(* Type correctness                                                        *)

\* A line is a number that has been given out.
LineInv == TypeOK /\ position <= Len(topic)

LEMMA InitLine == Init => LineInv
  BY IntakeAssumption, SMT DEF Init, LineInv, TypeOK, Lines, Idle

\* The fetch is a sequence of consecutive offsets.
LEMMA FetchType ==
  ASSUME NEW from \in Nat, NEW to \in Nat, from < to
  PROVE  /\ [i \in 1..(to - from) |-> from + i] \in Seq(Nat)
         /\ DOMAIN [i \in 1..(to - from) |-> from + i] = 1..(to - from)
  BY SMT

LEMMA MadeLine ==
  ASSUME TypeOK, Make
  PROVE  produced' \in 0..MaxLines /\ produced + 1 \in Lines
  BY IntakeAssumption, SMT DEF TypeOK, Make, Lines

LEMMA ProduceLine ==
  ASSUME LineInv, Produce
  PROVE  LineInv'
<1> USE DEF LineInv
<1>0. /\ topic \in Seq(Lines) /\ buffer \in Seq(Lines) /\ position \in Nat
      /\ Lines \subseteq 0..MaxLines
  BY IntakeAssumption, SMT DEF TypeOK, Lines
<1>1. CASE Inject
  <2>1. produced' \in 0..MaxLines /\ sync' \in 0..MaxLines
    BY <1>0, <1>1, MadeLine DEF Inject
  <2> QED
    BY <1>1, <2>1 DEF Inject, TypeOK, process, pipe
<1>2. CASE Injected
  <2>1. sync \in Lines /\ sync' = 0 /\ sync' \in 0..MaxLines
    BY <1>2, IntakeAssumption, SMT DEF Injected, TypeOK, Lines
  <2>2. topic' \in Seq(Lines) /\ Len(topic') >= Len(topic)
    <3>1. CASE topic' = Append(topic, sync)
      BY <1>0, <2>1, <3>1, SMT
    <3>2. CASE topic' = topic
      BY <1>0, <3>2, SMT
    <3> QED
      BY <1>2, <3>1, <3>2 DEF Injected
  <2>3. position <= Len(topic')
    BY <1>0, <2>2, SMT
  <2> QED
    BY <1>2, <2>1, <2>2, <2>3 DEF Injected, TypeOK, process, pipe
<1>3. CASE Report
  <2>1. produced' \in 0..MaxLines /\ buffer' \in Seq(Lines)
    BY <1>0, <1>3, MadeLine, AppendAt DEF Report, SendEvent
  <2> QED
    BY <1>3, <2>1 DEF Report, TypeOK, process, pipe
<1>4. CASE Chaos
  <2>1. produced' \in 0..MaxLines /\ buffer' \in Seq(Lines)
    BY <1>0, <1>4, MadeLine, AppendAt DEF Chaos, SendEvent
  <2>2. chaos' \in [Lines -> {"none", "flush", "exit"}]
    BY <1>4, Zenon DEF Chaos, TypeOK
  <2>3. app' = app
    BY <1>4 DEF Chaos
  <2> QED
    BY <1>4, <2>1, <2>2, <2>3 DEF Chaos, TypeOK, process, pipe
<1>5. CASE Deliver
  <2>1. Head(buffer) \in Lines /\ buffer' \in Seq(Lines)
    BY <1>0, <1>5, HeadTail DEF Deliver
  <2>2. topic' \in Seq(Lines) /\ Len(topic') >= Len(topic)
    <3>1. CASE topic' = Append(topic, Head(buffer))
      BY <1>0, <2>1, <3>1, SMT
    <3>2. CASE topic' = topic
      BY <1>0, <3>2, SMT
    <3> QED
      BY <1>5, <3>1, <3>2 DEF Deliver
  <2>3. position <= Len(topic')
    BY <1>0, <2>2, SMT
  <2> QED
    BY <1>5, <2>1, <2>2, <2>3 DEF Deliver, TypeOK, process, pipe
<1>6. ASSUME NEW n \in Lines, Flush(n) PROVE LineInv'
  <2>1. chaos' \in [Lines -> {"none", "flush", "exit"}]
    BY <1>6, Zenon DEF Flush, TypeOK
  <2> QED
    BY <1>6, <2>1 DEF Flush, TypeOK, process, pipe
<1>7. ASSUME NEW n \in Lines, Exit(n) PROVE LineInv'
  <2>1. cause' \in 0..MaxLines /\ buffer' \in Seq(Lines)
    BY <1>0, <1>7, SMT DEF Exit
  <2> QED
    BY <1>7, <2>1 DEF Exit, TypeOK, process, pipe
<1> QED
  BY <1>1, <1>2, <1>3, <1>4, <1>5, <1>6, <1>7 DEF Produce

LEMMA ConsumeLine ==
  ASSUME LineInv, Consume
  PROVE  LineInv'
<1> USE DEF LineInv
<1>0. /\ fetched \in Seq(Nat) /\ logChan \in Seq(Nat) /\ taken \in Seq(Nat)
      /\ topic \in Seq(Lines) /\ Len(topic) \in Nat /\ position \in Nat
  BY DEF TypeOK
<1>1. CASE Start
  <2>1. starts' \in 0..MaxStarts
    BY <1>1, IntakeAssumption, SMT DEF Start, TypeOK
  <2> QED
    BY <1>1, <2>1 DEF Start, TypeOK, producers, pipe
<1>2. CASE ResetToEnd
  <2>1. start' \in Nat /\ position' \in Nat /\ position' <= Len(topic)
    BY <1>0, <1>2, SMT DEF ResetToEnd
  <2> QED
    BY <1>2, <2>1 DEF ResetToEnd, TypeOK, producers, pipe
<1>3. CASE Crash
  <2>1. /\ fetched' \in Seq(Nat) /\ logChan' \in Seq(Nat) /\ Len(logChan') <= ChanSize
        /\ working' \in [Workers -> Nat]
    BY <1>3, IntakeAssumption, SMT DEF Crash, Idle
  <2> QED
    BY <1>3, <2>1 DEF Crash, TypeOK, producers
<1>4. CASE Poll
  <2>1. PICK last \in (position + 1)..Len(topic) :
          /\ position' = last
          /\ fetched' = [i \in 1..(last - position) |-> position + i]
    BY <1>4, Zenon DEF Poll
  <2>2. last \in Nat /\ position < last /\ last <= Len(topic)
    BY <1>0, <2>1, SMT
  <2>3. fetched' \in Seq(Nat)
    BY <1>0, <2>1, <2>2, FetchType
  <2> QED
    BY <1>4, <2>1, <2>2, <2>3 DEF Poll, TypeOK, producers, process
<1>5. CASE PollEmpty
  BY <1>5 DEF PollEmpty, TypeOK, vars, producers, process, pipe
<1>6. CASE Enqueue
  <2>1. fetched' \in Seq(Nat) /\ logChan' \in Seq(Nat) /\ Len(logChan') = Len(logChan) + 1
    BY <1>0, <1>6, HeadTail, AppendAt DEF Enqueue
  <2>2. Len(logChan') <= ChanSize
    BY <1>0, <1>6, <2>1, IntakeAssumption, SMT DEF Enqueue
  <2> QED
    BY <1>6, <2>1, <2>2 DEF Enqueue, TypeOK, producers, process
<1>7. ASSUME NEW w \in Workers, Take(w) PROVE LineInv'
  <2>1. Head(logChan) \in Nat /\ logChan' \in Seq(Nat) /\ Len(logChan') = Len(logChan) - 1
    BY <1>0, <1>7, HeadTail DEF Take
  <2>2. Len(logChan') <= ChanSize
    BY <1>0, <2>1, IntakeAssumption, SMT DEF TypeOK
  <2>3. working' \in [Workers -> Nat]
    BY <1>7, <2>1, Zenon DEF Take, TypeOK
  <2>4. taken' \in Seq(Nat)
    BY <1>0, <1>7, <2>1, AppendAt DEF Take
  <2> QED
    BY <1>7, <2>1, <2>2, <2>3, <2>4 DEF Take, TypeOK, producers, process
<1>8. ASSUME NEW w \in Workers, Finish(w) PROVE LineInv'
  <2>1. working' \in [Workers -> Nat]
    BY <1>8, SMT DEF Finish, TypeOK
  <2> QED
    BY <1>8, <2>1 DEF Finish, TypeOK, producers, process
<1> QED
  BY <1>1, <1>2, <1>3, <1>4, <1>5, <1>6, <1>7, <1>8 DEF Consume

LEMMA NextLine == LineInv /\ [Next]_vars => LineInv'
<1> SUFFICES ASSUME LineInv, [Next]_vars PROVE LineInv'
  OBVIOUS
<1>1. CASE UNCHANGED vars
  BY <1>1 DEF LineInv, TypeOK, vars, producers, process, pipe
<1> QED
  BY <1>1, ProduceLine, ConsumeLine DEF Next

LEMMA LineInvariant == Spec => []LineInv
  BY InitLine, NextLine, PTL DEF Spec

\* Every variable keeps its type; the channel never exceeds its capacity.
THEOREM TypeCorrect == Spec => []TypeOK
<1>1. LineInv => TypeOK
  BY DEF LineInv
<1> QED
  BY <1>1, LineInvariant, PTL

-----------------------------------------------------------------------------
(* The order of the lines                                                  *)

Ordered(s) == \A i, k \in DOMAIN s : i < k => s[i] < s[k]
Below(s, t) == \A i \in DOMAIN s, k \in DOMAIN t : s[i] < t[k]
UpTo(s, o) == \A i \in DOMAIN s : s[i] <= o

\* What is taken, what is in the channel and what is fetched are one
\* increasing run of offsets, which ends where the consumer is.
OrderInv ==
    /\ Ordered(taken) /\ Ordered(logChan) /\ Ordered(fetched)
    /\ Below(taken, logChan) /\ Below(taken, fetched) /\ Below(logChan, fetched)
    /\ UpTo(taken, position) /\ UpTo(logChan, position) /\ UpTo(fetched, position)

LEMMA TailOrder ==
  ASSUME NEW s \in Seq(Nat), s # <<>>, Ordered(s), NEW t \in Seq(Nat), NEW o \in Nat
  PROVE  /\ Ordered(Tail(s))
         /\ Below(s, t) => Below(Tail(s), t)
         /\ Below(t, s) => Below(t, Tail(s)) /\ \A k \in DOMAIN t : t[k] < Head(s)
         /\ UpTo(s, o) => UpTo(Tail(s), o) /\ Head(s) <= o
         /\ \A i \in DOMAIN Tail(s) : Head(s) < Tail(s)[i]
         /\ Below(s, t) => \A k \in DOMAIN t : Head(s) < t[k]
<1> DEFINE r == Tail(s)
<1>1. /\ Head(s) = s[1] /\ 1 \in DOMAIN s
      /\ \A i \in DOMAIN r : i + 1 \in DOMAIN s /\ r[i] = s[i + 1]
  BY HeadTail
<1>2. \A i, k \in DOMAIN r : i < k => i + 1 < k + 1
  BY SMT
<1>3. \A i \in DOMAIN r : 1 < i + 1
  BY SMT
<1> HIDE DEF r
<1>4. Ordered(r)
  BY <1>1, <1>2, Zenon DEF Ordered
<1>5. \A i \in DOMAIN r : Head(s) < r[i]
  BY <1>1, <1>3, Zenon DEF Ordered
<1>6. Below(s, t) => Below(r, t) /\ \A k \in DOMAIN t : Head(s) < t[k]
  BY <1>1, Zenon DEF Below
<1>7. Below(t, s) => Below(t, r) /\ \A k \in DOMAIN t : t[k] < Head(s)
  BY <1>1, Zenon DEF Below
<1>8. UpTo(s, o) => UpTo(r, o) /\ Head(s) <= o
  BY <1>1, Zenon DEF UpTo
<1> QED
  BY <1>4, <1>5, <1>6, <1>7, <1>8 DEF r

LEMMA AppendOrder ==
  ASSUME NEW s \in Seq(Nat), Ordered(s), NEW e \in Nat, \A i \in DOMAIN s : s[i] < e,
         NEW t \in Seq(Nat), NEW o \in Nat
  PROVE  /\ Ordered(Append(s, e))
         /\ Below(s, t) /\ (\A k \in DOMAIN t : e < t[k]) => Below(Append(s, e), t)
         /\ Below(t, s) /\ (\A k \in DOMAIN t : t[k] < e) => Below(t, Append(s, e))
         /\ UpTo(s, o) /\ e <= o => UpTo(Append(s, e), o)
<1>1. /\ \A i \in DOMAIN Append(s, e) : \/ i \in DOMAIN s /\ Append(s, e)[i] = s[i]
                                        \/ i = Len(s) + 1 /\ Append(s, e)[i] = e
      /\ \A i \in DOMAIN s : i < Len(s) + 1 /\ i \in Nat
      /\ Len(s) + 1 \in Nat
  BY SMT
<1>2. Ordered(Append(s, e))
  BY <1>1, SMT DEF Ordered
<1>3. ASSUME Below(s, t), \A k \in DOMAIN t : e < t[k] PROVE Below(Append(s, e), t)
  BY <1>1, <1>3, Zenon DEF Below
<1>4. ASSUME Below(t, s), \A k \in DOMAIN t : t[k] < e PROVE Below(t, Append(s, e))
  BY <1>1, <1>4, Zenon DEF Below
<1>5. ASSUME UpTo(s, o), e <= o PROVE UpTo(Append(s, e), o)
  BY <1>1, <1>5, Zenon DEF UpTo
<1> QED
  BY <1>2, <1>3, <1>4, <1>5

LEMMA RaiseOrder ==
  ASSUME NEW s \in Seq(Nat), NEW o \in Nat, NEW p \in Nat, o <= p, UpTo(s, o)
  PROVE  UpTo(s, p)
  BY SMT DEF UpTo

LEMMA EmptyOrder ==
  ASSUME NEW s, NEW o
  PROVE  Ordered(<<>>) /\ Below(<<>>, s) /\ Below(s, <<>>) /\ UpTo(<<>>, o)
  BY SMT DEF Ordered, Below, UpTo

LEMMA InitOrder == Init => OrderInv
  BY EmptyOrder DEF Init, OrderInv

LEMMA NextOrder == LineInv /\ OrderInv /\ [Next]_vars => OrderInv'
<1> SUFFICES ASSUME LineInv, OrderInv, [Next]_vars PROVE OrderInv'
  OBVIOUS
<1>0. /\ fetched \in Seq(Nat) /\ logChan \in Seq(Nat) /\ taken \in Seq(Nat)
      /\ Len(topic) \in Nat /\ position \in Nat /\ position <= Len(topic)
  BY DEF LineInv, TypeOK
<1>1. CASE UNCHANGED <<position, fetched, logChan, taken>>
  BY <1>1 DEF OrderInv
<1>2. CASE ResetToEnd
  <2>1. /\ position' = Len(topic)
        /\ UNCHANGED <<fetched, logChan, taken>>
    BY <1>2 DEF ResetToEnd, pipe
  <2>2. UpTo(taken, position') /\ UpTo(logChan, position') /\ UpTo(fetched, position')
    BY <1>0, <2>1, RaiseOrder DEF OrderInv
  <2> QED
    BY <2>1, <2>2 DEF OrderInv
<1>3. CASE Crash
  <2>1. fetched' = <<>> /\ logChan' = <<>> /\ UNCHANGED <<position, taken>>
    BY <1>3 DEF Crash
  <2> QED
    BY <2>1, EmptyOrder DEF OrderInv
<1>4. CASE Poll
  <2>1. PICK last \in (position + 1)..Len(topic) :
          /\ position' = last
          /\ fetched' = [i \in 1..(last - position) |-> position + i]
    BY <1>4, Zenon DEF Poll
  <2>2. UNCHANGED <<logChan, taken>>
    BY <1>4 DEF Poll
  <2>3. last \in Nat /\ position < last
    BY <1>0, <2>1, SMT
  <2>4. UpTo(taken, position') /\ UpTo(logChan, position')
    <3>1. position <= last
      BY <1>0, <2>3, SMT
    <3> QED
      BY <1>0, <2>1, <2>3, <3>1, RaiseOrder DEF OrderInv
  <2>5. Ordered(fetched') /\ UpTo(fetched', position')
    BY <1>0, <2>1, <2>3, SMT DEF Ordered, UpTo
  <2>6. Below(taken, fetched') /\ Below(logChan, fetched')
    <3>1. \A k \in DOMAIN fetched' : fetched'[k] > position /\ fetched'[k] \in Nat
      BY <1>0, <2>1, <2>3, SMT
    <3>2. UpTo(taken, position) /\ UpTo(logChan, position)
      BY DEF OrderInv
    <3> QED
      BY <1>0, <3>1, <3>2, SMTT(30) DEF Below, UpTo
  <2> QED
    BY <2>2, <2>4, <2>5, <2>6 DEF OrderInv
<1>5. CASE Enqueue
  <2> DEFINE e == Head(fetched)
  <2>1. /\ fetched # <<>> /\ logChan' = Append(logChan, e) /\ fetched' = Tail(fetched)
        /\ UNCHANGED <<position, taken>>
    BY <1>5 DEF Enqueue
  <2>2. e \in Nat /\ Tail(fetched) \in Seq(Nat)
    BY <1>0, <2>1, HeadTail
  <2>3. /\ Ordered(Tail(fetched)) /\ Below(taken, Tail(fetched))
        /\ Below(logChan, Tail(fetched)) /\ UpTo(Tail(fetched), position) /\ e <= position
        /\ \A k \in DOMAIN taken : taken[k] < e
        /\ \A k \in DOMAIN logChan : logChan[k] < e
        /\ \A k \in DOMAIN Tail(fetched) : e < Tail(fetched)[k]
    BY <1>0, <2>1, TailOrder DEF OrderInv
  <2> HIDE DEF e
  <2>4. /\ Ordered(Append(logChan, e)) /\ Below(Append(logChan, e), Tail(fetched))
        /\ Below(taken, Append(logChan, e)) /\ UpTo(Append(logChan, e), position)
    BY <1>0, <2>2, <2>3, AppendOrder DEF OrderInv
  <2> QED
    BY <2>1, <2>3, <2>4 DEF OrderInv
<1>6. ASSUME NEW w \in Workers, Take(w) PROVE OrderInv'
  <2> DEFINE e == Head(logChan)
  <2>1. /\ logChan # <<>> /\ taken' = Append(taken, e) /\ logChan' = Tail(logChan)
        /\ UNCHANGED <<position, fetched>>
    BY <1>6 DEF Take
  <2>2. e \in Nat /\ Tail(logChan) \in Seq(Nat)
    BY <1>0, <2>1, HeadTail
  <2>3. /\ Ordered(Tail(logChan)) /\ Below(taken, Tail(logChan))
        /\ Below(Tail(logChan), fetched) /\ UpTo(Tail(logChan), position) /\ e <= position
        /\ \A k \in DOMAIN taken : taken[k] < e
        /\ \A k \in DOMAIN fetched : e < fetched[k]
        /\ \A k \in DOMAIN Tail(logChan) : e < Tail(logChan)[k]
    BY <1>0, <2>1, TailOrder DEF OrderInv
  <2> HIDE DEF e
  <2>4. /\ Ordered(Append(taken, e)) /\ Below(Append(taken, e), Tail(logChan))
        /\ Below(Append(taken, e), fetched) /\ UpTo(Append(taken, e), position)
    BY <1>0, <2>2, <2>3, AppendOrder DEF OrderInv
  <2> QED
    BY <2>1, <2>3, <2>4 DEF OrderInv
<1>7. CASE Produce
  BY <1>1, <1>7 DEF Produce, Inject, Injected, Report, Chaos, Deliver, Flush, Exit, pipe
<1>8. CASE Start \/ PollEmpty \/ (\E w \in Workers : Finish(w)) \/ UNCHANGED vars
  BY <1>1, <1>8 DEF Start, PollEmpty, Finish, vars, pipe
<1> QED
  BY <1>2, <1>3, <1>4, <1>5, <1>6, <1>7, <1>8 DEF Next, Consume

\* No line is taken twice, and none before an earlier one, through any number
\* of crashes and starts.
THEOREM InOrder == Spec => []TakenInOrder
<1>1. OrderInv => TakenInOrder
  BY DEF OrderInv, Ordered, TakenInOrder
<1>2. Spec => []OrderInv
  BY InitOrder, NextOrder, LineInvariant, PTL DEF Spec
<1> QED
  BY <1>1, <1>2, PTL

-----------------------------------------------------------------------------
(* No line is skipped                                                      *)

Members(s) == {s[i] : i \in DOMAIN s}

LEMMA MoveMember ==
  ASSUME NEW S, NEW s \in Seq(S), NEW t \in Seq(S), s # <<>>
  PROVE  /\ Members(s) \subseteq Members(Tail(s)) \cup {Head(s)}
         /\ Members(t) \cup {Head(s)} \subseteq Members(Append(t, Head(s)))
<1>1. Members(s) \subseteq Members(Tail(s)) \cup {Head(s)}
  <2> SUFFICES ASSUME NEW i \in DOMAIN s, i # 1
               PROVE  s[i] \in Members(Tail(s))
    <3>1. Head(s) = s[1]
      BY HeadTail
    <3> QED
      BY <3>1, Zenon DEF Members
  <2>1. i - 1 \in DOMAIN Tail(s) /\ Tail(s)[i - 1] = s[i]
    BY SMT
  <2> QED
    BY <2>1, Zenon DEF Members
<1>2. Members(t) \cup {Head(s)} \subseteq Members(Append(t, Head(s)))
  <2>1. /\ \A i \in DOMAIN t : i \in DOMAIN Append(t, Head(s)) /\ Append(t, Head(s))[i] = t[i]
        /\ Len(t) + 1 \in DOMAIN Append(t, Head(s)) /\ Append(t, Head(s))[Len(t) + 1] = Head(s)
    BY SMT
  <2> QED
    BY <2>1, Zenon DEF Members
<1> QED
  BY <1>1, <1>2

\* Where an offset can be that the consumer has fetched.
Somewhere == Members(taken) \cup Members(logChan) \cup Members(fetched)

LEMMA SkipMeans == NothingSkipped <=> (phase = "up" => (start + 1)..position \subseteq Somewhere)
  BY Zenon DEF NothingSkipped, Somewhere, TakenSet, Members

LEMMA NextSkip == LineInv /\ NothingSkipped /\ [Next]_vars => NothingSkipped'
<1> SUFFICES ASSUME LineInv, NothingSkipped, [Next]_vars PROVE NothingSkipped'
  OBVIOUS
<1>0. /\ fetched \in Seq(Nat) /\ logChan \in Seq(Nat) /\ taken \in Seq(Nat)
      /\ Len(topic) \in Nat /\ position \in Nat /\ start \in Nat
  BY DEF LineInv, TypeOK
<1>1. ASSUME UNCHANGED <<phase, start, position>>, Somewhere \subseteq Somewhere'
      PROVE  NothingSkipped'
  <2>1. phase' = "up" => (start' + 1)..position' \subseteq Somewhere'
    BY <1>1, SkipMeans
  <2> QED
    BY <2>1, Zenon DEF NothingSkipped, Somewhere, TakenSet, Members
<1>2. ASSUME UNCHANGED <<process, position, fetched, logChan, taken>>
      PROVE  NothingSkipped'
  BY <1>2, Zenon DEF NothingSkipped, TakenSet, process
<1>3. CASE ResetToEnd
  <2>1. (start' + 1)..position' = {}
    BY <1>0, <1>3, SMT DEF ResetToEnd
  <2> QED
    BY <2>1 DEF NothingSkipped
<1>4. CASE Crash \/ Start
  <2>1. phase' # "up"
    BY <1>4 DEF Crash, Start
  <2> QED
    BY <2>1 DEF NothingSkipped
<1>5. CASE Poll
  <2>1. PICK last \in (position + 1)..Len(topic) :
          /\ position' = last
          /\ fetched' = [i \in 1..(last - position) |-> position + i]
    BY <1>5, Zenon DEF Poll
  <2>2. fetched = <<>> /\ phase = "up" /\ UNCHANGED <<process, logChan, taken>>
    BY <1>5 DEF Poll
  <2>3. last \in Nat /\ position < last
    BY <1>0, <2>1, SMT
  <2>4. Members(fetched) = {}
    <3>1. DOMAIN fetched = {}
      BY <2>2, SMT
    <3> QED
      BY <3>1, Zenon DEF Members
  <2>5. ASSUME NEW o \in (start + 1)..last
        PROVE  o \in Somewhere'
    <3>1. CASE o <= position
      <4>1. o \in (start + 1)..position
        BY <1>0, <2>3, <3>1, SMT
      <4>2. o \in Members(taken) \cup Members(logChan)
        BY <2>2, <2>4, <4>1, SkipMeans DEF Somewhere
      <4> QED
        BY <2>2, <4>2 DEF Somewhere, Members
    <3>2. CASE ~(o <= position)
      <4>1. o - position \in 1..(last - position) /\ position + (o - position) = o
        BY <1>0, <2>3, <3>2, SMT
      <4>2. o - position \in DOMAIN fetched' /\ fetched'[o - position] = o
        BY <2>1, <4>1
      <4>3. o \in Members(fetched')
        BY <4>2, Zenon DEF Members
      <4> QED
        BY <4>3, Zenon DEF Somewhere, Members
    <3> QED
      BY <3>1, <3>2
  <2> QED
    <3>1. \A o \in (start' + 1)..position' : o \in Somewhere'
      BY <2>1, <2>2, <2>5 DEF process
    <3> QED
      BY <3>1, Zenon DEF NothingSkipped, Somewhere, TakenSet, Members
<1>6. CASE Enqueue
  <2>1. /\ fetched # <<>> /\ logChan' = Append(logChan, Head(fetched))
        /\ fetched' = Tail(fetched)
        /\ UNCHANGED <<process, position, taken>>
    BY <1>6 DEF Enqueue
  <2>2. /\ Members(fetched) \subseteq Members(fetched') \cup {Head(fetched)}
        /\ Members(logChan) \cup {Head(fetched)} \subseteq Members(logChan')
    BY <1>0, <2>1, MoveMember
  <2>3. Members(taken) = Members(taken')
    BY <2>1
  <2>4. Somewhere \subseteq Members(taken') \cup Members(logChan') \cup Members(fetched')
    BY <2>2, <2>3, Zenon DEF Somewhere
  <2>5. Somewhere \subseteq Somewhere'
    BY <2>4, Zenon DEF Somewhere, Members
  <2> QED
    BY <1>1, <2>1, <2>5 DEF process
<1>7. ASSUME NEW w \in Workers, Take(w) PROVE NothingSkipped'
  <2>1. /\ logChan # <<>> /\ taken' = Append(taken, Head(logChan))
        /\ logChan' = Tail(logChan)
        /\ UNCHANGED <<process, position, fetched>>
    BY <1>7 DEF Take
  <2>2. /\ Members(logChan) \subseteq Members(logChan') \cup {Head(logChan)}
        /\ Members(taken) \cup {Head(logChan)} \subseteq Members(taken')
    BY <1>0, <2>1, MoveMember
  <2>3. Members(fetched) = Members(fetched')
    BY <2>1
  <2>4. Somewhere \subseteq Members(taken') \cup Members(logChan') \cup Members(fetched')
    BY <2>2, <2>3, Zenon DEF Somewhere
  <2>5. Somewhere \subseteq Somewhere'
    BY <2>4, Zenon DEF Somewhere, Members
  <2> QED
    BY <1>1, <2>1, <2>5 DEF process
<1>8. CASE Produce
  BY <1>2, <1>8 DEF Produce, Inject, Injected, Report, Chaos, Deliver, Flush, Exit, pipe
<1>9. CASE PollEmpty \/ (\E w \in Workers : Finish(w)) \/ UNCHANGED vars
  BY <1>2, <1>9 DEF PollEmpty, Finish, vars, pipe
<1> QED
  BY <1>3, <1>4, <1>5, <1>6, <1>7, <1>8, <1>9 DEF Next, Consume

\* What the consumer has fetched is with a worker, in the channel or in the
\* fetch at hand: the loop loses no line, however small the channel is.
THEOREM NoSkip == Spec => []NothingSkipped
<1>1. Init => NothingSkipped
  BY DEF Init, NothingSkipped
<1> QED
  BY <1>1, NextSkip, LineInvariant, PTL DEF Spec

-----------------------------------------------------------------------------
(* A crash of target-app is reported                                       *)

\* A handler that has yet to flush has its line in the buffer or on the topic,
\* one that is about to exit has it on the topic.
ReportInv ==
    /\ app = "up" => \A n \in Lines \ Refusable :
                       /\ chaos[n] = "flush" => n \in Members(topic) \cup Members(buffer)
                       /\ chaos[n] = "exit" => n \in Members(topic)
    /\ CrashIsReported

\* Lines stay on the topic.
LEMMA TopicGrows ==
  ASSUME TypeOK, NEW e \in Lines, topic' = Append(topic, e) \/ topic' = topic
  PROVE  /\ Members(topic) \subseteq Members(topic')
         /\ topic' = Append(topic, e) => e \in Members(topic')
<1>1. topic \in Seq(Lines)
  BY DEF TypeOK
<1>2. CASE topic' = topic
  <2>1. topic # Append(topic, e)
    BY <1>1, SMT
  <2> QED
    BY <1>2, <2>1, Zenon DEF Members
<1>3. CASE topic' = Append(topic, e)
  <2>1. /\ \A i \in DOMAIN topic : i \in DOMAIN topic' /\ topic'[i] = topic[i]
        /\ Len(topic) + 1 \in DOMAIN topic' /\ topic'[Len(topic) + 1] = e
    BY <1>1, <1>3, SMT
  <2> QED
    BY <2>1, Zenon DEF Members
<1> QED
  BY <1>2, <1>3

LEMMA NextReport == LineInv /\ ReportInv /\ [Next]_vars => ReportInv'
<1> SUFFICES ASSUME LineInv, ReportInv, [Next]_vars PROVE ReportInv'
  OBVIOUS
<1>0. /\ TypeOK /\ buffer \in Seq(Lines) /\ Lines \subseteq Nat
      /\ chaos \in [Lines -> {"none", "flush", "exit"}]
  BY SMT DEF LineInv, TypeOK, Lines
<1>1. ASSUME UNCHANGED <<app, cause, chaos>>, Members(topic) \subseteq Members(topic'),
             Members(buffer) \ Refusable \subseteq Members(topic') \cup Members(buffer')
      PROVE  ReportInv'
  <2>1. CrashIsReported'
    <3>1. app = "down" /\ cause \notin Refusable => cause \in Members(topic)
      BY Zenon DEF ReportInv, CrashIsReported, Members
    <3>2. app' = "down" /\ cause' \notin Refusable => cause' \in Members(topic')
      BY <1>1, <3>1
    <3> QED
      BY <3>2, Zenon DEF CrashIsReported, Members
  <2>2. ASSUME app' = "up", NEW n \in Lines \ Refusable
        PROVE  /\ chaos'[n] = "flush" => n \in Members(topic') \cup Members(buffer')
               /\ chaos'[n] = "exit" => n \in Members(topic')
    BY <1>1, <2>2 DEF ReportInv
  <2> QED
    BY <2>1, <2>2 DEF ReportInv
<1>2. CASE Injected
  <2>1. /\ UNCHANGED <<app, cause, chaos, buffer>>
        /\ topic' = Append(topic, sync) \/ topic' = topic
        /\ sync \in Lines
    <3>1. sync \in Lines
      BY <1>0, <1>2, IntakeAssumption, SMT DEF Injected, TypeOK, Lines
    <3> QED
      BY <1>2, <3>1 DEF Injected
  <2>2. Members(topic) \subseteq Members(topic')
    BY <1>0, <2>1, TopicGrows
  <2> QED
    BY <1>1, <2>1, <2>2 DEF Members
<1>3. CASE Report
  <2>1. /\ UNCHANGED <<app, cause, chaos, topic>> /\ buffer' = Append(buffer, produced + 1)
        /\ produced + 1 \in Lines
    BY <1>0, <1>3, MadeLine DEF Report, SendEvent
  <2>2. \A i \in DOMAIN buffer : i \in DOMAIN buffer' /\ buffer'[i] = buffer[i]
    BY <1>0, <2>1, SMT
  <2>3. Members(buffer) \subseteq Members(buffer')
    BY <2>2, Zenon DEF Members
  <2> QED
    BY <1>1, <2>1, <2>3 DEF Members
<1>4. CASE Chaos
  <2> DEFINE m == produced + 1
  <2>1. /\ UNCHANGED <<app, cause, topic>> /\ buffer' = Append(buffer, m)
        /\ m \in Lines /\ chaos' = [chaos EXCEPT ![m] = "flush"]
    BY <1>0, <1>4, MadeLine DEF Chaos, SendEvent
  <2> HIDE DEF m
  <2>2. /\ \A i \in DOMAIN buffer : i \in DOMAIN buffer' /\ buffer'[i] = buffer[i]
        /\ Len(buffer) + 1 \in DOMAIN buffer' /\ buffer'[Len(buffer) + 1] = m
    BY <1>0, <2>1, SMT
  <2>3. Members(buffer) \subseteq Members(buffer') /\ m \in Members(buffer')
    BY <2>2, Zenon DEF Members
  <2>4. Members(topic) = Members(topic')
    BY <2>1 DEF Members
  <2>5. ASSUME app' = "up", NEW n \in Lines \ Refusable
        PROVE  /\ chaos'[n] = "flush" => n \in Members(topic') \cup Members(buffer')
               /\ chaos'[n] = "exit" => n \in Members(topic')
    <3>1. CASE n = m
      BY <1>0, <2>1, <2>3, <3>1
    <3>2. CASE n # m
      <4>1. chaos'[n] = chaos[n]
        BY <1>0, <2>1, <3>2
      <4> QED
        BY <2>1, <2>3, <2>4, <2>5, <4>1 DEF ReportInv
    <3> QED
      BY <3>1, <3>2
  <2>6. CrashIsReported'
    BY <2>1, Zenon DEF ReportInv, CrashIsReported
  <2> QED
    BY <2>5, <2>6 DEF ReportInv
<1>5. CASE Deliver
  <2> DEFINE e == Head(buffer)
  <2>1. /\ UNCHANGED <<app, cause, chaos>> /\ buffer # <<>> /\ buffer' = Tail(buffer)
        /\ topic' = Append(topic, e) \/ (e \in Refusable /\ topic' = topic)
    BY <1>5 DEF Deliver
  <2>2. e \in Lines
    BY <1>0, <2>1, HeadTail
  <2>3. ASSUME NEW n \in Members(buffer)
        PROVE  n = e \/ n \in Members(buffer')
    <3>1. Members(buffer) \subseteq Members(buffer') \cup {e}
      BY <1>0, <2>1, MoveMember
    <3> QED
      BY <2>3, <3>1
  <2> HIDE DEF e
  <2>4. Members(topic) \subseteq Members(topic') /\ (topic' = Append(topic, e) => e \in Members(topic'))
    BY <1>0, <2>1, <2>2, TopicGrows
  <2>5. ASSUME NEW n \in Members(buffer) \ Refusable
        PROVE  n \in Members(topic') \cup Members(buffer')
    BY <2>1, <2>3, <2>4, <2>5
  <2> QED
    BY <1>1, <2>1, <2>4, <2>5
<1>6. ASSUME NEW m \in Lines, Flush(m) PROVE ReportInv'
  <2>1. /\ UNCHANGED <<app, cause, topic, buffer>> /\ buffer = <<>>
        /\ chaos' = [chaos EXCEPT ![m] = "exit"] /\ app = "up" /\ chaos[m] = "flush"
    BY <1>6 DEF Flush
  <2>2. Members(buffer) = {}
    <3>1. DOMAIN buffer = {}
      BY <2>1, SMT
    <3> QED
      BY <3>1 DEF Members
  <2>3. Members(topic) = Members(topic')
    BY <2>1 DEF Members
  <2>4. ASSUME NEW n \in Lines \ Refusable
        PROVE  /\ chaos'[n] = "flush" => n \in Members(topic') \cup Members(buffer')
               /\ chaos'[n] = "exit" => n \in Members(topic')
    <3>1. CASE n = m
      BY <2>1, <2>2, <2>3, <3>1 DEF ReportInv
    <3>2. CASE n # m
      <4>1. chaos'[n] = chaos[n]
        BY <1>0, <2>1, <3>2
      <4> QED
        BY <2>1, <2>2, <2>3, <4>1 DEF ReportInv
    <3> QED
      BY <3>1, <3>2
  <2>5. CrashIsReported'
    BY <2>1, Zenon DEF ReportInv, CrashIsReported
  <2> QED
    BY <2>4, <2>5 DEF ReportInv
<1>7. ASSUME NEW m \in Lines, Exit(m) PROVE ReportInv'
  <2>1. app = "up" /\ chaos[m] = "exit" /\ app' = "down" /\ cause' = m /\ topic' = topic
    BY <1>7 DEF Exit
  <2>2. m \notin Refusable => m \in Members(topic)
    BY <2>1 DEF ReportInv
  <2> QED
    BY <2>1, <2>2 DEF ReportInv, CrashIsReported, Members
<1>8. CASE Inject \/ Consume \/ UNCHANGED vars
  <2>1. UNCHANGED <<app, cause, chaos, topic, buffer>>
    BY <1>8 DEF Inject, Consume, Start, ResetToEnd, Crash, Poll, PollEmpty, Enqueue, Take,
                Finish, vars, producers
  <2> QED
    BY <1>1, <2>1 DEF Members
<1> QED
  BY <1>2, <1>3, <1>4, <1>5, <1>6, <1>7, <1>8 DEF Next, Produce

\* The line of the handler that ends target-app has reached the topic, unless
\* the broker refused it, whatever the other handlers send meanwhile.
THEOREM Reported == Spec => []CrashIsReported
<1>1. Init => ReportInv
  BY SMT DEF Init, ReportInv, CrashIsReported
<1>2. ReportInv => CrashIsReported
  BY DEF ReportInv
<1> QED
  BY <1>1, <1>2, NextReport, LineInvariant, PTL DEF Spec
=============================================================================
