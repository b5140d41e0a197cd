------------------------------- MODULE Intake -------------------------------
(***************************************************************************)
(* How log lines reach the workers of Orchestrator: the injector, the      *)
(* handlers of target-app and their Kafka producer, the topic              *)
(* health-events (one partition), and in main.go the consumer that starts  *)
(* at the end of the topic, the poll loop and the bounded channel logChan. *)
(* What a worker does with a line is one step here.                        *)
(*                                                                         *)
(* A line is its number in the order of production, on the topic it is     *)
(* also known by its offset.                                               *)
(***************************************************************************)
EXTENDS Integers, Sequences, FiniteSets

CONSTANTS
    Workers,       \* the goroutines that range over logChan
    ChanSize,      \* 100 in the code
    Refusable,     \* lines the broker may refuse
    MaxLines,      \* bound: lines produced
    MaxStarts      \* bound: starts of the orchestrator

ASSUME IntakeAssumption ==
    /\ IsFiniteSet(Workers)
    /\ ChanSize \in Nat \ {0}
    /\ Refusable \subseteq 1..MaxLines
    /\ MaxLines \in Nat
    /\ MaxStarts \in Nat

VARIABLES
    produced,  \* lines made so far
    topic,     \* the lines of health-events, in the order of their offsets
    sync,      \* the line injector.go waits for; zero when it makes the next
    app,       \* "up", or "down" after os.Exit
    buffer,    \* lines target-app's client has yet to send
    chaos,     \* chaos[n]: where the /chaos handler that made line n is
    cause,     \* the line of the handler that called os.Exit
    phase,     \* the orchestrator: "down", "starting", "up"
    starts,    \* how many times it has been started
    start,     \* offset at which the consumer began
    position,  \* offset of the last record the consumer has fetched
    fetched,   \* offsets of the fetch the loop iterates over
    logChan,   \* offsets in the channel
    working,   \* working[w]: the offset worker w is at, zero when it has none
    taken      \* the offsets received from logChan by workers, in order

producers == <<produced, sync, app, buffer, chaos, cause>>
process == <<phase, starts, start>>
pipe == <<fetched, logChan, working>>
vars == <<producers, topic, process, position, pipe, taken>>

Lines == 1..MaxLines
Idle == [w \in Workers |-> 0]

-----------------------------------------------------------------------------
(* Producers                                                               *)

Make == produced < MaxLines /\ produced' = produced + 1

\* ProduceSync: the injector does nothing else until the broker has answered.
Inject ==
    /\ sync = 0
    /\ Make
    /\ sync' = produced + 1
    /\ UNCHANGED <<topic, app, buffer, chaos, cause, process, position, pipe, taken>>

\* The answer; an error is printed, and says nothing of the record.
Injected ==
    /\ sync # 0
    /\ sync' = 0
    /\ \/ topic' = Append(topic, sync)
       \/ sync \in Refusable /\ UNCHANGED topic
    /\ UNCHANGED <<produced, app, buffer, chaos, cause, process, position, pipe, taken>>

\* sendEvent hands the line to the client, which sends it later.
SendEvent == /\ app = "up"
             /\ Make
             /\ buffer' = Append(buffer, produced + 1)

\* /health, and the /chaos handlers that do not crash.
Report ==
    /\ SendEvent
    /\ UNCHANGED <<topic, sync, app, chaos, cause, process, position, pipe, taken>>

\* The /chaos handler that will exit: sendEvent, then Flush.
Chaos ==
    /\ SendEvent
    /\ chaos' = [chaos EXCEPT ![produced + 1] = "flush"]
    /\ UNCHANGED <<topic, sync, app, cause, process, position, pipe, taken>>

\* The client's goroutine.
Deliver ==
    /\ app = "up" /\ buffer # <<>>
    /\ buffer' = Tail(buffer)
    /\ \/ topic' = Append(topic, Head(buffer))
       \/ Head(buffer) \in Refusable /\ UNCHANGED topic
    /\ UNCHANGED <<produced, sync, app, chaos, cause, process, position, pipe, taken>>

\* Mutant: no Flush before os.Exit.
FlushNot(n) ==
    /\ app = "up" /\ chaos[n] = "flush"
    /\ chaos' = [chaos EXCEPT ![n] = "exit"]
    /\ UNCHANGED <<produced, topic, sync, app, buffer, cause, process, position, pipe, taken>>

\* Flush returns when nothing is buffered, by whichever handler.
Flush(n) ==
    /\ app = "up" /\ chaos[n] = "flush"
    /\ buffer = <<>>
    /\ chaos' = [chaos EXCEPT ![n] = "exit"]
    /\ UNCHANGED <<produced, topic, sync, app, buffer, cause, process, position, pipe, taken>>

\* os.Exit: what other handlers have sent since is lost with the client.
Exit(n) ==
    /\ app = "up" /\ chaos[n] = "exit"
    /\ app' = "down"
    /\ cause' = n
    /\ buffer' = <<>>
    /\ UNCHANGED <<produced, topic, sync, chaos, process, position, pipe, taken>>

-----------------------------------------------------------------------------
(* The orchestrator                                                        *)

Start ==
    /\ phase = "down" /\ starts < MaxStarts
    /\ phase' = "starting"
    /\ starts' = starts + 1
    /\ UNCHANGED <<producers, topic, start, position, pipe, taken>>

\* Mutant: AtStart.
ResetToStart ==
    /\ phase = "starting"
    /\ phase' = "up"
    /\ start' = 0
    /\ position' = 0
    /\ UNCHANGED <<producers, topic, starts, pipe, taken>>

\* The consumer has no group and no committed offset: it asks for the end of
\* the topic, some time after the process has started.
ResetToEnd ==
    /\ phase = "starting"
    /\ phase' = "up"
    /\ start' = Len(topic)
    /\ position' = Len(topic)
    /\ UNCHANGED <<producers, topic, starts, pipe, taken>>

\* PollFetches returns some of what follows.
Poll ==
    /\ phase = "up" /\ fetched = <<>>
    /\ \E last \in (position + 1)..Len(topic) :
         /\ position' = last
         /\ fetched' = [i \in 1..(last - position) |-> position + i]
    /\ UNCHANGED <<producers, topic, process, logChan, working, taken>>

\* Nothing there: sleep and poll again.
PollEmpty ==
    /\ phase = "up" /\ fetched = <<>> /\ position = Len(topic)
    /\ UNCHANGED vars

\* Mutant: select with a default, a line is dropped when the channel is full.
EnqueueOrDrop ==
    /\ phase = "up" /\ fetched # <<>>
    /\ fetched' = Tail(fetched)
    /\ logChan' = IF Len(logChan) < ChanSize THEN Append(logChan, Head(fetched)) ELSE logChan
    /\ UNCHANGED <<producers, topic, process, position, working, taken>>

\* Mutant: a channel that grows.
EnqueueUnbounded ==
    /\ phase = "up" /\ fetched # <<>>
    /\ logChan' = Append(logChan, Head(fetched))
    /\ fetched' = Tail(fetched)
    /\ UNCHANGED <<producers, topic, process, position, working, taken>>

\* logChan <- logLine blocks the loop while the channel is full.
Enqueue ==
    /\ phase = "up" /\ fetched # <<>>
    /\ Len(logChan) < ChanSize
    /\ logChan' = Append(logChan, Head(fetched))
    /\ fetched' = Tail(fetched)
    /\ UNCHANGED <<producers, topic, process, position, working, taken>>

Take(w) ==
    /\ phase = "up" /\ working[w] = 0 /\ logChan # <<>>
    /\ working' = [working EXCEPT ![w] = Head(logChan)]
    /\ taken' = Append(taken, Head(logChan))
    /\ logChan' = Tail(logChan)
    /\ UNCHANGED <<producers, topic, process, position, fetched>>

\* Mutant: a worker that has dropped a line returns instead of going on.
FinishQuits(w) ==
    /\ phase = "up" /\ working[w] # 0
    /\ UNCHANGED vars

\* processWithAI returns, whatever became of the line.
Finish(w) ==
    /\ phase = "up" /\ working[w] # 0
    /\ working' = [working EXCEPT ![w] = 0]
    /\ UNCHANGED <<producers, topic, process, position, fetched, logChan, taken>>

\* The process dies with everything in it.
Crash ==
    /\ phase # "down" /\ starts < MaxStarts
    /\ phase' = "down"
    /\ fetched' = <<>>
    /\ logChan' = <<>>
    /\ working' = Idle
    /\ UNCHANGED <<producers, topic, starts, start, position, taken>>

-----------------------------------------------------------------------------

\* The stack is up, the orchestrator is not started yet.
Init ==
    /\ produced = 0
    /\ topic = <<>>
    /\ sync = 0
    /\ app = "up"
    /\ buffer = <<>>
    /\ chaos = [n \in Lines |-> "none"]
    /\ cause = 0
    /\ phase = "down"
    /\ starts = 0
    /\ start = 0
    /\ position = 0
    /\ fetched = <<>>
    /\ logChan = <<>>
    /\ working = Idle
    /\ taken = <<>>

Produce == \/ Inject \/ Injected
           \/ Report \/ Chaos \/ Deliver
           \/ \E n \in Lines : Flush(n) \/ Exit(n)

Consume == \/ Start \/ ResetToEnd \/ Crash
           \/ Poll \/ PollEmpty \/ Enqueue
           \/ \E w \in Workers : Take(w) \/ Finish(w)

Next == Produce \/ Consume

Spec == Init /\ [][Next]_vars

\* The broker answers, the loop and the workers run, and processWithAI returns;
\* for its calls to Qdrant, which have no deadline (main.go:188, 242), this is
\* assumed of Qdrant.  Nobody need make a line, crash or start the orchestrator again.
Fairness ==
    /\ WF_vars(Injected) /\ WF_vars(Deliver)
    /\ \A n \in Lines : WF_vars(Flush(n) \/ Exit(n))
    /\ WF_vars(ResetToEnd \/ Poll \/ Enqueue)
    /\ WF_vars(\E w \in Workers : Take(w))
    /\ \A w \in Workers : WF_vars(Finish(w))

FairSpec == Spec /\ Fairness

-----------------------------------------------------------------------------
(* Correctness                                                             *)

\* The types of the variables.
TypeOK ==
    /\ produced \in 0..MaxLines
    /\ topic \in Seq(Lines)
    /\ sync \in 0..MaxLines
    /\ app \in {"up", "down"}
    /\ buffer \in Seq(Lines)
    /\ chaos \in [Lines -> {"none", "flush", "exit"}]
    /\ cause \in 0..MaxLines
    /\ phase \in {"down", "starting", "up"}
    /\ starts \in 0..MaxStarts
    /\ start \in Nat
    /\ position \in Nat
    /\ fetched \in Seq(Nat)
    /\ logChan \in Seq(Nat) /\ Len(logChan) <= ChanSize
    /\ working \in [Workers -> Nat]
    /\ taken \in Seq(Nat)

\* Workers take lines in the order of the topic and none twice, although the
\* consumer commits nothing and starts anew after every crash.
TakenInOrder == \A i, k \in DOMAIN taken : i < k => taken[i] < taken[k]

TakenSet == {taken[i] : i \in DOMAIN taken}

\* The loop skips nothing: what the consumer has fetched since it began is
\* with a worker already, in the channel or in the fetch at hand.
NothingSkipped ==
    phase = "up" => \A o \in (start + 1)..position :
        o \in TakenSet \cup {logChan[i] : i \in DOMAIN logChan}
                       \cup {fetched[i] : i \in DOMAIN fetched}

\* The line of the handler that ended target-app is on the topic (Flush before
\* os.Exit, target-app/main.go:66), unless the broker refused it.
CrashIsReported ==
    app = "down" /\ cause \notin Refusable => \E i \in DOMAIN topic : topic[i] = cause

\* A line that arrives behind the consumer's start is taken by a worker, however
\* full the channel was, unless the process crashes first.
LineIsTaken ==
    \A o \in Lines :
        (phase = "up" /\ start < o /\ o <= Len(topic)) ~>
        (o \in TakenSet \/ phase # "up")
=============================================================================
