------------------------- MODULE InvestigatorProofs -------------------------
(***************************************************************************)
(* Proofs about Investigator, for any agents, pods, texts and loads, and   *)
(* any set of calls that may fail.                                         *)
(***************************************************************************)
EXTENDS Investigator, TLAPS

\* A run knows of every symptom its pod has.
IllWhenSick == \A a \in Agents : \A p \in Pods :
                   Running(a) /\ pod[a] = p /\ Sick(p) => ill[a]

IInv == TypeOK /\ IllWhenSick /\ OnlySickPodsTreated

\* What the tools answer.
LEMMA ToolTypes ==
  ASSUME TypeOK, NEW p \in Pods
  PROVE  /\ Health(p) \in Statuses \cup {"HEALTHY"}
         /\ Logs(p) \in Texts \cup {"CLEAN"}
         /\ Cpu(p) \in Int
  BY SMT DEF TypeOK, Health, Logs, Cpu

LEMMA InitInv == Init => IInv
<1> SUFFICES ASSUME Init
             PROVE  IInv
  OBVIOUS
<1>1. TypeOK
  BY SMT DEF Init, TypeOK, Running
<1>2. IllWhenSick /\ OnlySickPodsTreated
  BY DEF Init, IllWhenSick, OnlySickPodsTreated, Running
<1> QED
  BY <1>1, <1>2 DEF IInv

\* A run that begins looks at its pod once.
LEMMA DispatchInv ==
  ASSUME IInv, NEW a \in Agents, NEW p \in Pods, Dispatch(a, p)
  PROVE  IInv'
<1>1. /\ pc' = [pc EXCEPT ![a] = "health"] /\ pod' = [pod EXCEPT ![a] = p]
      /\ action' = [action EXCEPT ![a] = "none"] /\ ill' = [ill EXCEPT ![a] = Sick(p)]
      /\ UNCHANGED <<health, logs, cpu, memory, breaker, report, symptoms>>
  BY DEF Dispatch, Goto, sim
<1>2. Sick(p) \in BOOLEAN
  BY DEF Sick
<1>3. TypeOK'
  <2> DEFINE s == Sick(p)
  <2> HIDE DEF s
  <2>1. ill' \in [Agents -> BOOLEAN]
    BY <1>1, <1>2, Zenon DEF IInv, TypeOK
  <2> QED
    BY <1>1, <2>1 DEF IInv, TypeOK, Running
<1>4. \A r \in Pods : Sick(r)' <=> Sick(r)
  BY <1>1 DEF Sick, Health, Logs, Cpu
<1>5. \A b \in Agents : \/ b = a /\ ill'[b] = Sick(p) /\ pod'[b] = p /\ action'[b] = "none"
                        \/ b # a /\ ill'[b] = ill[b] /\ pod'[b] = pod[b]
                           /\ action'[b] = action[b] /\ pc'[b] = pc[b]
  BY <1>1, Zenon DEF IInv, TypeOK
<1>6. IllWhenSick'
  BY <1>4, <1>5, Zenon DEF IInv, IllWhenSick, Running
<1>7. OnlySickPodsTreated'
  BY <1>5, Zenon DEF IInv, OnlySickPodsTreated
<1> QED
  BY <1>3, <1>6, <1>7 DEF IInv

\* A step of a run that reads, and chooses a remedy only for a sick pod.
ReadingStep(a) ==
    /\ pc[a] # "idle"
    /\ UNCHANGED <<sim, pod, ill, symptoms>>
    /\ \/ \E step \in {"logs", "cpu"} : Goto(a, step) /\ UNCHANGED <<action, report>>
       \/ \E fixed \in BOOLEAN : Conclude(a, fixed) /\ UNCHANGED action
       \/ \E remedy \in Remedies :
            /\ Choose(a, remedy)
            /\ ill[a] \/ (remedy = "REDEPLOY" /\ "health" \in Faults)

LEMMA ReadingInv ==
  ASSUME IInv, NEW a \in Agents, ReadingStep(a)
  PROVE  IInv'
<1>1. UNCHANGED <<health, logs, cpu, memory, breaker, pod, ill, symptoms>>
  BY DEF ReadingStep, sim
<1>2. \A b \in Agents : Running(b)' => Running(b)
  BY DEF ReadingStep, Goto, Conclude, Choose, Running, IInv, TypeOK
<1>3. IllWhenSick'
  <2>1. \A p \in Pods : Sick(p)' <=> Sick(p)
    BY <1>1 DEF Sick, Health, Logs, Cpu
  <2> QED
    BY <1>1, <1>2, <2>1, Zenon DEF IInv, IllWhenSick
<1>4. CASE \E step \in {"logs", "cpu"} : Goto(a, step) /\ UNCHANGED <<action, report>>
  <2>1. TypeOK'
    BY <1>1, <1>2, <1>4, SMT DEF IInv, TypeOK, Goto, Running, ReadingStep
  <2>2. OnlySickPodsTreated'
    BY <1>1, <1>4 DEF IInv, OnlySickPodsTreated
  <2> QED
    BY <1>3, <2>1, <2>2 DEF IInv
<1>5. CASE \E fixed \in BOOLEAN : Conclude(a, fixed) /\ UNCHANGED action
  <2>1. TypeOK'
    BY <1>1, <1>2, <1>5, SMT DEF IInv, TypeOK, Conclude, Goto, Running, ReadingStep
  <2>2. OnlySickPodsTreated'
    BY <1>1, <1>5 DEF IInv, OnlySickPodsTreated
  <2> QED
    BY <1>3, <2>1, <2>2 DEF IInv
<1>6. CASE \E remedy \in Remedies :
             /\ Choose(a, remedy)
             /\ ill[a] \/ (remedy = "REDEPLOY" /\ "health" \in Faults)
  <2>1. PICK remedy \in Remedies :
          /\ pc' = [pc EXCEPT ![a] = "remediate"]
          /\ action' = [action EXCEPT ![a] = remedy]
          /\ report' = report
          /\ ill[a] \/ (remedy = "REDEPLOY" /\ "health" \in Faults)
    BY <1>6, Zenon DEF Choose, Goto
  <2>2. TypeOK'
    BY <1>1, <1>2, <2>1, SMT DEF IInv, TypeOK, Running
  <2>3. OnlySickPodsTreated'
    BY <1>1, <2>1, SMT DEF IInv, TypeOK, OnlySickPodsTreated
  <2> QED
    BY <1>3, <2>2, <2>3 DEF IInv
<1> QED
  BY <1>4, <1>5, <1>6 DEF ReadingStep

\* The three reads; the values a failed call yields choose no remedy but
\* REDEPLOY.
LEMMA ReadsAreReadingSteps ==
  ASSUME IInv, NEW a \in Agents, CheckHealth(a) \/ ScanLogs(a) \/ CheckCpu(a)
  PROVE  ReadingStep(a)
<1> DEFINE p == pod[a]
<1>1. pc[a] \in {"health", "logs", "cpu"} /\ UNCHANGED <<sim, pod, ill, symptoms>>
  BY DEF CheckHealth, ScanLogs, CheckCpu
<1>2. p \in Pods /\ (Sick(p) => ill[a])
  <2>1. Running(a)
    BY <1>1 DEF Running
  <2> QED
    BY <2>1 DEF IInv, TypeOK, IllWhenSick
<1>3. /\ Health(p) \in Statuses \cup {"HEALTHY"}
      /\ Logs(p) \in Texts \cup {"CLEAN"}
      /\ Cpu(p) \in Int
  BY <1>2, ToolTypes DEF IInv
<1> HIDE DEF p
<1>4. CASE CheckHealth(a)
  <2>1. PICK status \in Reading(Health(p), "health", Unread) :
          IF status # "HEALTHY"
          THEN Choose(a, "REDEPLOY")
          ELSE Goto(a, "logs") /\ UNCHANGED <<action, report>>
    BY <1>4, Zenon DEF CheckHealth, p
  <2>2. status # "HEALTHY" => Sick(p) \/ "health" \in Faults
    BY Zenon DEF Reading, Sick
  <2> QED
    BY <1>1, <1>2, <2>1, <2>2, Zenon DEF ReadingStep, Remedies
<1>5. CASE ScanLogs(a)
  <2>1. PICK text \in Reading(Logs(p), "logs", Unread) :
         \/ text = "CLEAN" /\ Goto(a, "cpu") /\ UNCHANGED <<action, report>>
         \/ "OOM" \in Said(text) /\ Choose(a, "UPSCALE_MEM")
         \/ /\ "DB_TIMEOUT" \in Said(text) /\ "OOM" \notin Said(text)
            /\ Choose(a, "OPEN_CIRCUIT_BREAKER")
         \/ /\ text # "CLEAN"
            /\ Said(text) \cap {"OOM", "DB_TIMEOUT"} = {}
            /\ Conclude(a, "FIXED" \in Said(text))
            /\ UNCHANGED action
    BY <1>5, Zenon DEF ScanLogs, p
  <2>2. Said(text) \cap {"OOM", "DB_TIMEOUT"} # {} => ill[a]
    <3> SUFFICES ASSUME Said(text) \cap {"OOM", "DB_TIMEOUT"} # {}
                 PROVE  Sick(p)
      BY <1>2
    <3>1. text \in Texts /\ Treatable(text)
      BY DEF Said, Treatable
    <3>2. text = Logs(p)
      BY <3>1, InvestigatorAssumption, Zenon DEF Reading
    <3> QED
      BY <3>1, <3>2 DEF Sick
  <2>3. {"UPSCALE_MEM", "OPEN_CIRCUIT_BREAKER"} \subseteq Remedies
    BY DEF Remedies, Targeted
  <2>4. ("FIXED" \in Said(text)) \in BOOLEAN
    OBVIOUS
  <2> QED
    BY <1>1, <2>1, <2>2, <2>3, <2>4, Zenon DEF ReadingStep
<1>6. CASE CheckCpu(a)
  <2>1. PICK load \in Reading(Cpu(p), "cpu", 0) :
         IF load > 90
         THEN Choose(a, "RESTART_CPU")
         ELSE Conclude(a, FALSE) /\ UNCHANGED action
    BY <1>6, Zenon DEF CheckCpu, p
  <2>2. load > 90 => Sick(p)
    <3>1. load = Cpu(p) \/ load = 0
      BY Zenon DEF Reading
    <3>2. ~(0 > 90)
      BY SMT
    <3> QED
      BY <3>1, <3>2, Zenon DEF Sick
  <2> QED
    BY <1>1, <1>2, <2>1, <2>2, Zenon DEF ReadingStep, Remedies, Targeted
<1> QED
  BY <1>4, <1>5, <1>6

\* A step that changes keys of the simulated pods.
LEMMA NoticeIll ==
  ASSUME IInv, Notice, pod' = pod, action' = action,
         \A a \in Agents : Running(a)' => Running(a)
  PROVE  IllWhenSick' /\ OnlySickPodsTreated' /\ ill' \in [Agents -> BOOLEAN]
<1>1. ill' = [a \in Agents |->
          ill[a] \/ (Running(a) /\ \E p \in Pods : pod[a] = p /\ Sick(p)')]
  BY DEF Notice
<1>2. ill' \in [Agents -> BOOLEAN]
  BY <1>1, Zenon DEF IInv, TypeOK
<1>3. IllWhenSick'
  BY <1>1, Zenon DEF IllWhenSick
<1>4. OnlySickPodsTreated'
  BY <1>1, Zenon DEF IInv, OnlySickPodsTreated
<1> QED
  BY <1>2, <1>3, <1>4

LEMMA RemediateInv ==
  ASSUME IInv, NEW a \in Agents, Remediate(a)
  PROVE  IInv'
<1>1. /\ pc[a] = "remediate" /\ Conclude(a, TRUE) /\ Notice
      /\ UNCHANGED <<pod, action, symptoms>>
  BY DEF Remediate
<1>2. /\ pc' = [pc EXCEPT ![a] = "idle"]
      /\ report' = [report EXCEPT ![a] = "AGENT_FIXED"]
  BY <1>1 DEF Conclude, Goto
<1>3. IllWhenSick' /\ OnlySickPodsTreated' /\ ill' \in [Agents -> BOOLEAN]
  <2>1. \A b \in Agents : Running(b)' => Running(b)
    BY <1>2 DEF Running, IInv, TypeOK
  <2> QED
    BY <1>1, <2>1, NoticeIll
<1>4. /\ health' \in [Pods -> Statuses \cup {"HEALTHY", Absent}]
      /\ logs' = logs
      /\ cpu' \in [Pods -> Int \cup {Absent}]
      /\ memory' \in [Pods -> BOOLEAN]
      /\ breaker' \in [Pods -> BOOLEAN]
  <2>1. action[a] \in Remedies
    BY <1>1 DEF IInv, TypeOK
  <2>2. CASE Apply(action[a], pod[a])
    <3>1. CASE action[a] = "REDEPLOY"
      BY <2>2, <3>1 DEF Apply, IInv, TypeOK
    <3>2. CASE action[a] = "UPSCALE_MEM"
      BY <2>2, <3>2 DEF Apply, IInv, TypeOK
    <3>3. CASE action[a] = "OPEN_CIRCUIT_BREAKER"
      BY <2>2, <3>3 DEF Apply, IInv, TypeOK
    <3>4. CASE action[a] = "RESTART_CPU"
      BY <2>2, <3>4 DEF Apply, IInv, TypeOK
    <3> QED
      BY <2>1, <3>1, <3>2, <3>3, <3>4 DEF Remedies, Targeted
  <2>3. CASE UNCHANGED sim
    BY <2>3 DEF sim, IInv, TypeOK
  <2> QED
    BY <2>2, <2>3 DEF Remediate
<1>5. TypeOK'
  BY <1>1, <1>2, <1>3, <1>4 DEF IInv, TypeOK, Running
<1> QED
  BY <1>3, <1>5 DEF IInv

LEMMA WorldInv ==
  ASSUME IInv, NEW p \in Pods, World(p)
  PROVE  IInv'
<1>1. UNCHANGED <<pc, pod, action, report>>
  BY DEF World, SetHealth, SetLogs, SetCpu, SetKey, BreakerLapses, run
<1>2. CASE SetHealth(p) \/ SetLogs(p) \/ SetCpu(p)
  <2>1. IllWhenSick' /\ OnlySickPodsTreated' /\ ill' \in [Agents -> BOOLEAN]
    <3>1. Notice
      BY <1>2 DEF SetHealth, SetLogs, SetCpu
    <3> QED
      BY <1>1, <3>1, NoticeIll DEF Running
  <2>2. /\ health' \in [Pods -> Statuses \cup {"HEALTHY", Absent}]
        /\ logs' \in [Pods -> Texts \cup {Absent}]
        /\ cpu' \in [Pods -> Int \cup {Absent}]
        /\ symptoms' \in Nat
        /\ UNCHANGED <<memory, breaker>>
    <3>1. symptoms' = symptoms + 1 /\ UNCHANGED <<memory, breaker>>
      BY <1>2 DEF SetHealth, SetLogs, SetCpu, SetKey
    <3>2. symptoms' \in Nat
      BY <3>1, SMT DEF IInv, TypeOK
    <3>3. CASE SetHealth(p)
      BY <3>1, <3>2, <3>3, SMT DEF SetHealth, IInv, TypeOK
    <3>4. CASE SetLogs(p)
      BY <3>1, <3>2, <3>4, SMT DEF SetLogs, IInv, TypeOK
    <3>5. CASE SetCpu(p)
      BY <3>1, <3>2, <3>5, InvestigatorAssumption, SMT DEF SetCpu, IInv, TypeOK
    <3> QED
      BY <1>2, <3>3, <3>4, <3>5
  <2>3. TypeOK'
    BY <1>1, <2>1, <2>2 DEF IInv, TypeOK, Running
  <2> QED
    BY <2>1, <2>3 DEF IInv
<1>3. CASE BreakerLapses(p)
  <2>1. /\ UNCHANGED <<health, logs, cpu, memory, ill, symptoms>>
        /\ breaker' = [breaker EXCEPT ![p] = FALSE]
    BY <1>3 DEF BreakerLapses
  <2>2. TypeOK'
    BY <1>1, <2>1 DEF IInv, TypeOK, Running
  <2>3. IllWhenSick' /\ OnlySickPodsTreated'
    BY <1>1, <2>1 DEF IInv, IllWhenSick, OnlySickPodsTreated, Running, Sick,
                      Health, Logs, Cpu
  <2> QED
    BY <2>2, <2>3 DEF IInv
<1> QED
  BY <1>2, <1>3 DEF World

LEMMA NextInv == IInv /\ [Next]_vars => IInv'
<1> SUFFICES ASSUME IInv, [Next]_vars
             PROVE  IInv'
  OBVIOUS
<1>1. ASSUME NEW a \in Agents, Run(a)
      PROVE  IInv'
  BY <1>1, ReadsAreReadingSteps, ReadingInv, RemediateInv DEF Run
<1>2. ASSUME NEW a \in Agents, NEW p \in Pods, Dispatch(a, p)
      PROVE  IInv'
  BY <1>2, DispatchInv
<1>3. ASSUME NEW p \in Pods, World(p)
      PROVE  IInv'
  BY <1>3, WorldInv
<1>4. CASE UNCHANGED vars
  <2>1. UNCHANGED <<health, logs, cpu, memory, breaker, pc, pod, action, report,
                    ill, symptoms>>
    BY <1>4 DEF vars, sim, run
  <2>2. TypeOK'
    BY <2>1 DEF IInv, TypeOK, Running
  <2>3. IllWhenSick' /\ OnlySickPodsTreated'
    BY <2>1 DEF IInv, IllWhenSick, OnlySickPodsTreated, Running, Sick,
                Health, Logs, Cpu
  <2> QED
    BY <2>2, <2>3 DEF IInv
<1> QED
  BY <1>1, <1>2, <1>3, <1>4 DEF Next

\* Agents, pods and keys keep their types; an agent about to remediate a pod
\* has a pod and a remedy.
THEOREM TypeCorrect == Spec => []TypeOK
<1>1. IInv => TypeOK
  BY DEF IInv
<1> QED
  BY <1>1, InitInv, NextInv, PTL DEF Spec

\* Whatever agents run at once and whichever calls fail, an agent treats only
\* a pod that had a symptom while it ran, unless its health check failed.
THEOREM OnlySick == Spec => []OnlySickPodsTreated
<1>1. IInv => OnlySickPodsTreated
  BY DEF IInv
<1> QED
  BY <1>1, InitInv, NextInv, PTL DEF Spec

\* What reasoning.go:133 says of a redeployed pod does not hold of the code
\* (a failed health check is no status), but of every run in which the reads of
\* the health keys succeed: a redeployed pod had a symptom.
THEOREM RedeployJustified ==
  ASSUME "health" \notin Faults
  PROVE  Spec => []RedeployedPodWasSick
<1>1. OnlySickPodsTreated => RedeployedPodWasSick
  BY DEF OnlySickPodsTreated, RedeployedPodWasSick
<1> QED
  BY <1>1, OnlySick, PTL

=============================================================================
