---------------------------- MODULE Investigator ----------------------------
(***************************************************************************)
(* The agents of reasoning.go: goroutines that run Investigator.Run, each  *)
(* for one incident of one pod.  A run reads the pod's health, then its    *)
(* logs, then its CPU, and stops at the first symptom with the remedy for  *)
(* it.  The pods are simulated: their state is Redis keys sim:*:<pod>,     *)
(* which operators set (redis-cli, README.md:234) and the remedies of all  *)
(* agents overwrite.  Each read and each write is a step of its own; a     *)
(* call that fails or times out yields the zero value, and its error is    *)
(* discarded.                                                              *)
(***************************************************************************)
EXTENDS Integers, FiniteSets

CONSTANTS
    Agents,     \* goroutines that may run at once
    Pods,
    Statuses,   \* values of sim:health but HEALTHY
    Texts,      \* values of sim:logs but CLEAN
    Mentions,   \* [Texts -> SUBSET {"OOM", "DB_TIMEOUT", "FIXED"}]
    Loads,      \* values of sim:cpu, as strconv.Atoi reads them
    Faults,     \* the calls that may fail: "health", "logs", "cpu", "set"
    Absent,     \* no such key
    Unread,     \* the empty string a failed read yields
    NoPod,
    MaxSymptoms \* bound: times an operator sets a key

ASSUME InvestigatorAssumption ==
    /\ Mentions \in [Texts -> SUBSET {"OOM", "DB_TIMEOUT", "FIXED"}]
    /\ Loads \subseteq Int
    /\ Faults \subseteq {"health", "logs", "cpu", "set"}
    /\ {"HEALTHY", Absent, Unread} \cap Statuses = {}
    /\ {"CLEAN", Absent, Unread} \cap Texts = {}
    /\ Absent \notin Int \cup {"HEALTHY", "CLEAN"}
    /\ Unread \notin {"HEALTHY", "CLEAN", Absent}
    /\ NoPod \notin Pods
    /\ MaxSymptoms \in Nat

VARIABLES
    health, logs, cpu, \* the keys sim:health, sim:logs and sim:cpu of a pod
    memory,            \* sim:memory_limit is 4Gi
    breaker,           \* sim:circuit_breaker is OPEN
    pc,                \* pc[a]: the call agent a makes next
    pod,               \* pod[a]: the pod it is about
    action,            \* action[a]: the remedy it has chosen
    report,            \* report[a]: the status of its last row in audit_logs
    ill,               \* history: the pod had a symptom during a's run
    symptoms           \* keys operators have set

sim == <<health, logs, cpu, memory, breaker>>
run == <<pc, pod, action, report>>
vars == <<sim, run, ill, symptoms>>

-----------------------------------------------------------------------------
(* Symptoms                                                                *)

\* What Execute of the three tools answers when the call succeeds.
Health(p) == IF health[p] = Absent THEN "HEALTHY" ELSE health[p]
Logs(p) == IF logs[p] = Absent THEN "CLEAN" ELSE logs[p]
Cpu(p) == IF cpu[p] = Absent THEN 20 ELSE cpu[p]

Treatable(text) == text \in Texts /\ Mentions[text] \cap {"OOM", "DB_TIMEOUT"} # {}

\* The pod has something a run would treat.
Sick(p) == \/ Health(p) # "HEALTHY"
           \/ Treatable(Logs(p))
           \/ Cpu(p) > 90

Running(a) == pc[a] # "idle"

\* The history after a step that changes the keys of the pods.
Notice == ill' = [a \in Agents |->
    ill[a] \/ (Running(a) /\ \E p \in Pods : pod[a] = p /\ Sick(p)')]

-----------------------------------------------------------------------------
(* Investigator.Run                                                        *)

Goto(a, step) == pc' = [pc EXCEPT ![a] = step]

Choose(a, remedy) == /\ Goto(a, "remediate")
                     /\ action' = [action EXCEPT ![a] = remedy]
                     /\ UNCHANGED report

\* The goroutine of main.go records its conclusion: AGENT_FIXED when the text
\* says "fixed", whoever says so.
Conclude(a, fixed) ==
    /\ Goto(a, "idle")
    /\ report' = [report EXCEPT ![a] = IF fixed THEN "AGENT_FIXED" ELSE "AI_ANALYZED"]

Dispatch(a, p) ==
    /\ pc[a] = "idle"
    /\ Goto(a, "health")
    /\ pod' = [pod EXCEPT ![a] = p]
    /\ action' = [action EXCEPT ![a] = "none"]
    /\ ill' = [ill EXCEPT ![a] = Sick(p)]
    /\ UNCHANGED <<sim, report, symptoms>>

Reading(value, call, zero) == {value} \cup (IF call \in Faults THEN {zero} ELSE {})

\* Mutant: a key that is not there reads as an empty string.
CheckHealthNoNil(a) ==
    /\ pc[a] = "health"
    /\ IF health[pod[a]] # "HEALTHY"
       THEN Choose(a, "REDEPLOY")
       ELSE Goto(a, "logs") /\ UNCHANGED <<action, report>>
    /\ UNCHANGED <<sim, pod, ill, symptoms>>

\* Anything but HEALTHY is redeployed, the empty string of a failed read too.
CheckHealth(a) ==
    /\ pc[a] = "health"
    /\ \E status \in Reading(Health(pod[a]), "health", Unread) :
         IF status # "HEALTHY"
         THEN Choose(a, "REDEPLOY")
         ELSE Goto(a, "logs") /\ UNCHANGED <<action, report>>
    /\ UNCHANGED <<sim, pod, ill, symptoms>>

Said(text) == IF text \in Texts THEN Mentions[text] ELSE {}

\* Mutant: a text with neither symptom goes on to the remedy.
ScanLogsUnchecked(a) ==
    /\ pc[a] = "logs"
    /\ \E text \in Reading(Logs(pod[a]), "logs", Unread) :
         \/ text = "CLEAN" /\ Goto(a, "cpu") /\ UNCHANGED <<action, report>>
         \/ "OOM" \in Said(text) /\ Choose(a, "UPSCALE_MEM")
         \/ "DB_TIMEOUT" \in Said(text) /\ Choose(a, "OPEN_CIRCUIT_BREAKER")
         \/ text # "CLEAN" /\ Said(text) = {} /\ Choose(a, "none")
    /\ UNCHANGED <<sim, pod, ill, symptoms>>

\* An out-of-memory kill is treated before a database timeout; a text with
\* neither ends the run, and so does a failed read.
ScanLogs(a) ==
    /\ pc[a] = "logs"
    /\ \E text \in Reading(Logs(pod[a]), "logs", Unread) :
         \/ /\ text = "CLEAN"
            /\ Goto(a, "cpu")
            /\ UNCHANGED <<action, report>>
         \/ "OOM" \in Said(text) /\ Choose(a, "UPSCALE_MEM")
         \/ /\ "DB_TIMEOUT" \in Said(text) /\ "OOM" \notin Said(text)
            /\ Choose(a, "OPEN_CIRCUIT_BREAKER")
         \/ /\ text # "CLEAN"
            /\ Said(text) \cap {"OOM", "DB_TIMEOUT"} = {}
            /\ Conclude(a, "FIXED" \in Said(text))
            /\ UNCHANGED action
    /\ UNCHANGED <<sim, pod, ill, symptoms>>

\* A load that cannot be read is zero.
CheckCpu(a) ==
    /\ pc[a] = "cpu"
    /\ \E load \in Reading(Cpu(pod[a]), "cpu", 0) :
         IF load > 90
         THEN Choose(a, "RESTART_CPU")
         ELSE Conclude(a, FALSE) /\ UNCHANGED action
    /\ UNCHANGED <<sim, pod, ill, symptoms>>

\* What RemediationTool.Execute writes.
Apply(remedy, p) ==
    CASE remedy = "REDEPLOY" -> /\ health' = [health EXCEPT ![p] = "HEALTHY"]
                                /\ UNCHANGED <<logs, cpu, memory, breaker>>
      [] remedy = "UPSCALE_MEM" -> /\ memory' = [memory EXCEPT ![p] = TRUE]
                                   /\ UNCHANGED <<health, logs, cpu, breaker>>
      [] remedy = "OPEN_CIRCUIT_BREAKER" -> /\ breaker' = [breaker EXCEPT ![p] = TRUE]
                                            /\ UNCHANGED <<health, logs, cpu, memory>>
      [] remedy = "RESTART_CPU" -> /\ cpu' = [cpu EXCEPT ![p] = 20]
                                   /\ UNCHANGED <<health, logs, memory, breaker>>

\* Mutant: RESTART_CPU takes the default branch.
RemediateNoCpu(a) ==
    /\ pc[a] = "remediate"
    /\ IF action[a] = "RESTART_CPU" THEN UNCHANGED sim ELSE Apply(action[a], pod[a])
    /\ Conclude(a, TRUE)
    /\ Notice
    /\ UNCHANGED <<pod, action, symptoms>>

\* The run concludes that the pod is fixed, whether or not the write failed.
Remediate(a) ==
    /\ pc[a] = "remediate"
    /\ \/ Apply(action[a], pod[a])
       \/ "set" \in Faults /\ UNCHANGED sim
    /\ Conclude(a, TRUE)
    /\ Notice
    /\ UNCHANGED <<pod, action, symptoms>>

-----------------------------------------------------------------------------
(* The operators and Redis                                                 *)

SetKey == /\ symptoms < MaxSymptoms
          /\ symptoms' = symptoms + 1
          /\ UNCHANGED <<run, memory, breaker>>

SetHealth(p) == /\ SetKey
                /\ \E status \in Statuses : health' = [health EXCEPT ![p] = status]
                /\ UNCHANGED <<logs, cpu>>
                /\ Notice

SetLogs(p) == /\ SetKey
              /\ \E text \in Texts \cup {Absent} : logs' = [logs EXCEPT ![p] = text]
              /\ UNCHANGED <<health, cpu>>
              /\ Notice

SetCpu(p) == /\ SetKey
             /\ \E load \in Loads : cpu' = [cpu EXCEPT ![p] = load]
             /\ UNCHANGED <<health, logs>>
             /\ Notice

\* Five minutes after the breaker was opened.
BreakerLapses(p) == /\ breaker[p]
                    /\ breaker' = [breaker EXCEPT ![p] = FALSE]
                    /\ UNCHANGED <<health, logs, cpu, memory, run, ill, symptoms>>

-----------------------------------------------------------------------------

Init ==
    /\ health = [p \in Pods |-> Absent]
    /\ logs = [p \in Pods |-> Absent]
    /\ cpu = [p \in Pods |-> Absent]
    /\ memory = [p \in Pods |-> FALSE]
    /\ breaker = [p \in Pods |-> FALSE]
    /\ pc = [a \in Agents |-> "idle"]
    /\ pod = [a \in Agents |-> NoPod]
    /\ action = [a \in Agents |-> "none"]
    /\ report = [a \in Agents |-> "none"]
    /\ ill = [a \in Agents |-> FALSE]
    /\ symptoms = 0

Run(a) == CheckHealth(a) \/ ScanLogs(a) \/ CheckCpu(a) \/ Remediate(a)

World(p) == SetHealth(p) \/ SetLogs(p) \/ SetCpu(p) \/ BreakerLapses(p)

Next == \/ \E a \in Agents : Run(a) \/ \E p \in Pods : Dispatch(a, p)
        \/ \E p \in Pods : World(p)

Spec == Init /\ [][Next]_vars

\* Every call has a timeout of 500 ms, so a run that has begun goes on.
FairSpec == Spec /\ \A a \in Agents : WF_vars(Run(a))

-----------------------------------------------------------------------------
(* Correctness                                                             *)

Targeted == {"UPSCALE_MEM", "OPEN_CIRCUIT_BREAKER", "RESTART_CPU"}
Remedies == {"REDEPLOY"} \cup Targeted

\* The types of the variables; an agent about to remediate has a remedy.
TypeOK ==
    /\ health \in [Pods -> Statuses \cup {"HEALTHY", Absent}]
    /\ logs \in [Pods -> Texts \cup {Absent}]
    /\ cpu \in [Pods -> Int \cup {Absent}]
    /\ memory \in [Pods -> BOOLEAN]
    /\ breaker \in [Pods -> BOOLEAN]
    /\ pc \in [Agents -> {"idle", "health", "logs", "cpu", "remediate"}]
    /\ pod \in [Agents -> Pods \cup {NoPod}]
    /\ action \in [Agents -> Remedies \cup {"none"}]
    /\ report \in [Agents -> {"none", "AGENT_FIXED", "AI_ANALYZED"}]
    /\ ill \in [Agents -> BOOLEAN]
    /\ symptoms \in Nat
    /\ \A a \in Agents : Running(a) => pod[a] \in Pods
    /\ \A a \in Agents : pc[a] = "remediate" => action[a] \in Remedies

\* A run (reasoning.go:119-214) only treats a pod that had a symptom while it
\* ran, however many agents treat the pod and whichever calls fail; the one
\* exception is a health check that fails.
OnlySickPodsTreated ==
    \A a \in Agents : action[a] # "none" =>
        ill[a] \/ (action[a] = "REDEPLOY" /\ "health" \in Faults)

\* A pod whose health is looked at again and again is healthy in the end,
\* and one whose load is looked at again and again is below the threshold
\* (when these reads and the writes succeed): agents that act on what they
\* read before another agent's remedy do not undo it.
RemediesConverge ==
    \A p \in Pods :
        /\ ([]<>\E a \in Agents : pc[a] = "health" /\ pod[a] = p)
              => <>[](Health(p) = "HEALTHY")
        /\ ([]<>\E a \in Agents : pc[a] = "cpu" /\ pod[a] = p)
              => <>[](Cpu(p) <= 90)

-----------------------------------------------------------------------------
(* What the documentation says and the code does not do                    *)

\* reasoning.go:133: "Pod %s reported status %s.  A non-healthy status
\* requires an immediate fresh start": a pod that is redeployed had a status
\* that was not HEALTHY, or some other symptom, while the agent ran.
RedeployedPodWasSick ==
    \A a \in Agents : action[a] = "REDEPLOY" => ill[a]
=============================================================================
