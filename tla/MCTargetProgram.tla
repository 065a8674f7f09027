---- MODULE MCTargetProgram ----
EXTENDS ProgramRules, MCPrograms

MCInitialCount == [sem \in Semaphores |-> 1]
MCBarrierCount == [barrier \in Barriers |-> 2]
MCCondMutex == [cond \in Conds |-> a]

AllPrograms ==
    MutexPrograms \cup TryPrograms \cup SemPrograms \cup CondPrograms
    \cup RWLockPrograms({Read, Write}) \cup RWWLockPrograms({Read2, Write1})
    \cup BarrierPrograms \cup GlobalPrograms \cup MiscPrograms \cup StaticPrograms

\* The theorems of TargetProgram_proofs and Independence_proofs speak of programs that keep
\* the rules; the latter gives no mutex up for two condition variables.
ASSUME AllKeepTheRules == \A prg \in AllPrograms : KeepsTheRules(prg) /\ WaitsWithOwnMutex(prg)
====
