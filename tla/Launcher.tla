---- MODULE Launcher ----
(***************************************************************************)
(* From the command line to the configuration of a search.  The launcher   *)
(* (launch.c) turns flags into environment variables; the constructor of   *)
(* libmcmini.so reads them (get_config_for_execution_environment), and the *)
(* search loop reads some of them again whenever it needs them.            *)
(*                                                                         *)
(* An argument is <<flag>> or <<flag, value>>.                             *)
(***************************************************************************)
EXTENDS Naturals, Sequences, SequencesExt

CONSTANTS
    MaxTransitions,     \* MC_STATE_CONFIG_MAX_TRANSITIONS_DEPTH_LIMIT_DEFAULT
    MaxThreads,         \* MAX_TOTAL_THREADS_IN_PROGRAM
    CycleLimit,         \* LLOCK_INCREASED_MAX_TRANSITIONS_DEPTH
    Unlimited           \* UINT64_MAX

ASSUME LauncherAssumption ==
    /\ {MaxTransitions, MaxThreads, CycleLimit, Unlimited} \subseteq Nat
    /\ CycleLimit # 0
    /\ MaxThreads * CycleLimit < MaxTransitions
    /\ MaxTransitions <= Unlimited

\* The environment main() starts with: stop at the first deadlock.
NoFlags ==
    [MAX_TRANSITIONS_TOTAL |-> Unlimited, MAX_TRANSITIONS_PER_THREAD |-> Unlimited,
     EXPLORE_ROUND_ROBIN |-> FALSE, FIRST_DEADLOCK |-> TRUE,
     CHECK_FOR_LIVELOCK |-> FALSE, MAX_LIVELOCK_CYCLE_LIMIT |-> CycleLimit,
     CONTINUE_AFTER_DATA_RACE |-> FALSE,
     PRINT_AT_TRACE_ID |-> Unlimited, PRINT_AT_TRACE_SEQ |-> << >>]

\* One turn of the loop of main(); a later flag overrides an earlier one.  "-t" takes a
\* number or a sequence of threads.
SetFlag(env, arg) ==
    CASE arg[1] = "-M"    -> [env EXCEPT !.MAX_TRANSITIONS_TOTAL = arg[2]]
      [] arg[1] = "-m"    -> [env EXCEPT !.MAX_TRANSITIONS_PER_THREAD = arg[2]]
      [] arg[1] = "-r"    -> [env EXCEPT !.EXPLORE_ROUND_ROBIN = TRUE]
      [] arg[1] = "-f"    -> [env EXCEPT !.FIRST_DEADLOCK = TRUE]
      [] arg[1] = "-a"    -> [env EXCEPT !.FIRST_DEADLOCK = FALSE]
      [] arg[1] = "-l"    -> [env EXCEPT !.CHECK_FOR_LIVELOCK = TRUE]
      [] arg[1] = "-lc"   -> [env EXCEPT !.MAX_LIVELOCK_CYCLE_LIMIT = arg[2]]
      [] arg[1] = "--continue-after-data-race" ->
            [env EXCEPT !.CONTINUE_AFTER_DATA_RACE = TRUE]
      [] arg[1] = "-t"    -> [env EXCEPT !.PRINT_AT_TRACE_ID = arg[2]]
      [] arg[1] = "-tseq" -> [env EXCEPT !.PRINT_AT_TRACE_SEQ = arg[2]]

Environment(args) == FoldLeft(SetFlag, NoFlags, args)

\* Mutant: a livelock check gets no room on the stack.
NoRoom(env) == MaxTransitions - 1

\* The largest value "-M" may have.  A livelock check goes on beyond it, in the worst
\* case with every possible thread once around a cycle of its own.
LargestTotal(env) ==
    IF env.CHECK_FOR_LIVELOCK THEN MaxTransitions - 1 - MaxThreads * CycleLimit
    ELSE MaxTransitions - 1

get_config_for_execution_environment(env) ==
    [maxThreadExecutionDepth |-> env.MAX_TRANSITIONS_PER_THREAD,
     maxTotalTransitionsDepthLimit |->
        IF env.MAX_TRANSITIONS_TOTAL < LargestTotal(env) THEN env.MAX_TRANSITIONS_TOTAL
        ELSE LargestTotal(env),
     printBacktraceAtTraceNumber |-> env.PRINT_AT_TRACE_ID]
====
