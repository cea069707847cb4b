-------------------------------- MODULE Sched --------------------------------
(***************************************************************************)
(* The scheduler of sched/sched.c: a list of processes linked through      *)
(* p_next, and a pointer to the one that runs.  A process is named by the  *)
(* address of its PROCESS_INFO and has a pid of its own; one that has been *)
(* removed is not added again (process_create makes a new one, whose       *)
(* p_next is NULL), and its memory is kept, as process_delete is empty.    *)
(***************************************************************************)
EXTENDS Integers, FiniteSets, SequencesExt

CONSTANTS
    Procs,              \* the processes that may be created
    NULL

ASSUME SchedAssumption == IsFiniteSet(Procs) /\ NULL \notin Procs

VARIABLES
    p_process_list,
    p_curt_process,
    p_next,             \* the link in each PROCESS_INFO
    running,            \* the process whose TSS was switched to last
    fresh,              \* history: the processes not yet added
    strayed             \* history: the current process was removed

vars == <<p_process_list, p_curt_process, p_next, running, fresh, strayed>>

Pointers == Procs \cup {NULL}

sched_init == p_process_list = NULL /\ p_curt_process = NULL

Init ==
    /\ sched_init
    /\ p_next = [p \in Procs |-> NULL]
    /\ running = NULL
    /\ fresh = Procs
    /\ strayed = FALSE

(* The processes met by following p_next from p, in that order.            *)
Follow(p) ==
    LET next(q) == IF q = NULL THEN NULL ELSE p_next[q]
        at[k \in Nat] == IF k = 0 THEN p ELSE next(at[k - 1])
        met == {k \in 0 .. Cardinality(Procs) - 1 : at[k] # NULL}
    IN  [k \in 1 .. Cardinality(met) |-> at[k - 1]]

List   == Follow(p_process_list)
Listed == ToSet(List)

-----------------------------------------------------------------------------
(* Faulty: the new process is put behind the head of the list.             *)
LinkBehindHead(p) ==
    p_next' = [p_next EXCEPT ![p_process_list] = p]

(* Faulty: the list is closed to a ring.                                   *)
LinkRing(p) == p_next' = [p_next EXCEPT ![Last(List)] = p, ![p] = p_process_list]

(* The new process is linked behind the last one.                          *)
LinkLast(p) == p_next' = [p_next EXCEPT ![Last(List)] = p]

add_process(p) ==
    /\ p \in fresh
    /\ fresh' = fresh \ {p}
    /\ \/ /\ p_process_list = NULL
          /\ p_process_list' = p
          /\ p_curt_process' = p
          /\ UNCHANGED p_next
       \/ /\ p_process_list # NULL
          /\ LinkLast(p)
          /\ UNCHANGED <<p_process_list, p_curt_process>>
    /\ UNCHANGED <<running, strayed>>

(* The head is taken out.  The current process stays what it is, also when *)
(* it was the head: the code compares where it means to assign.            *)
RemoveHead(p) ==
    /\ p_process_list = p
    /\ p_process_list' = p_next[p]
    /\ UNCHANGED <<p_curt_process, p_next>>

(* Another one is taken out; if it was current, the process behind it      *)
(* becomes current, which is NULL at the end of the list.  With no current *)
(* process the pid is read at address NULL and may be anything.            *)
RemoveInner(p) ==
    /\ p \in Listed \ {p_process_list}
    /\ \E q \in Listed :
          /\ p_next[q] = p
          /\ p_next' = [p_next EXCEPT ![q] = p_next[p]]
    /\ \/ p_curt_process \in {p, NULL} /\ p_curt_process' = p_next[p]
       \/ p_curt_process # p /\ UNCHANGED p_curt_process
    /\ UNCHANGED p_process_list

(* A pid that is not listed changes nothing.                               *)
remove_process(p) ==
    /\ RemoveHead(p) \/ RemoveInner(p)
    /\ strayed' = (strayed \/ p = p_curt_process)
    /\ UNCHANGED <<running, fresh>>

(* Faulty: behind the end of the list the current process stays.           *)
NextStays ==
    IF p_process_list # NULL /\ p_curt_process # NULL /\ p_next[p_curt_process] # NULL
    THEN p_next[p_curt_process]
    ELSE p_curt_process

(* Faulty: the current process is kept while there is one.                 *)
NextKept ==
    IF p_curt_process = NULL THEN p_process_list ELSE p_curt_process

(* The process that schedule picks.                                        *)
NextProcess ==
    IF p_process_list # NULL /\ p_curt_process # NULL
    THEN IF p_next[p_curt_process] # NULL THEN p_next[p_curt_process] ELSE p_process_list
    ELSE p_curt_process

(* switch_process jumps to the process it is given, and does nothing for   *)
(* NULL.                                                                   *)
switch_process(p) == running' = IF p = NULL THEN running ELSE p

schedule ==
    /\ p_curt_process' = NextProcess
    /\ switch_process(NextProcess)
    /\ UNCHANGED <<p_process_list, p_next, fresh, strayed>>

Next ==
    \/ schedule
    \/ \E p \in Procs : add_process(p) \/ remove_process(p)

(* schedule is called again and again; nothing makes anyone add or remove  *)
(* processes.                                                              *)
Spec == Init /\ [][Next]_vars /\ WF_vars(schedule)

-----------------------------------------------------------------------------
(* The links never form a cycle, not even those of processes that were     *)
(* removed, so the loops of add_process and remove_process end; and no two *)
(* listed processes share a successor.                                     *)
NoCycle ==
    /\ \A p \in Procs : p \notin ToSet(Follow(p_next[p]))
    /\ \A p, q \in Listed : p # q /\ p_next[p] # NULL => p_next[p] # p_next[q]

(* As long as the process that is removed is never the current one, the    *)
(* list is a queue, in the order of add_process, and schedule serves one   *)
(* after the other.                                                        *)
RR == INSTANCE RoundRobin WITH queue <- List, current <- p_curt_process
RoundRobinUntilStrayed == RR!Init /\ [][strayed' \/ RR!Next]_RR!vars

(* Every listed process runs, or is removed first, unless a current one    *)
(* was removed.  This needs that only finitely many processes are ever     *)
(* added, as here, where each is added once: one that is added while       *)
(* another waits for the end of the list to come round is served before    *)
(* it.                                                                     *)
EveryoneRuns ==
    \A p \in Procs : p \in Listed ~> (running = p \/ p \notin Listed \/ strayed)

(* Once the current process was removed, schedule can run processes that   *)
(* are no longer listed.  It runs each of them at most once more: it finds *)
(* its way back to the list unless there is no current process left.       *)
FindsList ==
    p_process_list # NULL ~> (p_curt_process \in Listed \cup {NULL} \/ p_process_list = NULL)

=============================================================================
