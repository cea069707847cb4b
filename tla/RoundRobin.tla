----------------------------- MODULE RoundRobin -----------------------------
(***************************************************************************)
(* What the scheduler promises: the listed processes take turns in the     *)
(* order in which they were added.  A process leaves when it is not the    *)
(* one whose turn it is.                                                   *)
(***************************************************************************)
EXTENDS Integers, SequencesExt

CONSTANTS Procs, NULL

VARIABLES
    queue,      \* the listed processes, in the order of their turns
    current     \* the process whose turn it is, NULL when none ever entered

Init == queue = <<>> /\ current = NULL

Enter(p) ==
    /\ p \notin ToSet(queue)
    /\ queue' = Append(queue, p)
    /\ current' = IF queue = <<>> THEN p ELSE current

Leave(p) ==
    /\ p # current
    /\ \E i \in DOMAIN queue : queue[i] = p /\ queue' = RemoveAt(queue, i)
    /\ UNCHANGED current

Turn ==
    /\ queue # <<>>
    /\ \E i \in DOMAIN queue :
          /\ queue[i] = current
          /\ current' = queue[(i % Len(queue)) + 1]
    /\ UNCHANGED queue

Next == Turn \/ \E p \in Procs : Enter(p) \/ Leave(p)

vars == <<queue, current>>

Spec == Init /\ [][Next]_vars /\ WF_vars(Turn)

=============================================================================
