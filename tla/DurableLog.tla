----------------------------- MODULE DurableLog -----------------------------
(***************************************************************************)
(* What the durability protocol promises the rest of the coordinator,      *)
(* without journal, snapshot, sequence numbers, batches or threads: a      *)
(* state that only grows while the coordinator is up, of which a part has  *)
(* been promised to callers and survives every restart unless its durable  *)
(* copy was lost, and service under epochs that never repeat as long as    *)
(* nothing was lost.  DurableJournal implements it.                        *)
(***************************************************************************)
EXTENDS Naturals

VARIABLES
    status,    \* "down", "starting", "serving" or "refused"
    held,      \* what the coordinator's state reflects while it is up
    promised,  \* what has been acknowledged
    lost,      \* what has lost its durable copy
    epochs     \* the coordinator epochs that have been served

logVars == <<status, held, promised, lost, epochs>>

Init == status = "down" /\ held = {} /\ promised = {} /\ lost = {} /\ epochs = {}

(* A start that succeeds holds everything that was promised and not lost,  *)
(* some of it perhaps only now; what was not promised may or may not be    *)
(* there.                                                                  *)
Start ==
    /\ status = "down" /\ status' = "starting"
    /\ lost \subseteq lost' /\ promised \subseteq held' \cup lost'
    /\ UNCHANGED <<promised, epochs>>

(* A store that cannot vouch for its promises is refused, for good.        *)
Refuse ==
    /\ status = "down" /\ status' = "refused"
    /\ UNCHANGED <<held, promised, lost, epochs>>

(* The state grows, and some of what it holds is promised.                 *)
Commit ==
    /\ status \in {"starting", "serving"} /\ UNCHANGED status
    /\ held \subseteq held'
    /\ promised \subseteq promised' /\ promised' \subseteq promised \cup held'
    /\ UNCHANGED <<lost, epochs>>

(* A durable copy is given up while the coordinator serves; what it holds  *)
(* in memory stays.                                                        *)
Forget ==
    /\ status = "serving" /\ lost \subseteq lost'
    /\ UNCHANGED <<status, held, promised, epochs>>

(* Service begins under an epoch above every earlier one, unless something *)
(* was lost.                                                               *)
Serve ==
    /\ status = "starting" /\ status' = "serving"
    /\ promised \subseteq promised' /\ promised' \subseteq promised \cup held
    /\ \E e \in epochs' : /\ epochs' = epochs \cup {e}
                         /\ lost = {} => \A d \in epochs : d < e
    /\ UNCHANGED <<held, lost>>

(* The process ends: only promises are sure to come back.                  *)
Stop ==
    /\ status \in {"starting", "serving"} /\ status' = "down"
    /\ held' = {}
    /\ UNCHANGED <<promised, lost, epochs>>

Next == Start \/ Refuse \/ Commit \/ Forget \/ Serve \/ Stop

Spec == Init /\ [][Next]_logVars
=============================================================================
