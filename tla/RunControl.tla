----------------------------- MODULE RunControl -----------------------------
(***************************************************************************)
(* What run control promises to a client, without packets, breaks, clocks, *)
(* acknowledgements, threads or sessions.  The cores that take part in a   *)
(* run stop together; every stop is kept until the client was told of it,  *)
(* one at a time and system calls first; no core runs while there is       *)
(* something to tell of it; and while the client serves a core's system    *)
(* call the run it interrupted stays as it was.                            *)
(***************************************************************************)
CONSTANTS Cores, NoCore

VARIABLES
    mode,      \* "halted", "running", or "ended" with the server
    plan,      \* the cores that take part in the run, or in the next one
    reason,    \* why each core stopped last; "NONE" if it did not
    told,      \* whether the client was told so
    serving    \* the core whose system call the client serves, or NoCore

vars == <<mode, plan, reason, told, serving>>

Init ==
    /\ mode \in {"halted", "ended"}
    /\ plan = {}
    /\ reason = [i \in Cores |-> "INTERRUPTED"]
    /\ told = [i \in Cores |-> TRUE]
    /\ serving = NoCore

\* The cores of p that there is something to tell of.
Events(p, rs, td) == {i \in p : rs[i] # "NONE" /\ ~td[i]}

\* Only between system calls can the client choose who runs next.
Replan == IF serving = NoCore THEN plan' \subseteq Cores ELSE plan' = plan

\* The client is told of core c, which is all it is told of, and nobody
\* waits with a system call unless c's stop is one too.  It may be asked to
\* serve the call.
TellOf(c) ==
    /\ mode' = "halted"
    /\ reason'[c] # "NONE"
    /\ told'[c]
    /\ reason'[c] # "SYSCALL" =>
        \A i \in Events(plan', reason', told') : reason'[i] # "SYSCALL"
    /\ serving' \in {NoCore} \cup {i \in {c} : reason'[i] = "SYSCALL"}

\* The cores run, nothing being left to tell of them.
Run ==
    /\ mode = "halted"
    /\ Replan
    /\ Events(plan', reason, told) = {}
    /\ mode' = "running"
    /\ serving' = NoCore
    /\ UNCHANGED <<reason, told>>

\* Instead of a run, a stop of the run before.
Tell ==
    /\ mode = "halted"
    /\ Replan
    /\ UNCHANGED reason
    /\ \E c \in Events(plan', reason, told) :
        /\ told' = [told EXCEPT ![c] = TRUE]
        /\ TellOf(c)

\* Cores of the run have stopped; those that have not have no reason.
Stop ==
    /\ mode = "running"
    /\ UNCHANGED plan
    /\ \A i \in Cores \ plan : reason'[i] = reason[i] /\ told'[i] = told[i]
    /\ \E c \in plan :
        /\ \A i \in plan \ {c} : told'[i] = (reason'[i] = "NONE")
        /\ TellOf(c)

\* A run ends without a stop of a core: a break or a timeout.
Interrupt ==
    /\ mode = "running"
    /\ mode' = "halted"
    /\ UNCHANGED <<plan, reason, told, serving>>

\* The client changes its mind, or gives up serving a call.
Pause ==
    /\ mode = "halted"
    /\ mode' = "halted"
    /\ Replan
    /\ serving' = NoCore
    /\ UNCHANGED <<reason, told>>

\* All cores start over, at the client's request or with a new client.
Reset ==
    /\ mode = "halted"
    /\ serving = NoCore
    /\ mode' \in {"halted", "ended"}
    /\ plan' = {}
    /\ reason' = [i \in Cores |-> "INTERRUPTED"]
    /\ told' = [i \in Cores |-> TRUE]
    /\ UNCHANGED serving

\* The server ends, and is not heard of again.
End ==
    /\ mode # "ended"
    /\ mode' = "ended"

Next == Run \/ Tell \/ Stop \/ Interrupt \/ Pause \/ Reset \/ End

Spec == Init /\ [][Next]_vars
=============================================================================
