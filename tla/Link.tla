-------------------------------- MODULE Link --------------------------------
(***************************************************************************)
(* What the packet layer promises to both ends of a session: the server    *)
(* gets the client's packets in order, each once, and the client gets one  *)
(* answer to each packet the server got.  When the line has spoiled        *)
(* something the promise is off until the next session, which starts from  *)
(* nothing whatever was under way in the one before.                       *)
(***************************************************************************)
EXTENDS Naturals, Sequences

VARIABLES
    sent,       \* the packets of the client
    taken,      \* those the server got
    answers,    \* the number of answers the client got
    spoiled     \* whether the line has spoiled something

vars == <<sent, taken, answers, spoiled>>

Init == sent = <<>> /\ taken = <<>> /\ answers = 0 /\ spoiled = FALSE

Send ==
    /\ Len(sent') = Len(sent) + 1
    /\ sent = SubSeq(sent', 1, Len(sent))
    /\ UNCHANGED <<taken, answers, spoiled>>

Take ==
    /\ Len(taken) < Len(sent)
    /\ taken' = Append(taken, sent[Len(taken) + 1])
    /\ UNCHANGED <<sent, answers, spoiled>>

Answer ==
    /\ answers < Len(taken)
    /\ answers' = answers + 1
    /\ UNCHANGED <<sent, taken, spoiled>>

NewSession == sent' = <<>> /\ taken' = <<>> /\ answers' = 0 /\ ~spoiled'

\* From the moment something is spoiled anything may happen.
Spoil == spoiled'

Next == Send \/ Take \/ Answer \/ NewSession \/ Spoil

Spec == Init /\ [][Next]_vars
=============================================================================
