---------------------------- MODULE VContActions ----------------------------
(***************************************************************************)
(* The body of a vCont packet (lib/server/VContActions.cpp): a list of     *)
(* action letters, each with an optional process/thread identifier.  An    *)
(* action is a record of its letter, whether it names an identifier, and   *)
(* the text of that identifier.  "NUL" stands for the letter '\0' that     *)
(* getCoreAction returns when no action names the core.                    *)
(***************************************************************************)
EXTENDS Ptid, Sequences

Letters == {"c", "C", "s", "S", "t"}

VContPacketsType == Seq([letter : Letters, named : BOOLEAN, ptid : PtidTexts])

AllPtid == [pid |-> PTID_ALL, tid |-> PTID_ALL]

\* The identifier stored with an action: every core, unless one is named.
ActionPtid(a) == IF a.named THEN decode(AllPtid, a.ptid) ELSE AllPtid

validAction(a) ==
    a.named => decodes(AllPtid, a.ptid) /\ ActionPtid(a).pid # 0

\* VContActions::parse ends the process at an identifier that is too long,
\* unless it has returned at an earlier action.
parseAborts(actions) ==
    \E k \in 1 .. Len(actions) :
        /\ actions[k].named /\ decodeAborts(actions[k].ptid)
        /\ \A j \in 1 .. k - 1 : validAction(actions[j])

\* VContActions::parse, whose result valid () returns.
validActions(actions) == \A k \in 1 .. Len(actions) : validAction(actions[k])

\* The first action that is for every core or for core number pid.
getCoreAction(actions, pid) ==
    LET match == {k \in 1 .. Len(actions) :
                    ActionPtid(actions[k]).pid \in {PTID_ALL, pid}}
    IN  IF match = {} THEN "NUL"
        ELSE actions[CHOOSE k \in match : \A j \in match : k <= j].letter
=============================================================================
