----------------------------- MODULE MCGdbServer -----------------------------
(* Values for the constants of GdbServer that a configuration cannot spell. *)
EXTENDS GdbServer

Txt(form, pid, tid) == [form |-> form, pid |-> pid, tid |-> tid]
Zero == [kind |-> "zero", val |-> 0]
Hex(v) == [kind |-> "hex", val |-> v]

Act(letter) ==
    [letter |-> letter, named |-> FALSE, ptid |-> Txt("pid", Zero, Zero)]
ActOn(letter, pid) ==
    [letter |-> letter, named |-> TRUE, ptid |-> Txt("ptid", Hex(pid), Hex(1))]

MCContinue == {<<Act("c")>>}

\* Continue everything; step one core and continue the rest; run one core
\* alone; a letter that is refused after one that is not; an identifier
\* that is refused.
MCVContPackets ==
    {<<Act("c")>>, <<ActOn("s", 1), Act("C")>>, <<ActOn("S", 2)>>,
     <<ActOn("s", 1), ActOn("t", 2)>>,
     <<[letter |-> "c", named |-> TRUE, ptid |-> Txt("ptid", Zero, Hex(1))]>>}
\* The same with a number that is too long.
MCFewPackets ==
    {<<Act("c")>>, <<ActOn("s", 2)>>, <<ActOn("s", 1), ActOn("t", 2)>>,
     <<ActOn("c", IntMod)>>}

\* Another core, any core, all threads of a core, and a number that is
\* negative once it is an int.
MCHgTexts ==
    {Txt("ptid", Hex(2), Hex(1)), Txt("tid", Zero, Zero),
     Txt("pid", Hex(1), Zero), Txt("ptid", Hex(IntMod - 4), Hex(1))}
\* A core the target does not have, and a number that is too long.
MCHgBeyond == {Txt("ptid", Hex(3), Hex(1)), Txt("ptid", Hex(IntMod), Hex(1))}
MCAnyText == MCHgTexts \cup MCHgBeyond
MCNoTexts == {}

\* Replies to a system call: success, interrupted, one that does not parse,
\* and an errno.
Num(v) == [kind |-> "hex", val |-> v]
Absent == [kind |-> "absent", val |-> 0]
Junk == [kind |-> "junk", val |-> 0]
F(ret, err, mark) == [ret |-> ret, err |-> err, mark |-> mark]
MCReplies == {F(Num(0), Absent, "end"), F(Num(0), Num(0), "C")}
MCAllReplies == MCReplies \cup {F(Num(0), Junk, "end"), F(Num(-1), Num(2), "end")}
=============================================================================
