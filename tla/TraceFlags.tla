----------------------------- MODULE TraceFlags -----------------------------
(***************************************************************************)
(* The trace flags (TraceFlags.cpp) as a function from names to settings,  *)
(* and the operations on it.  A text is a token: nothing, a word, or a     *)
(* number that std::stoi can read (a number out of range is a word), which *)
(* may have a colon in front.  An operation that ends the process is one   *)
(* whose "...Fails" is true.                                               *)
(***************************************************************************)
EXTENDS Integers, Sequences

CONSTANT Numbers      \* the numbers that occur in texts

ASSUME NumbersAssumption == Numbers \subseteq Int

Tokens ==
    [kind : {"empty", "word"}, n : {0}, colon : BOOLEAN]
        \cup [kind : {"number"}, n : Numbers, colon : BOOLEAN]

Empty == [kind |-> "empty", n |-> 0, colon |-> FALSE]
Word == [kind |-> "word", n |-> 0, colon |-> FALSE]
Number(k) == [kind |-> "number", n |-> k, colon |-> FALSE]
Null == [kind |-> "null", n |-> 0, colon |-> FALSE]

\* std::stoi does not throw.
IsNumber(t) == t.kind = "number" /\ ~t.colon

-----------------------------------------------------------------------------
FlagNames == {"rsp", "conn", "break", "vcd", "silent", "disas", "qdisas",
              "dflush", "mem", "exec", "verbosity", "ipg"}

isFlag(flagName) == flagName \in FlagNames

isNumericFlag(flagName) == flagName \in {"verbosity", "ipg"}

DefaultNumber(flagName) == IF flagName = "ipg" THEN 50 ELSE 0

\* The constructor.
FlagInfoInit ==
    [f \in FlagNames |->
        [state |-> FALSE, val |-> Null, numeric_val |-> DefaultNumber(f)]]

FlagInfos ==
    [FlagNames -> [state : BOOLEAN, val : Tokens \cup {Null}, numeric_val : Int]]

\* flag () ends the process for an unknown flag, or a number it cannot read.
flagFails(flagName, flagVal, numeric) ==
    ~isFlag(flagName) \/ (numeric /\ ~IsNumber(flagVal))

NumericVal(flagVal, numeric) == IF numeric THEN flagVal.n ELSE 0

\* flag (): state and value together.
flag(info, flagName, flagState, flagVal, numeric) ==
    [info EXCEPT ![flagName] = [state |-> flagState, val |-> flagVal,
                                numeric_val |-> NumericVal(flagVal, numeric)]]

\* flagState (): the value stays as it is.
setFlagState(info, flagName, flagState) ==
    [info EXCEPT ![flagName].state = flagState]

\* The argument of one -t option: a name, or a name with a value.
TraceArgs(names, vals) ==
    [name : names, eq : {FALSE}, val : {Empty}] \cup [name : names, eq : {TRUE}, val : vals]

ArgIsNumeric(arg) == arg.eq /\ isNumericFlag(arg.name)

\* parseArg is false, or ends the process: a failure either way.
parseArgFails(arg) ==
    ~isFlag(arg.name) \/ flagFails(arg.name, arg.val, ArgIsNumeric(arg))

parseArg(info, arg) == flag(info, arg.name, TRUE, arg.val, ArgIsNumeric(arg))
=============================================================================
