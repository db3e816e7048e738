-------------------------------- MODULE Ptid --------------------------------
(***************************************************************************)
(* The process/thread identifier of the remote serial protocol             *)
(* (lib/server/Ptid.cpp).  A Ptid is a pair of ints in which three values  *)
(* are reserved: "all", "any" and "invalid".  The text of an identifier is *)
(* abstracted to its shape: which of the three syntaxes is used, and for   *)
(* each field whether it is the literal "0", the literal "-1", a hex       *)
(* string (of some value) or something that does not parse.                *)
(***************************************************************************)
EXTENDS Integers

CONSTANT MaxInt   \* largest C++ int (2^31 - 1 in the build)

ASSUME MaxIntAssumption == MaxInt \in Nat /\ MaxInt >= 3

PTID_INV == -2
PTID_ALL == -1
PTID_ANY == 0

PID_DEFAULT == 1
TID_DEFAULT == 1

IntMod == 2 * (MaxInt + 1)
Ints == (-MaxInt - 1) .. MaxInt

Ptids == [pid : Ints, tid : Ints]

\* The text of one field; only "hex" looks at the value.
Fields == [kind : {"zero", "minus1", "hex", "junk"}, val : Nat]

\* "<tid>", "p<pid>" and "p<pid>.<tid>"; a field that is absent is not read.
PtidTexts == [form : {"tid", "pid", "ptid"}, pid : Fields, tid : Fields]

-----------------------------------------------------------------------------
\* Utils::hex2Val asserts that there are at most eight digits; a number
\* that needs more stands for every text that has more.
tooLong(f) == f.kind = "hex" /\ f.val >= IntMod

\* (int)(Utils::hex2Val (..)): truncation to the width of int.
ToInt(v) ==
    LET low == v % IntMod
    IN  IF low > MaxInt THEN low - IntMod ELSE low

decodeField(f) ==
    CASE f.kind = "zero"   -> PTID_ANY
      [] f.kind = "minus1" -> PTID_ALL
      [] f.kind = "hex"    -> ToInt(f.val)
      [] OTHER             -> PTID_INV

\* Ptid::decode ends the process: a field that it reads is too long.
decodeAborts(text) ==
    \/ text.form # "tid" /\ tooLong(text.pid)
    \/ text.form # "pid" /\ tooLong(text.tid)

\* The identifier a text stands for when m is the one being overwritten.
ReadPtid(m, text) ==
    [pid |-> IF text.form = "tid" THEN m.pid ELSE decodeField(text.pid),
     tid |-> IF text.form = "pid" THEN PTID_ALL ELSE decodeField(text.tid)]

\* The result of Ptid::decode, and what it leaves in the object.
decodes(m, text) ==
    LET p == ReadPtid(m, text)
    IN  /\ text.form # "tid" => p.pid # PTID_INV
        /\ text.form # "pid" => p.tid # PTID_INV
        /\ ~(p.pid = PTID_ALL /\ p.tid \in {PTID_ALL, PTID_ANY})

decode(m, text) == IF decodes(m, text) THEN ReadPtid(m, text) ELSE m

validField(n) == n > 0 \/ n \in {PTID_ANY, PTID_ALL, PTID_INV}
validate(m) == validField(m.pid) /\ validField(m.tid)

\* The result of Ptid::crystalize, and what it leaves in the object.
crystalizes(m) ==
    /\ validate(m)
    /\ m.pid \notin {PTID_INV, PTID_ALL}
    /\ m.tid \notin {PTID_INV, PTID_ALL}

crystalize(m, defaultPid, defaultTid) ==
    IF crystalizes(m)
    THEN [pid |-> IF m.pid = PTID_ANY THEN defaultPid ELSE m.pid,
          tid |-> IF m.tid = PTID_ANY THEN defaultTid ELSE m.tid]
    ELSE m

\* Ptid::encode fails on anything below "all".
encodes(m) == m.pid >= PTID_ALL /\ m.tid >= PTID_ALL
=============================================================================
