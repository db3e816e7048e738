---------------------------- MODULE SyscallReply ----------------------------
(***************************************************************************)
(* The reply of GDB to a host system call (lib/server/SyscallReplyPacket.h) *)
(* "F<ret>", "F<ret>,<errno>" or "F<ret>,<errno>,C".  A packet is a record *)
(* of its two numbers and of what follows them; each number may be absent  *)
(* or something that does not parse.                                       *)
(***************************************************************************)
EXTENDS Ptid

Numbers == [kind : {"hex", "absent", "junk"}, val : Int]

FPacketsType == [ret : Numbers, err : Numbers, mark : {"end", "C", "junk"}]

\* parseValue: the number, truncated to int.
parseValue(f) == ToInt(f.val)

\* The errno of a packet, 0 if it has none.
errno(p) == IF p.err.kind = "hex" THEN parseValue(p.err) ELSE 0

\* parse: whether the packet is well formed.  An errno makes sense only
\* with a result of -1, and nothing but the Ctrl-C mark may follow it.
valid(p) ==
    /\ p.ret.kind = "hex"
    /\ p.err.kind # "junk"
    /\ errno(p) >= 0
    /\ errno(p) > 0 => parseValue(p.ret) = -1
    /\ p.err.kind = "hex" => p.mark # "junk"

retcode(p) == IF errno(p) > 0 THEN -errno(p) ELSE parseValue(p.ret)

hasCtrlC(p) == p.err.kind = "hex" /\ p.mark = "C"

\* What GDB itself sends: a result, or a result of -1 and an errno; the
\* mark needs an errno in front, which may be zero.
IsGdbReply(p) ==
    /\ p.ret.kind = "hex" /\ p.ret.val \in Ints
    /\ \/ p.err.kind = "absent" /\ p.mark = "end"
       \/ /\ p.err.kind = "hex" /\ p.err.val \in 0 .. MaxInt
          /\ p.err.val > 0 => p.ret.val = -1
          /\ p.mark \in {"end", "C"}

\* What GDB means by it: the result, or the negative errno.
Meaning(p) ==
    IF p.err.kind = "hex" /\ p.err.val > 0 THEN -p.err.val ELSE p.ret.val
=============================================================================
