----------------------------- MODULE MCStartup -----------------------------
(* Command lines that go right and wrong in every way, alone and in pairs. *)
EXTENDS Startup

Plain == [wrong |-> FALSE, help |-> FALSE, silent |-> FALSE, version |-> FALSE,
          soname |-> TRUE, stdin |-> FALSE, bufsize |-> <<>>, port |-> <<>>, trace |-> <<>>]

Arg(name) == [name |-> name, eq |-> FALSE, val |-> Empty]
ArgVal(name, v) == [name |-> name, eq |-> TRUE, val |-> v]
Colon(t) == [t EXCEPT !.colon = TRUE]

\* Of these the process goes on to serve.
Serving ==
    {[Plain EXCEPT !.port = p] : p \in {<<>>, <<Number(0)>>, <<Colon(Number(1))>>}}
    \cup {[Plain EXCEPT !.silent = TRUE, !.port = <<Word, Number(2)>>],
          [Plain EXCEPT !.stdin = TRUE, !.bufsize = <<Number(3)>>,
                        !.trace = <<ArgVal("ipg", Number(3)), Arg("ipg"), Arg("silent")>>],
          [Plain EXCEPT !.trace = <<ArgVal("verbosity", Number(1)), ArgVal("rsp", Word)>>]}

\* Of these it ends, now or with the first buffer or port it asks for.
Ending ==
    {[Plain EXCEPT !.wrong = w, !.help = h, !.version = v, !.soname = s] :
        w, h, v, s \in BOOLEAN}
    \cup {[Plain EXCEPT !.version = v, !.bufsize = <<b>>, !.port = p] : v \in BOOLEAN,
            b \in {Number(-1), Colon(Number(3)), Word},
            p \in {<<>>, <<Number(-1)>>, <<Number(4)>>, <<Colon(Empty)>>}}
    \cup {[Plain EXCEPT !.port = <<Number(p)>>] : p \in {3, 4}}
    \cup {[Plain EXCEPT !.trace = <<Arg("rsp"), a>>] :
            a \in {Arg("RSP"), ArgVal("ipg", Word), ArgVal("verbosity", Empty)}}

MCNumbers == -1 .. 4
MCCommandLines == Serving \cup Ending

MCSetCommands ==
    {[name |-> "RSP", level |-> "on", val |-> <<>>],
     [name |-> "rsp", level |-> "unknown", val |-> <<>>],
     [name |-> "silent", level |-> "off", val |-> <<>>],
     [name |-> "verbosity", level |-> "on", val |-> <<Number(3)>>],
     [name |-> "verbosity", level |-> "off", val |-> <<>>],
     [name |-> "verbosity", level |-> "on", val |-> <<Word>>]}
=============================================================================
