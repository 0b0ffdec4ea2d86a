------------------------------- MODULE MCSession -------------------------------
(* Model checking Session: the command lines of the receiver, and what is sent. *)
EXTENDS Session

Opt(k, v) == [key |-> k, value |-> v]
Flag(k) == Opt(k, "")

MCCommandLines ==
    {<<Opt("path", "dir"), Opt("capture_timeout", 5)>>,
     <<Opt("path", "dir"), Flag("append"), Flag("optimize")>>,
     <<Opt("path", "out"), Opt("capture_timeout", 5), Flag("verbose"), Flag("quiet")>>,
     <<Opt("path", "out"), Flag("append"), Opt("capture_timeout", 5)>>,
     << >>, <<Opt("path", "a"), Opt("path", "b")>>, <<Opt("packet_buffer_size", 1)>>}

\* A file of two blocks, an empty one and one of one block.
MCSent == <<2, 0, 1>>

MCOld == {<< >>, <<Frame("data", 0, 0), Frame("data", 0, 0)>>}
================================================================================
