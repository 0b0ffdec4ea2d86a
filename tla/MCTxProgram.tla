------------------------------ MODULE MCTxProgram ------------------------------
(* Model checking TxProgram: the command lines of one run, and the files they name. *)
EXTENDS TxProgram

Opt(k, v) == [key |-> k, value |-> v]
Flag(k) == Opt(k, "")
File(f) == Opt("file", f)

MCKind == [a |-> "regular", b |-> "regular", n1 |-> "regular", n2 |-> "regular",
           fifo |-> "pipe", gone |-> "missing", dir |-> "directory"]
Plain == [dir |-> "plain"]
Inner == [dir |-> "inner"]
MCContents == {"a", "b", "fifo"}
MCMatches == [g \in {"*", "n*"} |-> IF g = "*" THEN DOMAIN MCKind ELSE {"n1", "n2"}]

Wrong ==
    {<<Opt("blocksize", 0)>>, <<Opt("transmit_timeout", 0)>>, <<Opt("address", "malformed")>>,
     <<File("a"), File("b"), File("gone"), File("a"), File("b")>>}

Streams == {<<Flag("FCS"), Flag("cfp")>>, <<Opt("transmit_timeout", 5), Opt("tx_delay", -1)>>}

Lists ==
    {<<File("gone"), File("a"), File("b"), Opt("retransmit_count", 1)>>,
     <<File("a"), File("fifo"), File("b"), Flag("verbose"), Flag("quiet")>>,
     <<File("a"), File("b"), Opt("retransmit_count", -1)>>,
     <<File("a"), File("dir"), File("b"), Flag("order")>>}

Directory ==
    {<<File("dir"), Flag("transmit_current_files"), Flag("listen_for_new_files"),
       Opt("retransmit_count", 1)>>,
     <<File("dir"), Flag("transmit_current_files"), Opt("dirwatch_timeout", 2)>>,
     <<File("dir"), Opt("file_filter", "n*"), Opt("retransmit_count", 1)>>}

MCCommandLines == Wrong \cup Streams \cup Lists \cup Directory
PathCommandLines == {<<File("dir"), Flag("transmit_current_files"), Flag("listen_for_new_files")>>}
================================================================================
