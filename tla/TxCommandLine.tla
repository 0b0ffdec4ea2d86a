---------------------------- MODULE TxCommandLine ----------------------------
(***************************************************************************)
(* The command line of tx: the defaults of dxwifi/tx/tx.c and the argp     *)
(* parser of dxwifi/tx/cli.c, which argp calls once per option and per     *)
(* file name, and once more at the end.                                    *)
(*                                                                         *)
(* An option is a record of its key and its value.  A key that stores its  *)
(* value is named for the field of cli_args (or of its transmitter) that   *)
(* receives it.  Values are what atoi returned.                            *)
(***************************************************************************)
EXTENDS Integers, Sequences

CONSTANTS
    BlockMin, BlockMax,     \* DXWIFI_BLOCK_SIZE_MIN and _MAX
    FileMax,                \* TX_CLI_FILE_MAX
    UintMod                 \* 2^32, the range of an unsigned

ASSUME TableAssumption == FileMax \in Nat

Info == 4                   \* DXWIFI_LOG_INFO

TxDefaults ==
    [mode |-> "STREAM", files |-> << >>, file_filter |-> "*", retransmit_count |-> 0,
     transmit_current_files |-> FALSE, listen_for_new_files |-> TRUE, dirwatch_timeout |-> -1,
     verbosity |-> Info, quiet |-> FALSE, use_syslog |-> FALSE, tx_delay |-> 0,
     file_delay |-> 0, device |-> "mon0", blocksize |-> 1024, transmit_timeout |-> -1,
     redundant_ctrl_frames |-> 0, address |-> "aa", rtap_rate_mbps |-> 1,
     rtap_flags |-> {"FCS"}, rtap_tx_flags |-> {"NOACK"}]

\* Keys that store their value, as it is or in an unsigned type; keys that store a truth
\* value; keys that set or clear a flag of the radiotap header.
Stored   == {"device", "retransmit_count", "redundant_ctrl_frames", "file_filter",
             "dirwatch_timeout", "address", "transmit_timeout", "blocksize"}
Unsigned == [tx_delay |-> UintMod, file_delay |-> UintMod, rtap_rate_mbps |-> 256]
Truth    == [quiet |-> TRUE, use_syslog |-> TRUE, transmit_current_files |-> TRUE,
             listen_for_new_files |-> FALSE]
SetFlag  == [cfp |-> "rtap_flags", shortpre |-> "rtap_flags", wep |-> "rtap_flags",
             frag |-> "rtap_flags", noseqno |-> "rtap_tx_flags", order |-> "rtap_tx_flags"]
ClearFlag == [FCS |-> "rtap_flags", NOACK |-> "rtap_tx_flags"]
Keys == {"file", "verbose"} \cup Stored \cup DOMAIN Unsigned \cup DOMAIN Truth
        \cup DOMAIN SetFlag \cup DOMAIN ClearFlag

Modes == {"STREAM", "FILE", "DIRECTORY"}

\* The table of files is full one file too late.
SlipFull(args) == Len(args.files) > FileMax
Full(args) == Len(args.files) >= FileMax

\* Options that end the program with a usage message, each at its own turn.
Rejected(args, opt) ==
    \/ opt.key = "blocksize" /\ opt.value \notin BlockMin..BlockMax
    \/ opt.key = "transmit_timeout" /\ opt.value = 0
    \/ opt.key = "address" /\ opt.value = "malformed"
    \/ opt.key = "file" /\ Full(args)

\* parse_opt for one option that is not rejected.
ParseOpt(args, opt) ==
    LET k == opt.key
    IN  CASE k = "file"              -> [args EXCEPT !.files = Append(@, opt.value)]
          [] k = "verbose"           -> [args EXCEPT !.verbosity = @ + 1]
          [] k \in Stored            -> [args EXCEPT ![k] = opt.value]
          [] k \in DOMAIN Unsigned   -> [args EXCEPT ![k] = opt.value % Unsigned[k]]
          [] k \in DOMAIN Truth      -> [args EXCEPT ![k] = Truth[k]]
          [] k \in DOMAIN SetFlag    -> [args EXCEPT ![SetFlag[k]] = @ \cup {k}]
          [] k \in DOMAIN ClearFlag  -> [args EXCEPT ![ClearFlag[k]] = @ \ {k}]

\* ARGP_KEY_END: the mode follows from the files, and quiet wins over verbose.
ParseEnd(args, directories) ==
    [args EXCEPT
        !.mode = IF args.files = << >> THEN "STREAM"
                 ELSE IF Len(args.files) = 1 /\ args.files[1] \in directories THEN "DIRECTORY"
                 ELSE "FILE",
        !.verbosity = IF args.quiet THEN 0 ELSE @]
===============================================================================
