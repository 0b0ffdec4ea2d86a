---------------------------- MODULE RxCommandLine ----------------------------
(***************************************************************************)
(* The command line of rx: the defaults of dxwifi/rx/rx.c and the argp     *)
(* parser of dxwifi/rx/cli.c.  Options are records of a key and a value,   *)
(* as in TxCommandLine.                                                    *)
(***************************************************************************)
EXTENDS Integers, Sequences

CONSTANTS PacketBufferMin, PacketBufferMax     \* DXWIFI_RX_PACKET_BUFFER_SIZE_MIN and _MAX

RxDefaults ==
    [mode |-> "STREAM", arg_num |-> 0, output_path |-> ".", file_prefix |-> "rx",
     file_extension |-> "cap", append |-> FALSE, verbosity |-> 4, quiet |-> FALSE,
     use_syslog |-> FALSE, device |-> "mon0", dispatch_count |-> 1, capture_timeout |-> -1,
     packet_buffer_size |-> PacketBufferMax, ordered |-> FALSE, add_noise |-> FALSE,
     filter |-> "wlan addr2 aa:aa:aa:aa:aa:aa", optimize |-> TRUE, snaplen |-> 65535,
     pb_timeout |-> 20]

Stored == {"device", "capture_timeout", "dispatch_count", "packet_buffer_size", "file_prefix",
           "file_extension", "snaplen", "pb_timeout", "filter"}
Truth  == [append |-> TRUE, quiet |-> TRUE, ordered |-> TRUE, add_noise |-> TRUE,
           use_syslog |-> TRUE, optimize |-> FALSE]

Second(args) == args.arg_num >= 1

\* A second path, or a packet buffer out of its range, ends the program.
Rejected(args, opt) ==
    \/ opt.key = "path" /\ Second(args)
    \/ opt.key = "packet_buffer_size" /\ opt.value \notin PacketBufferMin..PacketBufferMax

\* parse_opt for one option that is not rejected.
ParseOpt(args, opt) ==
    LET k == opt.key
    IN  CASE k = "path"         -> [args EXCEPT !.output_path = opt.value, !.arg_num = @ + 1]
          [] k = "verbose"      -> [args EXCEPT !.verbosity = @ + 1]
          [] k \in Stored       -> [args EXCEPT ![k] = opt.value]
          [] k \in DOMAIN Truth -> [args EXCEPT ![k] = Truth[k]]

\* ARGP_KEY_END: the mode follows from the path, and quiet wins over verbose.
ParseEnd(args, directories) ==
    [args EXCEPT
        !.mode = IF args.arg_num = 0 THEN "STREAM"
                 ELSE IF args.output_path \in directories THEN "DIRECTORY" ELSE "FILE",
        !.verbosity = IF args.quiet THEN 0 ELSE @]
===============================================================================
