------------------------------ MODULE MCFramePath ------------------------------
(***************************************************************************)
(* Model checking FramePath: bytes of four values, control data of two     *)
(* bytes, pipelines of three slots.                                        *)
(***************************************************************************)
EXTENDS FramePath

\* A full block, short ones, and one that looks like a preamble.
MCBlocks == {<<1, 3, 3>>, <<3, 0>>, <<3, 3>>, <<3>>}

\* What tx.c sets; a version out of range with every flag; a subtype that holds a bit of a type.
Flags(on) == [f \in DOMAIN Mask \ {"protocol_version", "type", "stype"} |->
                 IF f \in on THEN Mask[f] ELSE {}]
Fctl(version, type, stype, on) ==
    [protocol_version |-> version, type |-> type, stype |-> stype] @@ Flags(on)
Setting(fctl, rate) ==
    [fctl |-> fctl, rtap_flags |-> {"FCS"}, rtap_rate_mbps |-> rate, rtap_tx_flags |-> {"NOACK"}]
MCSettings ==
    {Setting(Fctl({}, {3}, {}, {"from_ds", "more_data"}), 1),
     Setting(Fctl({0, 2}, {2}, {3, 7}, DOMAIN Mask), 127),
     Setting(Fctl({1}, {2, 3}, {4, 6}, {"to_ds", "more_frag", "retry", "wep"}), 200)}
================================================================================
