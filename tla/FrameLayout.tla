------------------------------ MODULE FrameLayout ------------------------------
(***************************************************************************)
(* How a frame is laid out by libdxwifi/transmitter.c and taken apart by   *)
(* libdxwifi/receiver.c: the radiotap and 802.11 headers, the number in    *)
(* addr1, the payload and the place of the frame check sequence.           *)
(*                                                                         *)
(* A word of flags is the set of its bits that are 1.  A byte is one of    *)
(* Byte values: 256 of them, or fewer on small instances, where the two    *)
(* control values are scaled with them.                                    *)
(***************************************************************************)
EXTENDS Integers, Sequences, SequencesExt

CONSTANTS
    Byte,           \* number of values of a byte
    CtrlSize,       \* DXWIFI_FRAME_CONTROL_DATA_SIZE
    FcsSize         \* IEEE80211_FCS_SIZE

ASSUME LayoutAssumption == Byte \in Nat \ {0, 1, 2} /\ CtrlSize \in Nat \ {0} /\ FcsSize \in Nat

\* dxwifi_control_frame_t: 0xff and 0xaa.
Preamble == Byte - 1
Eot      == (2 * (Byte - 1)) \div 3

\* enum ieee80211_fctl_masks, by the field of ieee80211_frame_control each belongs to.
Mask ==
    [protocol_version |-> {0, 1}, type |-> {2, 3}, stype |-> 4..7, to_ds |-> {8}, from_ds |-> {9},
     more_frag |-> {10}, retry |-> {11}, power_mgmt |-> {12}, more_data |-> {13}, wep |-> {14},
     order |-> {15}]

\* The value is not cut down to its field.
SlipSetBits(word, mask, value) == (word \ mask) \cup value
SetBits(word, mask, value) == (word \ mask) \cup (value \cap mask)

\* The fields in the order they are set; the field more_frag is never set.
Encoded == <<"protocol_version", "type", "stype", "to_ds", "from_ds", "retry", "power_mgmt",
             "more_data", "wep", "order">>
FrameControl(fctl) ==
    LET word[i \in 0..Len(Encoded)] ==
            IF i = 0 THEN {} ELSE SetBits(word[i - 1], Mask[Encoded[i]], fctl[Encoded[i]])
    IN  word[Len(Encoded)]

\* construct_radiotap_header.  The rate is in units of 500 kbps, in one byte.
RadiotapHeader(flags, rate, txflags) ==
    [it_version |-> 0, it_len |-> 12, it_present |-> {1, 2, 15},
     flags |-> flags, rate |-> (rate * 2) % 256, tx_flags |-> txflags]

\* construct_ieee80211_header
MacHeader(fctl, sender) ==
    [frame_control |-> FrameControl(fctl), duration_id |-> 65535,
     addr1 |-> [i \in 1..6 |-> Byte - 1], addr2 |-> sender, addr3 |-> [i \in 1..6 |-> Byte - 1],
     seq_ctrl |-> 0]

\* The four bytes of a number in the order of the network, as htonl leaves them.
Shift(n) == n \div Byte
Packed(n) == <<Shift(Shift(Shift(n))) % Byte, Shift(Shift(n)) % Byte, Shift(n) % Byte, n % Byte>>

\* attach_frame_number: the first two bytes of addr1 stay what they are.
AttachFrameNumber(mac, n) == [mac EXCEPT !.addr1 = SubSeq(@, 1, 2) \o Packed(n)]

\* extract_frame_number
ExtractFrameNumber(mac) ==
    LET a == mac.addr1 IN ((a[3] * Byte + a[4]) * Byte + a[5]) * Byte + a[6]

\* parse_rx_frame_fields: what lies between the headers and the frame check sequence.
Payload(frame) == SubSeq(frame.body, 1, Len(frame.body) - FcsSize)

\* Data of the right length, whatever it consists of, is a control frame.
SlipCheckFrameControl(frame) ==
    IF Len(Payload(frame)) # CtrlSize THEN "none"
    ELSE IF Payload(frame)[1] = Eot THEN "eot"
    ELSE IF Payload(frame)[1] = Preamble THEN "preamble" ELSE "none"

\* check_frame_control: a share of bytes is 0 or 1, so each byte must match.
CheckFrameControl(frame) ==
    LET all(value) == \A i \in 1..CtrlSize : Payload(frame)[i] = value
    IN  IF Len(Payload(frame)) # CtrlSize THEN "none"
        ELSE IF all(Eot) THEN "eot" ELSE IF all(Preamble) THEN "preamble" ELSE "none"
===============================================================================
