------------------------------- MODULE FramePath -------------------------------
(***************************************************************************)
(* The path of one frame: the pipelines of handlers that libdxwifi/        *)
(* transmitter.c keeps, the one buffer in which every frame of a           *)
(* transmission is built, and what libdxwifi/receiver.c makes of the bytes *)
(* that were injected.  The order of the frames is Transmitter's subject.  *)
(*                                                                         *)
(* The callbacks are those of tx.c, "number" and "log" (which stands for   *)
(* delay_transmission as well), and two that use what transmitter.h:117-   *)
(* 124 allows: "trim" truncates the payload and "grow" adds a byte to it.  *)
(***************************************************************************)
EXTENDS FrameLayout, FiniteSets, FiniteSetsExt

CONSTANTS
    HandlerMax,     \* DXWIFI_TX_FRAME_HANDLER_MAX
    PayloadMax,     \* DXWIFI_TX_PAYLOAD_SIZE_MAX
    Callbacks,      \* subset of {"number", "log", "trim", "grow"}
    Blocks,         \* what a read can return
    Settings,       \* of the transmitter: fctl, rtap_flags, rtap_rate_mbps, rtap_tx_flags
    MaxFrames,      \* bound: data frames of a transmission
    MaxChanges      \* bound: handlers attached and removed

ASSUME PathAssumption ==
    /\ HandlerMax \in Nat \ {0} /\ PayloadMax \in Nat /\ CtrlSize <= PayloadMax
    /\ Callbacks \subseteq {"number", "log", "trim", "grow"}
    /\ \A b \in Blocks : b \in Seq(0..(Byte - 1)) /\ Len(b) \in 1..PayloadMax
    /\ \A s \in Settings : s.rtap_rate_mbps \in Nat
    /\ MaxFrames \in Nat

VARIABLES
    pc,             \* "idle", "preamble" or "data"
    preinjection, postinjection,    \* the pipelines: a callback or "none" in each slot
    tx,             \* settings of the transmitter
    rtap, mac, payload,             \* headers and payload of the data frame
    count,          \* stats.frame_count
    air,            \* the last frame injected: its headers and what follows them
    kind, block,    \* history: what was meant to be sent
    handles,        \* history: live handlers of the preinjection pipeline and the index the
                    \* program holds for each, in the order they were attached
    gap,            \* history: has a handler been attached after one was removed?
    removed, changes

table   == <<preinjection, postinjection, handles, gap, removed, changes>>
buffer  == <<tx, rtap, mac, payload, count>>
vars    == <<pc, table, buffer, air, kind, block>>

Slots == 1..HandlerMax
Empty == [i \in Slots |-> "none"]
Zeros == [i \in 1..(PayloadMax + FcsSize) |-> 0]
Untouched == [frame_control |-> {}, duration_id |-> 0, addr1 |-> << >>, addr2 |-> << >>,
              addr3 |-> << >>, seq_ctrl |-> 0]

-------------------------------------------------------------------------------
\* attach_handler: the first free slot, or none at all.
Free(pipeline) == {i \in Slots : pipeline[i] = "none"}

\* remove_handler: every handler for a negative index (0 here), or the one in its slot.
Removed(pipeline, index) ==
    IF index = 0 THEN Empty
    ELSE IF index \in Slots THEN [pipeline EXCEPT ![index] = "none"] ELSE pipeline
Holders(index) == {j \in DOMAIN handles : handles[j].index = index}

\* What one callback does to the frame: its header, its bytes and the size it returns.
Call(frame, callback, n) ==
    CASE callback = "number" -> [frame EXCEPT !.mac = AttachFrameNumber(@, n)]
      [] callback = "trim" -> [frame EXCEPT !.size = IF @ > 1 THEN @ - 1 ELSE @]
      [] callback = "grow" -> [frame EXCEPT !.bytes[frame.size + 1] = 0, !.size = @ + 1]
      [] callback \in {"log", "none"} -> frame

\* The size returned by one handler is not handed on to the next.
SlipInvokeHandlers(pipeline, frame, n) ==
    LET run[i \in 0..HandlerMax] ==
            IF i = 0 THEN frame
            ELSE IF pipeline[i] = "none" THEN run[i - 1]
            ELSE Call([run[i - 1] EXCEPT !.size = frame.size], pipeline[i], n)
    IN  run[HandlerMax]

\* invoke_handlers: slot by slot, each with the size the one before it returned.
InvokeHandlers(pipeline, frame, n) ==
    LET run[i \in 0..HandlerMax] == IF i = 0 THEN frame ELSE Call(run[i - 1], pipeline[i], n)
    IN  run[HandlerMax]

\* read(2) and memcpy leave what lies behind the new bytes in the buffer.
Into(bytes, new) == new \o SubSeq(bytes, Len(new) + 1, Len(bytes))

\* inject_packet: the headers, the payload and as many bytes more as the FCS has.
Inject(header, bytes, size) ==
    air' = [rtap |-> rtap, mac |-> header, body |-> SubSeq(bytes, 1, size + FcsSize)]

Control(value) == [i \in 1..CtrlSize |-> value]

-------------------------------------------------------------------------------
\* init_transmitter
Init ==
    /\ pc = "idle"
    /\ preinjection = Empty /\ postinjection = Empty
    /\ tx \in Settings /\ rtap = "none" /\ mac = Untouched /\ payload = Zeros /\ count = 0
    /\ air = "none" /\ kind = "nothing" /\ block = << >>
    /\ handles = << >> /\ gap = FALSE /\ removed = FALSE /\ changes = 0

Change ==
    /\ pc = "idle" /\ changes < MaxChanges
    /\ changes' = changes + 1
    /\ UNCHANGED <<pc, buffer, air, kind, block>>

AttachPreinject(callback) ==
    /\ Change
    /\ UNCHANGED <<postinjection, removed>>
    /\ IF Free(preinjection) = {} THEN UNCHANGED <<preinjection, handles, gap>>
       ELSE LET i == Min(Free(preinjection))
            IN  /\ preinjection' = [preinjection EXCEPT ![i] = callback]
                /\ handles' = Append(handles, [index |-> i, callback |-> callback])
                /\ gap' = removed

AttachPostinject(callback) ==
    /\ Change
    /\ Free(postinjection) # {}
    /\ postinjection' = [postinjection EXCEPT ![Min(Free(postinjection))] = callback]
    /\ UNCHANGED <<preinjection, handles, gap, removed>>

\* Line 176: nothing of the pipeline is left, and order begins anew.
RemovePreinject(index) ==
    /\ Change
    /\ preinjection' = Removed(preinjection, index)
    /\ handles' = IF index = 0 THEN << >> ELSE IF Holders(index) = {} THEN handles
                  ELSE RemoveAt(handles, CHOOSE j \in Holders(index) : TRUE)
    /\ removed' = (index # 0 /\ (removed \/ preinjection' # preinjection))
    /\ gap' = (index # 0 /\ gap)
    /\ UNCHANGED postinjection

RemovePostinject(index) ==
    /\ Change
    /\ postinjection' = Removed(postinjection, index)
    /\ UNCHANGED <<preinjection, handles, gap, removed>>

\* start_transmission: the frame is set up afresh.
Begin ==
    /\ pc = "idle"
    /\ rtap' = RadiotapHeader(tx.rtap_flags, tx.rtap_rate_mbps, tx.rtap_tx_flags)
    /\ mac' = MacHeader(tx.fctl, "aa")
    /\ payload' = Zeros /\ count' = 0
    /\ pc' = "preamble"
    /\ UNCHANGED <<tx, table, air, kind, block>>

SendControlFrame(value, name) ==
    /\ payload' = Into(payload, Control(value))
    /\ Inject(mac, payload', CtrlSize)
    /\ kind' = name /\ block' = << >>
    /\ UNCHANGED <<tx, rtap, mac, count, table>>

SendPreamble == pc = "preamble" /\ pc' = "data" /\ SendControlFrame(Preamble, "preamble")
SendEot      == pc = "data" /\ pc' = "idle" /\ SendControlFrame(Eot, "eot")

\* Lines 462-476: a block is read, handled, injected and handled again.
SendBlock(b) ==
    /\ pc = "data" /\ count < MaxFrames
    /\ LET read   == [mac |-> mac, bytes |-> Into(payload, b), size |-> Len(b)]
           before == InvokeHandlers(preinjection, read, count)
           after  == InvokeHandlers(postinjection, [before EXCEPT !.size = Len(b)], count + 1)
       IN  /\ Inject(before.mac, before.bytes, before.size)
           /\ mac' = after.mac /\ payload' = after.bytes
    /\ count' = count + 1
    /\ kind' = "data" /\ block' = b
    /\ UNCHANGED <<pc, tx, rtap, table>>

Next ==
    \/ \E c \in Callbacks : AttachPreinject(c) \/ AttachPostinject(c)
    \/ \E i \in 0..(HandlerMax + 1) : RemovePreinject(i) \/ RemovePostinject(i)
    \/ Begin \/ SendPreamble \/ SendEot
    \/ \E b \in Blocks : SendBlock(b)

Spec == Init /\ [][Next]_vars

-------------------------------------------------------------------------------
(* Properties                                                              *)

\* The handlers that were attached and not removed each handle every data frame once, in
\* the order they were attached (transmitter.h:233-235), and the receiver gets what the
\* last of them made of the block and its number, never a byte that an earlier frame left
\* in the buffer.  Order is kept as long as no handler is attached into the slot of one
\* that was removed.
Attached == [i \in DOMAIN handles |-> handles[i].callback]
Made(b, callback) ==
    CASE callback = "trim" /\ Len(b) > 1 -> Front(b)
      [] callback = "grow" -> Append(b, 0)
      [] OTHER -> b
Handled(b, callbacks) ==
    LET made[i \in 0..Len(callbacks)] == IF i = 0 THEN b ELSE Made(made[i - 1], callbacks[i])
    IN  made[Len(callbacks)]
Expected == Handled(block, Attached)
ReceivedAsAttached ==
    (kind = "data" /\ ~gap) =>
        /\ Payload(air) = Expected
        /\ "number" \in Range(Attached) => ExtractFrameNumber(air.mac) = count - 1

\* Control frames are recognised whatever the frame before them left in the buffer, and
\* data is never taken for control, unless its payload is exactly CtrlSize bytes that all
\* have the value of one (receiver.c:231-252): such a block no receiver can tell apart.
KindsKnown ==
    /\ kind \in {"preamble", "eot"} => CheckFrameControl(air) = kind
    /\ kind = "data" /\ Expected \notin {Control(Eot), Control(Preamble)} /\ ~gap
       => CheckFrameControl(air) = "none"

\* Each field of the frame control word holds what its setting says, cut to the width of
\* the field, and no setting reaches another field (ieee80211.h:157-161); the setting
\* more_frag reaches none at all.  The rate on the air is what was set, up to the 127 Mbps
\* that a byte of half megabits can hold (transmitter.c:69).  The number never reaches the
\* first two bytes of addr1, which a driver needs (transmitter.c:115-119).
FieldsControlled ==
    kind # "nothing" =>
        /\ \A f \in DOMAIN Mask : air.mac.frame_control \cap Mask[f] =
                                  IF f = "more_frag" THEN {} ELSE tx.fctl[f] \cap Mask[f]
        /\ tx.rtap_rate_mbps < 128 => air.rtap.rate = 2 * tx.rtap_rate_mbps
        /\ air.mac.addr1[1] # 0 /\ air.mac.addr1[2] # 0
===============================================================================
