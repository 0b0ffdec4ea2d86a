---------------------------- MODULE FramePathProofs ----------------------------
(***************************************************************************)
(* Theorems about FramePath, for every size of the buffer, the pipelines   *)
(* and the control data: what the receiver takes out of a frame, how it    *)
(* tells control frames from data, and what the header holds.              *)
(*                                                                         *)
(* What a pipeline makes of a frame, what is expected of the handlers and  *)
(* the frame control word are recursive functions on 0..n.  That they are  *)
(* what their equations say, and that something holds of all their values, *)
(* is shown by induction over a set of numbers: the least number outside   *)
(* of it would be preceded by one inside.                                  *)
(***************************************************************************)
EXTENDS FramePath, WellFoundedInduction, SequenceTheorems, TLAPS

-------------------------------------------------------------------------------
(* Induction over a set.                                                   *)

LEMMA LeastNumber ==
    ASSUME NEW T, T \subseteq Nat, T # {}
    PROVE  \E k \in T : \A m \in T : k <= m
<1> DEFINE R == OpToRel(<, Nat)
<1>1. IsWellFoundedOn(R, Nat)
  BY NatLessThanWellFounded
<1>2. \A i, j \in Nat : <<i, j>> \in R <=> i < j
  BY DEF OpToRel
<1> HIDE DEF R
<1>3. \E k \in T : \A m \in T : ~(<<m, k>> \in R)
  BY <1>1, WFMin
<1>4. PICK k \in T : \A m \in T : ~(<<m, k>> \in R)
  BY <1>3
<1>5. \A m \in T : ~(m < k) /\ m \in Nat /\ k \in Nat
  BY <1>2, <1>4
<1> QED
  BY <1>5

LEMMA UpTo ==
    ASSUME NEW n \in Nat, NEW T, 0 \in T, \A i \in 1..n : i - 1 \in T => i \in T
    PROVE  \A i \in 0..n : i \in T
<1> DEFINE S == {i \in 0..n : i \notin T}
<1> SUFFICES ASSUME S # {} PROVE FALSE
  OBVIOUS
<1>1. S \subseteq Nat
  OBVIOUS
<1>2. PICK k \in S : \A m \in S : k <= m
  <2> HIDE DEF S
  <2> QED
    BY <1>1, LeastNumber
<1>3. k # 0 /\ k \in 1..n /\ k \notin T /\ k - 1 \in 0..n /\ ~(k <= k - 1)
  BY <1>2
<1>4. k - 1 \in T
  BY <1>2, <1>3
<1> QED
  BY <1>3, <1>4

\* A recursive function on 0..n is what its equation says: its values are found one by one.
LEMMA RunIs ==
    ASSUME NEW pipeline, NEW frame, NEW n
    PROVE  \E run : /\ run[0] = frame /\ InvokeHandlers(pipeline, frame, n) = run[HandlerMax]
                    /\ \A i \in 1..HandlerMax : run[i] = Call(run[i - 1], pipeline[i], n)
<1>0. HandlerMax \in Nat
  BY PathAssumption
<1> DEFINE T == {k \in 0..HandlerMax : \E g :
                    g = [i \in 0..k |-> IF i = 0 THEN frame ELSE Call(g[i - 1], pipeline[i], n)]}
<1>1. 0 \in T
  <2> DEFINE g == [i \in 0..0 |-> frame]
  <2>1. g = [i \in 0..0 |-> IF i = 0 THEN frame ELSE Call(g[i - 1], pipeline[i], n)]
    OBVIOUS
  <2> HIDE DEF g
  <2>2. \E f : f = [i \in 0..0 |-> IF i = 0 THEN frame ELSE Call(f[i - 1], pipeline[i], n)]
    BY <2>1
  <2>3. 0 \in 0..HandlerMax
    BY <1>0
  <2> QED
    BY <2>2, <2>3
<1>2. ASSUME NEW k \in 1..HandlerMax, k - 1 \in T PROVE k \in T
  <2>1. PICK g : g = [i \in 0..(k - 1) |-> IF i = 0 THEN frame ELSE Call(g[i - 1], pipeline[i], n)]
    BY <1>2
  <2> DEFINE h == [i \in 0..k |-> IF i = 0 THEN frame ELSE Call(g[i - 1], pipeline[i], n)]
  <2>2. \A i \in 0..(k - 1) : g[i] = IF i = 0 THEN frame ELSE Call(g[i - 1], pipeline[i], n)
    BY <2>1
  <2>3. \A i \in 0..(k - 1) : h[i] = g[i]
    BY <2>2
  <2>4. \A i \in 0..k : i # 0 => h[i - 1] = g[i - 1]
    <3> HIDE DEF h
    <3> QED
      BY <2>3
  <2>5. h = [i \in 0..k |-> IF i = 0 THEN frame ELSE Call(h[i - 1], pipeline[i], n)]
    BY <2>4
  <2> HIDE DEF h
  <2>6. \E f : f = [i \in 0..k |-> IF i = 0 THEN frame ELSE Call(f[i - 1], pipeline[i], n)]
    BY <2>5
  <2>7. k \in 0..HandlerMax
    BY <1>0
  <2> QED
    BY <2>6, <2>7
<1>3. HandlerMax \in T
  <2> HIDE DEF T
  <2> QED
    BY <1>0, <1>1, <1>2, UpTo
<1>4. PICK run : run = [i \in 0..HandlerMax |-> IF i = 0 THEN frame ELSE Call(run[i - 1], pipeline[i], n)]
                 /\ InvokeHandlers(pipeline, frame, n) = run[HandlerMax]
  BY <1>3 DEF InvokeHandlers
<1>5. \A i \in 0..HandlerMax : run[i] = IF i = 0 THEN frame ELSE Call(run[i - 1], pipeline[i], n)
  BY <1>4
<1> QED
  BY <1>0, <1>4, <1>5

LEMMA MadeIs ==
    ASSUME NEW b, NEW callbacks, Len(callbacks) \in Nat
    PROVE  \E made : /\ made[0] = b /\ Handled(b, callbacks) = made[Len(callbacks)]
                     /\ \A i \in 1..Len(callbacks) : made[i] = Made(made[i - 1], callbacks[i])
<1> DEFINE N == Len(callbacks)
           T == {k \in 0..N : \E g :
                    g = [i \in 0..k |-> IF i = 0 THEN b ELSE Made(g[i - 1], callbacks[i])]}
<1>0. N \in Nat
  OBVIOUS
<1>1. 0 \in T
  <2> DEFINE g == [i \in 0..0 |-> b]
  <2>1. g = [i \in 0..0 |-> IF i = 0 THEN b ELSE Made(g[i - 1], callbacks[i])]
    OBVIOUS
  <2> HIDE DEF g
  <2>2. \E f : f = [i \in 0..0 |-> IF i = 0 THEN b ELSE Made(f[i - 1], callbacks[i])]
    BY <2>1
  <2>3. 0 \in 0..N
    BY <1>0
  <2> QED
    BY <2>2, <2>3
<1>2. ASSUME NEW k \in 1..N, k - 1 \in T PROVE k \in T
  <2>1. PICK g : g = [i \in 0..(k - 1) |-> IF i = 0 THEN b ELSE Made(g[i - 1], callbacks[i])]
    BY <1>2
  <2> DEFINE h == [i \in 0..k |-> IF i = 0 THEN b ELSE Made(g[i - 1], callbacks[i])]
  <2>2. \A i \in 0..(k - 1) : g[i] = IF i = 0 THEN b ELSE Made(g[i - 1], callbacks[i])
    BY <2>1
  <2>3. \A i \in 0..(k - 1) : h[i] = g[i]
    BY <2>2
  <2>4. \A i \in 0..k : i # 0 => h[i - 1] = g[i - 1]
    <3> HIDE DEF h
    <3> QED
      BY <2>3
  <2>5. h = [i \in 0..k |-> IF i = 0 THEN b ELSE Made(h[i - 1], callbacks[i])]
    BY <2>4
  <2> HIDE DEF h
  <2>6. \E f : f = [i \in 0..k |-> IF i = 0 THEN b ELSE Made(f[i - 1], callbacks[i])]
    BY <2>5
  <2> QED
    BY <2>6
<1>3. N \in T
  <2> HIDE DEF T, N
  <2> QED
    BY <1>0, <1>1, <1>2, UpTo
<1>4. PICK made : made = [i \in 0..N |-> IF i = 0 THEN b ELSE Made(made[i - 1], callbacks[i])]
                  /\ Handled(b, callbacks) = made[N]
  BY <1>3 DEF Handled
<1>5. \A i \in 0..N : made[i] = IF i = 0 THEN b ELSE Made(made[i - 1], callbacks[i])
  BY <1>4
<1> QED
  BY <1>4, <1>5

LEMMA WordIs ==
    ASSUME NEW fctl
    PROVE  \E word : /\ word[0] = {} /\ FrameControl(fctl) = word[10]
                     /\ \A i \in 1..10 :
                            word[i] = SetBits(word[i - 1], Mask[Encoded[i]], fctl[Encoded[i]])
<1> DEFINE Bits(before, i) == SetBits(before, Mask[Encoded[i]], fctl[Encoded[i]])
           T == {k \in 0..10 : \E g :
                    g = [i \in 0..k |-> IF i = 0 THEN {} ELSE Bits(g[i - 1], i)]}
<1>1. 0 \in T
  <2> DEFINE g == [i \in 0..0 |-> {}]
  <2>1. g = [i \in 0..0 |-> IF i = 0 THEN {} ELSE Bits(g[i - 1], i)]
    OBVIOUS
  <2> HIDE DEF g
  <2>2. \E f : f = [i \in 0..0 |-> IF i = 0 THEN {} ELSE Bits(f[i - 1], i)]
    BY <2>1
  <2> QED
    BY <2>2
<1>2. ASSUME NEW k \in 1..10, k - 1 \in T PROVE k \in T
  <2> HIDE DEF Bits
  <2>1. PICK g : g = [i \in 0..(k - 1) |-> IF i = 0 THEN {} ELSE Bits(g[i - 1], i)]
    BY <1>2
  <2> DEFINE h == [i \in 0..k |-> IF i = 0 THEN {} ELSE Bits(g[i - 1], i)]
  <2>2. \A i \in 0..(k - 1) : g[i] = IF i = 0 THEN {} ELSE Bits(g[i - 1], i)
    BY <2>1
  <2>3. \A i \in 0..(k - 1) : h[i] = g[i]
    <3>1. \A i \in 0..(k - 1) : h[i] = IF i = 0 THEN {} ELSE Bits(g[i - 1], i)
      BY DEF h
    <3> HIDE DEF h
    <3> QED
      BY <2>2, <3>1
  <2>4. \A i \in 0..k : i # 0 => h[i - 1] = g[i - 1]
    <3> HIDE DEF h
    <3> QED
      BY <2>3
  <2>5. h = [i \in 0..k |-> IF i = 0 THEN {} ELSE Bits(h[i - 1], i)]
    BY <2>4
  <2> HIDE DEF h
  <2>6. \E f : f = [i \in 0..k |-> IF i = 0 THEN {} ELSE Bits(f[i - 1], i)]
    BY <2>5
  <2> QED
    BY <2>6
<1>3. 10 \in T
  <2> HIDE DEF T
  <2> QED
    BY <1>1, <1>2, UpTo
<1>4. Len(Encoded) = 10
  BY DEF Encoded
<1>5. PICK word : word = [i \in 0..10 |-> IF i = 0 THEN {} ELSE Bits(word[i - 1], i)]
                  /\ FrameControl(fctl) = word[10]
  BY <1>3, <1>4 DEF FrameControl
<1>6. \A i \in 0..10 : word[i] = IF i = 0 THEN {} ELSE Bits(word[i - 1], i)
  <2> HIDE DEF Bits
  <2> QED
    BY <1>5
<1> QED
  BY <1>5, <1>6

-------------------------------------------------------------------------------
(* The frame control word.                                                 *)

LEMMA Masks ==
    /\ \A i, j \in 1..10 : Encoded[i] = Encoded[j] => i = j
    /\ \A i \in 1..10 : Encoded[i] \in DOMAIN Mask /\ Encoded[i] # "more_frag"
    /\ \A f \in DOMAIN Mask : f = "more_frag" \/ \E i \in 1..10 : Encoded[i] = f
    /\ \A f, g \in DOMAIN Mask : f # g => Mask[f] \cap Mask[g] = {}
<1>1. \A i \in 1..10 : i = 1 \/ i = 2 \/ i = 3 \/ i = 4 \/ i = 5 \/ i = 6 \/ i = 7 \/ i = 8
                       \/ i = 9 \/ i = 10
  OBVIOUS
<1>2. DOMAIN Mask = {"protocol_version", "type", "stype", "to_ds", "from_ds", "more_frag", "retry",
                     "power_mgmt", "more_data", "wep", "order"}
  BY DEF Mask
<1>3. \A i, j \in 1..10 : Encoded[i] = Encoded[j] => i = j
  BY <1>1 DEF Encoded
<1>4. \A i \in 1..10 : Encoded[i] \in DOMAIN Mask /\ Encoded[i] # "more_frag"
  BY <1>1, <1>2 DEF Encoded
<1>5. \A f \in DOMAIN Mask : f = "more_frag" \/ \E i \in 1..10 : Encoded[i] = f
  BY <1>2 DEF Encoded
<1>6. \A f, g \in DOMAIN Mask : f # g => Mask[f] \cap Mask[g] = {}
  BY <1>2 DEF Mask
<1> QED
  BY <1>3, <1>4, <1>5, <1>6

\* Every field of the word is its setting, cut to the width of the field; the one field that
\* is never set stays clear (ieee80211.h:157-161, transmitter.c:76-87).
LEMMA WordFields ==
    ASSUME NEW fctl, NEW f \in DOMAIN Mask
    PROVE  FrameControl(fctl) \cap Mask[f] = IF f = "more_frag" THEN {} ELSE fctl[f] \cap Mask[f]
<1>1. PICK word : /\ word[0] = {} /\ FrameControl(fctl) = word[10]
                  /\ \A i \in 1..10 :
                         word[i] = SetBits(word[i - 1], Mask[Encoded[i]], fctl[Encoded[i]])
  BY WordIs
<1> DEFINE T == {k \in 0..10 : word[k] \cap Mask[f] = IF \E j \in 1..k : Encoded[j] = f
                                                       THEN fctl[f] \cap Mask[f] ELSE {}}
<1>2. 0 \in T
  BY <1>1
<1>3. ASSUME NEW k \in 1..10, k - 1 \in T PROVE k \in T
  <2>1. word[k] = (word[k - 1] \ Mask[Encoded[k]]) \cup (fctl[Encoded[k]] \cap Mask[Encoded[k]])
    BY <1>1 DEF SetBits
  <2>2. CASE Encoded[k] = f
    <3>1. word[k] \cap Mask[f] = fctl[f] \cap Mask[f]
      BY <2>1, <2>2
    <3> QED
      BY <2>2, <3>1
  <2>3. CASE Encoded[k] # f
    <3>1. Mask[Encoded[k]] \cap Mask[f] = {}
      BY <2>3, Masks
    <3>2. word[k] \cap Mask[f] = word[k - 1] \cap Mask[f]
      BY <2>1, <3>1
    <3>3. (\E j \in 1..k : Encoded[j] = f) <=> (\E j \in 1..(k - 1) : Encoded[j] = f)
      BY <2>3
    <3> QED
      BY <1>3, <3>2, <3>3
  <2> QED
    BY <2>2, <2>3
<1>4. 10 \in T
  <2> HIDE DEF T
  <2> QED
    BY <1>2, <1>3, UpTo
<1> QED
  BY <1>1, <1>4, Masks

-------------------------------------------------------------------------------
(* The number of a frame.                                                  *)

LEMMA Quotient ==
    ASSUME NEW n \in Nat, NEW b \in Nat \ {0}
    PROVE  /\ n \div b \in Nat /\ n % b \in 0..(b - 1)
           /\ n = b * (n \div b) + (n % b)
OBVIOUS

LEMMA QuotientBelow ==
    ASSUME NEW n \in Nat, NEW b \in Nat \ {0}, NEW m \in Nat, n < b * m
    PROVE  n \div b < m
OBVIOUS

\* The bytes that attach_frame_number writes are those that extract_frame_number reads, for
\* every number that fits four of them.
LEMMA NumberReadBack ==
    ASSUME NEW n \in Nat, n < Byte * (Byte * (Byte * Byte))
    PROVE  LET p == Packed(n) IN ((p[1] * Byte + p[2]) * Byte + p[3]) * Byte + p[4] = n
<1> DEFINE q == Shift(n)
           r == Shift(q)
           s == Shift(r)
<1>0. Byte \in Nat \ {0} /\ Byte * Byte \in Nat /\ Byte * (Byte * Byte) \in Nat
  BY LayoutAssumption
<1>1. q \in Nat /\ n = Byte * q + (n % Byte) /\ q < Byte * (Byte * Byte)
  BY <1>0, Quotient, QuotientBelow DEF Shift
<1> HIDE DEF q
<1>2. r \in Nat /\ q = Byte * r + (q % Byte) /\ r < Byte * Byte
  BY <1>0, <1>1, Quotient, QuotientBelow DEF Shift
<1> HIDE DEF r
<1>3. s \in Nat /\ s < Byte
  BY <1>0, <1>2, QuotientBelow, Quotient DEF Shift
<1>4. r = Byte * s + (r % Byte)
  BY <1>0, <1>2, Quotient DEF Shift
<1> HIDE DEF s
<1>5. s % Byte = s
  BY <1>0, <1>3
<1>6. Packed(n) = <<s % Byte, r % Byte, q % Byte, n % Byte>>
  BY DEF Packed, q, r, s
<1>7. s * Byte + (r % Byte) = r
  BY <1>0, <1>3, <1>4
<1>8. r * Byte + (q % Byte) = q
  BY <1>0, <1>2
<1>9. q * Byte + (n % Byte) = n
  BY <1>0, <1>1
<1> QED
  BY <1>5, <1>6, <1>7, <1>8, <1>9

-------------------------------------------------------------------------------
(* The buffer, the header and what a callback makes of them.               *)

Bytes   == 0..(Byte - 1)
Buffers == [1..(PayloadMax + FcsSize) -> Bytes]
Headers(fctl) ==
    [frame_control : {FrameControl(fctl)}, duration_id : {65535},
     addr1 : {a \in [1..6 -> Bytes] : a[1] = Byte - 1 /\ a[2] = Byte - 1},
     addr2 : {"aa"}, addr3 : {[i \in 1..6 |-> Byte - 1]}, seq_ctrl : {0}]
Frames(fctl) == [mac : Headers(fctl), bytes : Buffers, size : Int]
Pipelines == [Slots -> Callbacks \cup {"none"}]

LEMMA Sizes ==
    /\ Byte \in Nat /\ Byte - 1 \in Bytes /\ 0 \in Bytes /\ FcsSize \in Nat /\ CtrlSize \in Nat
    /\ CtrlSize \in 1..PayloadMax /\ PayloadMax \in Nat /\ HandlerMax \in Nat \ {0}
    /\ Eot \in Bytes /\ Preamble \in Bytes /\ Eot # Preamble /\ Byte - 1 # 0
BY LayoutAssumption, PathAssumption DEF Bytes, Eot, Preamble

LEMMA BufferIsSeq ==
    ASSUME NEW b \in Buffers
    PROVE  b \in Seq(Bytes) /\ Len(b) = PayloadMax + FcsSize
BY Sizes, IsASeq DEF Buffers

LEMMA FunctionIsSeq ==
    ASSUME NEW n \in Nat, NEW S, NEW f \in [1..n -> S]
    PROVE  f \in Seq(S) /\ Len(f) = n
BY IsASeq

\* New bytes go to the front of the buffer and leave the rest of it alone.
LEMMA IntoIs ==
    ASSUME NEW b \in Buffers, NEW new \in Seq(Bytes), Len(new) <= PayloadMax
    PROVE  Into(b, new) \in Buffers /\ \A i \in 1..Len(new) : Into(b, new)[i] = new[i]
<1>1. b \in Seq(Bytes) /\ Len(b) = PayloadMax + FcsSize /\ Len(b) \in Nat
  BY BufferIsSeq, Sizes
<1> DEFINE rest == SubSeq(b, Len(new) + 1, Len(b))
<1>2. rest \in Seq(Bytes) /\ Len(rest) = Len(b) - Len(new)
  BY <1>1, Sizes
<1>3. Into(b, new) = new \o rest
  BY DEF Into
<1> HIDE DEF rest
<1>4. new \o rest \in Seq(Bytes) /\ Len(new \o rest) = PayloadMax + FcsSize
  BY <1>1, <1>2
<1>5. \A i \in 1..Len(new) : (new \o rest)[i] = new[i]
  BY <1>2
<1>6. \A s \in Seq(Bytes) : Len(s) = PayloadMax + FcsSize => s \in Buffers
  BY Sizes DEF Buffers
<1> QED
  BY <1>3, <1>4, <1>5, <1>6

\* What inject_packet sends, and what is left of it without the frame check sequence.
LEMMA PayloadIs ==
    ASSUME NEW b \in Buffers, NEW size \in 0..PayloadMax, NEW frame,
           frame.body = SubSeq(b, 1, size + FcsSize)
    PROVE  /\ Payload(frame) \in Seq(Bytes) /\ Len(Payload(frame)) = size
           /\ \A i \in 1..size : Payload(frame)[i] = b[i]
<1>1. b \in Seq(Bytes) /\ Len(b) = PayloadMax + FcsSize /\ Len(b) \in Nat
  BY BufferIsSeq, Sizes
<1>2. /\ frame.body \in Seq(Bytes) /\ Len(frame.body) = size + FcsSize
      /\ \A i \in 1..(size + FcsSize) : frame.body[i] = b[i]
  BY <1>1, Sizes
<1>3. Payload(frame) = SubSeq(frame.body, 1, size)
  BY <1>2, Sizes DEF Payload
<1> QED
  BY <1>2, <1>3, Sizes

LEMMA HeaderIs ==
    ASSUME NEW fctl
    PROVE  MacHeader(fctl, "aa") \in Headers(fctl)
BY Sizes DEF MacHeader, Headers

LEMMA NumberAttached ==
    ASSUME NEW fctl, NEW m \in Headers(fctl), NEW n \in Nat
    PROVE  LET k == AttachFrameNumber(m, n)
           IN  k \in Headers(fctl) /\ \A i \in 1..4 : k.addr1[i + 2] = Packed(n)[i]
<1> DEFINE first == SubSeq(m.addr1, 1, 2)
           a == first \o Packed(n)
<1>1. m.addr1 \in [1..6 -> Bytes] /\ m.addr1[1] = Byte - 1 /\ m.addr1[2] = Byte - 1
  BY DEF Headers
<1>2. m.addr1 \in Seq(Bytes) /\ Len(m.addr1) = 6
  <2> DEFINE f == m.addr1
  <2>1. f \in [1..6 -> Bytes] /\ 6 \in Nat
    BY <1>1
  <2> HIDE DEF f
  <2>2. f \in Seq(Bytes) /\ Len(f) = 6
    BY <2>1, FunctionIsSeq
  <2> QED
    BY <2>2 DEF f
<1>3. first \in Seq(Bytes) /\ Len(first) = 2 /\ first[1] = Byte - 1 /\ first[2] = Byte - 1
  BY <1>1, <1>2
<1>4. Shift(n) \in Nat /\ Shift(Shift(n)) \in Nat /\ Shift(Shift(Shift(n))) \in Nat
  BY Quotient, LayoutAssumption DEF Shift
<1>5. Packed(n) \in Seq(Bytes) /\ Len(Packed(n)) = 4
  <2>1. \A x \in Nat : x % Byte \in Bytes
    BY LayoutAssumption, Quotient DEF Bytes
  <2> QED
    BY <1>4, <2>1 DEF Packed
<1>6. AttachFrameNumber(m, n) = [m EXCEPT !.addr1 = a]
  BY DEF AttachFrameNumber
<1> HIDE DEF first
<1>7. /\ a \in Seq(Bytes) /\ Len(a) = 6 /\ a[1] = Byte - 1 /\ a[2] = Byte - 1
      /\ \A i \in 1..4 : a[i + 2] = Packed(n)[i]
  <2> DEFINE q == Packed(n)
  <2>1. q \in Seq(Bytes) /\ Len(q) = 4
    BY <1>5
  <2> HIDE DEF q
  <2>2. /\ first \o q \in Seq(Bytes) /\ Len(first \o q) = 6
        /\ \A i \in 1..6 : (first \o q)[i] = IF i <= 2 THEN first[i] ELSE q[i - 2]
    <3>1. /\ first \o q \in Seq(Bytes) /\ Len(first \o q) = Len(first) + Len(q)
          /\ \A i \in 1..(Len(first) + Len(q)) :
                 (first \o q)[i] = IF i <= Len(first) THEN first[i] ELSE q[i - Len(first)]
      BY <1>3, <2>1, ConcatProperties
    <3>2. Len(first) = 2 /\ Len(q) = 4 /\ 2 + 4 = 6
      BY <1>3, <2>1
    <3> QED
      BY <3>1, <3>2
  <2>3. \A i \in 1..4 : i + 2 \in 1..6 /\ ~(i + 2 <= 2) /\ (i + 2) - 2 = i
    OBVIOUS
  <2>4. \A i \in 1..4 : (first \o q)[i + 2] = q[i]
    BY <2>2, <2>3
  <2> QED
    BY <1>3, <2>2, <2>4 DEF q
<1> HIDE DEF a
<1>8. a \in [1..6 -> Bytes]
  BY <1>7, LenProperties
<1> DEFINE A == {x \in [1..6 -> Bytes] : x[1] = Byte - 1 /\ x[2] = Byte - 1}
<1>9. a \in A /\ m.addr1 \in A
  BY <1>1, <1>7, <1>8
<1>10. AttachFrameNumber(m, n) \in Headers(fctl) /\ AttachFrameNumber(m, n).addr1 = a
  <2>1. Headers(fctl) = [frame_control : {FrameControl(fctl)}, duration_id : {65535}, addr1 : A,
                         addr2 : {"aa"}, addr3 : {[i \in 1..6 |-> Byte - 1]}, seq_ctrl : {0}]
    BY DEF Headers
  <2> HIDE DEF A
  <2> QED
    BY <1>6, <1>9, <2>1
<1> QED
  BY <1>7, <1>10

LEMMA CallKeeps ==
    ASSUME NEW fctl, NEW frame \in Frames(fctl), NEW c \in Callbacks \cup {"none"}, NEW n \in Nat
    PROVE  Call(frame, c, n) \in Frames(fctl)
<1>1. CASE c = "number"
  BY <1>1, NumberAttached DEF Call, Frames
<1>2. CASE c = "trim"
  BY <1>2 DEF Call, Frames
<1>3. CASE c = "grow"
  <2>1. [frame.bytes EXCEPT ![frame.size + 1] = 0] \in Buffers
    BY Sizes DEF Frames, Buffers
  <2>2. Call(frame, c, n) = [frame EXCEPT !.bytes = [frame.bytes EXCEPT ![frame.size + 1] = 0],
                                          !.size = frame.size + 1]
    BY <1>3 DEF Call, Frames
  <2>3. frame.size + 1 \in Int
    BY DEF Frames
  <2> QED
    BY <2>1, <2>2, <2>3 DEF Frames
<1>4. CASE c \in {"log", "none"}
  BY <1>4 DEF Call
<1> QED
  BY <1>1, <1>2, <1>3, <1>4, PathAssumption

LEMMA HandlersKeep ==
    ASSUME NEW fctl, NEW frame \in Frames(fctl), NEW p \in Pipelines, NEW n \in Nat
    PROVE  InvokeHandlers(p, frame, n) \in Frames(fctl)
<1>1. PICK run : /\ run[0] = frame /\ InvokeHandlers(p, frame, n) = run[HandlerMax]
                 /\ \A i \in 1..HandlerMax : run[i] = Call(run[i - 1], p[i], n)
  BY RunIs
<1> DEFINE T == {i \in 0..HandlerMax : run[i] \in Frames(fctl)}
<1>2. 0 \in T
  BY <1>1, Sizes
<1>3. ASSUME NEW i \in 1..HandlerMax, i - 1 \in T PROVE i \in T
  <2>1. p[i] \in Callbacks \cup {"none"}
    BY DEF Pipelines, Slots
  <2>2. run[i] \in Frames(fctl)
    BY <1>1, <1>3, <2>1, CallKeeps
  <2> QED
    BY <2>2
<1>4. HandlerMax \in T
  <2> HIDE DEF T
  <2> QED
    BY <1>2, <1>3, UpTo, Sizes
<1> QED
  BY <1>1, <1>4

-------------------------------------------------------------------------------
(* What the header of a frame holds, on the air and in the buffer.         *)

HeaderOf(settings) == RadiotapHeader(settings.rtap_flags, settings.rtap_rate_mbps, settings.rtap_tx_flags)

\* The pipelines hold callbacks, and while frames are sent the buffer has the headers that the
\* settings say and a payload of its length: no handler can have changed that.
BufferInv ==
    /\ pc \in {"idle", "preamble", "data"}
    /\ preinjection \in Pipelines /\ postinjection \in Pipelines
    /\ tx \in Settings /\ payload \in Buffers /\ count \in 0..MaxFrames
    /\ pc # "idle" => mac \in Headers(tx.fctl) /\ rtap = HeaderOf(tx)

\* So has what is on the air.
AirInv == kind # "nothing" => air.mac \in Headers(tx.fctl) /\ air.rtap = HeaderOf(tx)

LEMMA LeastFree ==
    ASSUME NEW p \in Pipelines, Free(p) # {}
    PROVE  /\ Min(Free(p)) \in Slots /\ p[Min(Free(p))] = "none"
           /\ \A i \in Slots : p[i] = "none" => Min(Free(p)) <= i
<1>1. Free(p) \subseteq Nat
  BY Sizes DEF Free, Slots
<1>2. \E k \in Free(p) : \A m \in Free(p) : k <= m
  BY <1>1, LeastNumber
<1>3. Min(Free(p)) \in Free(p) /\ \A m \in Free(p) : Min(Free(p)) <= m
  BY <1>2 DEF Min
<1> QED
  BY <1>3 DEF Free

\* What the preinjection pipeline makes of a block, and what the other one leaves behind.
LEMMA BlockSent ==
    ASSUME BufferInv, NEW b \in Blocks, SendBlock(b)
    PROVE  LET read   == [mac |-> mac, bytes |-> Into(payload, b), size |-> Len(b)]
               before == InvokeHandlers(preinjection, read, count)
           IN  /\ read \in Frames(tx.fctl) /\ before \in Frames(tx.fctl)
               /\ air' = [rtap |-> rtap, mac |-> before.mac,
                          body |-> SubSeq(before.bytes, 1, before.size + FcsSize)]
               /\ mac' \in Headers(tx.fctl) /\ payload' \in Buffers
<1> DEFINE read   == [mac |-> mac, bytes |-> Into(payload, b), size |-> Len(b)]
           before == InvokeHandlers(preinjection, read, count)
           start  == [before EXCEPT !.size = Len(b)]
           after  == InvokeHandlers(postinjection, start, count + 1)
<1>1. Into(payload, b) \in Buffers /\ Len(b) \in Int
  BY IntoIs, PathAssumption DEF BufferInv, Bytes
<1>2. read \in Frames(tx.fctl)
  BY <1>1 DEF BufferInv, SendBlock, Frames
<1>3. count \in Nat /\ count + 1 \in Nat /\ preinjection \in Pipelines /\ postinjection \in Pipelines
  BY PathAssumption DEF BufferInv
<1>4. /\ air' = [rtap |-> rtap, mac |-> before.mac,
                 body |-> SubSeq(before.bytes, 1, before.size + FcsSize)]
      /\ mac' = after.mac /\ payload' = after.bytes
  BY DEF SendBlock, Inject
<1> HIDE DEF read
<1>5. before \in Frames(tx.fctl)
  BY <1>2, <1>3, HandlersKeep
<1> HIDE DEF before
<1>6. start \in Frames(tx.fctl)
  BY <1>1, <1>5 DEF Frames
<1> HIDE DEF start
<1>7. after \in Frames(tx.fctl)
  BY <1>3, <1>6, HandlersKeep
<1> HIDE DEF after
<1>8. mac' \in Headers(tx.fctl) /\ payload' \in Buffers
  BY <1>4, <1>7 DEF Frames
<1> QED
  BY <1>2, <1>4, <1>5, <1>8 DEF read, before

LEMMA ControlSent ==
    ASSUME BufferInv, NEW value \in Bytes, NEW name, SendControlFrame(value, name)
    PROVE  /\ payload' \in Buffers
           /\ air' = [rtap |-> rtap, mac |-> mac, body |-> SubSeq(payload', 1, CtrlSize + FcsSize)]
           /\ \A i \in 1..CtrlSize : payload'[i] = value
<1> DEFINE c == Control(value)
<1>1. c \in [1..CtrlSize -> Bytes] /\ \A i \in 1..CtrlSize : c[i] = value
  BY DEF Control
<1>2. payload' = Into(payload, c)
      /\ air' = [rtap |-> rtap, mac |-> mac, body |-> SubSeq(payload', 1, CtrlSize + FcsSize)]
  BY DEF SendControlFrame, Inject
<1> HIDE DEF c
<1>3. c \in Seq(Bytes) /\ Len(c) = CtrlSize
  BY <1>1, Sizes, FunctionIsSeq
<1>4. Into(payload, c) \in Buffers /\ \A i \in 1..CtrlSize : Into(payload, c)[i] = c[i]
  BY <1>3, Sizes, IntoIs DEF BufferInv
<1> QED
  BY <1>1, <1>2, <1>4

LEMMA BufferInit == Init => BufferInv /\ AirInv
BY Sizes, PathAssumption
   DEF Init, BufferInv, AirInv, Pipelines, Empty, Zeros, Buffers

LEMMA PipelineKept ==
    ASSUME NEW p \in Pipelines
    PROVE  \A i : Removed(p, i) \in Pipelines
BY DEF Removed, Pipelines, Empty

LEMMA BufferStep ==
    ASSUME BufferInv, AirInv, [Next]_vars
    PROVE  BufferInv' /\ AirInv'
<1>1. ASSUME NEW c \in Callbacks, AttachPreinject(c) PROVE BufferInv' /\ AirInv'
  <2>1. preinjection' \in Pipelines
    <3>1. \/ preinjection' = preinjection
          \/ preinjection' = [preinjection EXCEPT ![Min(Free(preinjection))] = c]
      BY <1>1 DEF AttachPreinject
    <3>2. preinjection \in Pipelines
      BY DEF BufferInv
    <3>3. [preinjection EXCEPT ![Min(Free(preinjection))] = c] \in Pipelines
      BY <3>2 DEF Pipelines
    <3> QED
      BY <3>1, <3>2, <3>3
  <2> QED
    BY <1>1, <2>1 DEF AttachPreinject, Change, buffer, BufferInv, AirInv
<1>2. ASSUME NEW c \in Callbacks, AttachPostinject(c) PROVE BufferInv' /\ AirInv'
  <2>1. postinjection' \in Pipelines
    <3>1. postinjection' = [postinjection EXCEPT ![Min(Free(postinjection))] = c]
      BY <1>2 DEF AttachPostinject
    <3>2. postinjection \in Pipelines
      BY DEF BufferInv
    <3>3. [postinjection EXCEPT ![Min(Free(postinjection))] = c] \in Pipelines
      BY <3>2 DEF Pipelines
    <3> QED
      BY <3>1, <3>2, <3>3
  <2> QED
    BY <1>2, <2>1 DEF AttachPostinject, Change, buffer, BufferInv, AirInv
<1>3. ASSUME NEW i \in 0..(HandlerMax + 1), RemovePreinject(i) PROVE BufferInv' /\ AirInv'
  BY <1>3, PipelineKept DEF RemovePreinject, Change, buffer, BufferInv, AirInv
<1>4. ASSUME NEW i \in 0..(HandlerMax + 1), RemovePostinject(i) PROVE BufferInv' /\ AirInv'
  BY <1>4, PipelineKept DEF RemovePostinject, Change, buffer, BufferInv, AirInv
<1>5. CASE Begin
  <2>1. mac' \in Headers(tx.fctl) /\ rtap' = HeaderOf(tx)
    BY <1>5, HeaderIs DEF Begin, HeaderOf
  <2>2. Zeros \in Buffers /\ 0 \in 0..MaxFrames
    BY Sizes, PathAssumption DEF Zeros, Buffers
  <2> QED
    BY <1>5, <2>1, <2>2 DEF Begin, table, BufferInv, AirInv
<1>6. ASSUME NEW value \in Bytes, NEW name, SendControlFrame(value, name), pc # "idle",
             pc' \in {"idle", "data"}
      PROVE  BufferInv' /\ AirInv'
  <2>1. payload' \in Buffers /\ air'.mac = mac /\ air'.rtap = rtap
    BY <1>6, ControlSent
  <2> QED
    BY <1>6, <2>1 DEF SendControlFrame, table, BufferInv, AirInv
<1>7. ASSUME NEW b \in Blocks, SendBlock(b) PROVE BufferInv' /\ AirInv'
  <2>1. /\ mac' \in Headers(tx.fctl) /\ payload' \in Buffers
        /\ air'.mac \in Headers(tx.fctl) /\ air'.rtap = rtap
    <3> DEFINE read == [mac |-> mac, bytes |-> Into(payload, b), size |-> Len(b)]
               before == InvokeHandlers(preinjection, read, count)
    <3>1. /\ before \in Frames(tx.fctl) /\ mac' \in Headers(tx.fctl) /\ payload' \in Buffers
          /\ air' = [rtap |-> rtap, mac |-> before.mac,
                     body |-> SubSeq(before.bytes, 1, before.size + FcsSize)]
      BY <1>7, BlockSent
    <3> HIDE DEF before
    <3> QED
      BY <3>1 DEF Frames
  <2>2. count' \in 0..MaxFrames
    BY <1>7, PathAssumption DEF SendBlock, BufferInv
  <2> QED
    BY <1>7, <2>1, <2>2 DEF SendBlock, table, BufferInv, AirInv
<1>8. CASE UNCHANGED vars
  BY <1>8 DEF vars, table, buffer, BufferInv, AirInv
<1> QED
  BY <1>1, <1>2, <1>3, <1>4, <1>5, <1>6, <1>7, <1>8, Sizes DEF Next, SendPreamble, SendEot

\* No setting of a field reaches another, the rate is what was set as far as its byte can hold
\* it, and the first bytes of addr1 are never those of a number, whatever the handlers did
\* (ieee80211.h:157-161, transmitter.c:69, 115-119).
THEOREM HeaderIsAsSet == Spec => []FieldsControlled
<1>1. BufferInv /\ AirInv => FieldsControlled
  <2> SUFFICES ASSUME BufferInv, AirInv, kind # "nothing" PROVE FieldsControlled
    BY DEF FieldsControlled
  <2>1. air.mac \in Headers(tx.fctl) /\ air.rtap = HeaderOf(tx) /\ tx \in Settings
    BY DEF AirInv, BufferInv
  <2>2. \A f \in DOMAIN Mask : air.mac.frame_control \cap Mask[f] =
                               IF f = "more_frag" THEN {} ELSE tx.fctl[f] \cap Mask[f]
    BY <2>1, WordFields DEF Headers
  <2>3. ASSUME tx.rtap_rate_mbps < 128 PROVE air.rtap.rate = 2 * tx.rtap_rate_mbps
    <3>1. tx.rtap_rate_mbps \in Nat
      BY <2>1, PathAssumption
    <3>2. (tx.rtap_rate_mbps * 2) % 256 = 2 * tx.rtap_rate_mbps
      BY <2>3, <3>1
    <3> QED
      BY <2>1, <3>2 DEF HeaderOf, RadiotapHeader
  <2>4. air.mac.addr1[1] # 0 /\ air.mac.addr1[2] # 0
    BY <2>1, Sizes DEF Headers
  <2> QED
    BY <2>2, <2>3, <2>4 DEF FieldsControlled
<1> QED
  BY <1>1, BufferInit, BufferStep, PTL DEF Spec

-------------------------------------------------------------------------------
(* What the handlers make of a block.                                      *)

Handles == [index : Slots, callback : Callbacks]

\* Each handle names the slot of its callback, and each slot that is not empty has one handle.
\* The indexes rise in the order of attachment as long as no removed handler left a gap that
\* was filled again, and they count up from 1 as long as none was removed.
TableInv ==
    /\ handles \in Seq(Handles) /\ gap \in BOOLEAN /\ removed \in BOOLEAN
    /\ \A j \in 1..Len(handles) : preinjection[handles[j].index] = handles[j].callback
    /\ \A i \in Slots : preinjection[i] # "none" => \E j \in 1..Len(handles) : handles[j].index = i
    /\ \A j, k \in 1..Len(handles) : handles[j].index = handles[k].index => j = k
    /\ ~gap => \A j, k \in 1..Len(handles) : j < k => handles[j].index < handles[k].index
    /\ ~removed => \A j \in 1..Len(handles) : handles[j].index = j

\* What the receiver takes out of the last frame is what was meant to be sent.
DataInv ==
    /\ kind = "data" => pc = "data"
    /\ kind = "data" /\ ~gap => Expected \in Seq(Bytes) /\ Payload(air) = Expected
    /\ kind \in {"preamble", "eot"} =>
           /\ Len(Payload(air)) = CtrlSize
           /\ \A i \in 1..CtrlSize : Payload(air)[i] = IF kind = "eot" THEN Eot ELSE Preamble
NumberInv ==
    /\ kind = "data" => pc = "data"
    /\ kind = "data" /\ "number" \in Range(Attached) => ExtractFrameNumber(air.mac) = count - 1

\* The sizes that invoke_handlers asserts of what a handler returns (transmitter.c:220-224):
\* no handler makes a payload that has no room.
Roomy == "grow" \in Callbacks => \A b \in Blocks : Len(b) + HandlerMax <= PayloadMax

\* The count of frames of a transmission, which has four bytes, never starts again at zero.
NumbersFit == MaxFrames <= Byte * (Byte * (Byte * Byte))

LEMMA RemoveAtIs ==
    ASSUME NEW S, NEW s \in Seq(S), NEW d \in 1..Len(s)
    PROVE  /\ RemoveAt(s, d) \in Seq(S) /\ Len(RemoveAt(s, d)) = Len(s) - 1
           /\ \A k \in 1..(Len(s) - 1) : RemoveAt(s, d)[k] = s[IF k < d THEN k ELSE k + 1]
<1> DEFINE a == SubSeq(s, 1, d - 1)
           b == SubSeq(s, d + 1, Len(s))
<1>1. /\ a \in Seq(S) /\ Len(a) = d - 1 /\ Len(s) \in Nat /\ d \in Nat \ {0}
      /\ \A k \in 1..(d - 1) : a[k] = s[k]
  OBVIOUS
<1>2. /\ b \in Seq(S) /\ Len(b) = Len(s) - d
      /\ \A k \in 1..(Len(s) - d) : b[k] = s[k + d]
  OBVIOUS
<1> HIDE DEF a, b
<1>3. /\ a \o b \in Seq(S) /\ Len(a \o b) = Len(a) + Len(b)
      /\ \A k \in 1..(Len(a) + Len(b)) : (a \o b)[k] = IF k <= Len(a) THEN a[k] ELSE b[k - Len(a)]
  BY <1>1, <1>2, ConcatProperties
<1>4. ASSUME NEW k \in 1..(Len(s) - 1) PROVE (a \o b)[k] = s[IF k < d THEN k ELSE k + 1]
  <2>1. CASE k < d
    BY <1>1, <1>2, <1>3, <2>1
  <2>2. CASE k >= d
    <3>1. (a \o b)[k] = b[k - (d - 1)] /\ k - (d - 1) \in 1..(Len(s) - d)
      BY <1>1, <1>2, <1>3, <2>2
    <3>2. (k - (d - 1)) + d = k + 1 /\ ~(k < d)
      BY <1>1, <2>2
    <3> QED
      BY <1>2, <3>1, <3>2
  <2>3. k < d \/ k >= d
    BY <1>1
  <2> QED
    BY <2>1, <2>2, <2>3
<1>5. RemoveAt(s, d) = a \o b
  BY DEF RemoveAt, a, b
<1>6. Len(a \o b) = Len(s) - 1
  BY <1>1, <1>2, <1>3
<1> QED
  BY <1>3, <1>4, <1>5, <1>6

LEMMA TableInit == Init => TableInv
<1> SUFFICES ASSUME Init PROVE TableInv
  OBVIOUS
<1>1. handles = << >> /\ Len(handles) = 0 /\ handles \in Seq(Handles) /\ 1..Len(handles) = {}
  BY DEF Init
<1>2. gap \in BOOLEAN /\ removed \in BOOLEAN /\ \A i \in Slots : preinjection[i] = "none"
  BY DEF Init, Empty
<1> QED
  BY <1>1, <1>2 DEF TableInv

LEMMA TableAttach ==
    ASSUME BufferInv, TableInv, NEW c \in Callbacks, AttachPreinject(c)
    PROVE  TableInv'
<1>1. CASE Free(preinjection) = {}
  BY <1>1 DEF AttachPreinject, Change, TableInv
<1>2. CASE Free(preinjection) # {}
  <2> DEFINE L == Len(handles)
  <2>1. L \in Nat /\ handles \in Seq(Handles) /\ preinjection \in Pipelines
    BY DEF TableInv, BufferInv
  <2>2. PICK i \in Slots :
          /\ preinjection[i] = "none" /\ \A s \in Slots : preinjection[s] = "none" => i <= s
          /\ preinjection' = [preinjection EXCEPT ![i] = c]
          /\ handles' = Append(handles, [index |-> i, callback |-> c]) /\ gap' = removed
    <3>1. /\ Min(Free(preinjection)) \in Slots /\ preinjection[Min(Free(preinjection))] = "none"
          /\ \A s \in Slots : preinjection[s] = "none" => Min(Free(preinjection)) <= s
      BY <1>2, <2>1, LeastFree
    <3> QED
      BY <1>2, <3>1 DEF AttachPreinject
  <2>3. removed' = removed
    BY DEF AttachPreinject
  <2> DEFINE h == [index |-> i, callback |-> c]
  <2>4. h \in Handles /\ h.index = i /\ h.callback = c
    BY <2>2 DEF Handles
  <2> HIDE DEF h
  <2>5. /\ handles' \in Seq(Handles) /\ Len(handles') = L + 1 /\ handles'[L + 1] = h
        /\ \A j \in 1..L : handles'[j] = handles[j] /\ handles[j] \in Handles
    BY <2>1, <2>2, <2>4, AppendProperties DEF h
  <2>6. \A j \in 1..L : handles[j].index \in Slots /\ preinjection[handles[j].index] # "none"
                        /\ handles[j].index # i
    BY <2>2, <2>5, PathAssumption DEF TableInv, Handles
  <2>7. \A s \in Slots : preinjection'[s] = IF s = i THEN c ELSE preinjection[s]
    BY <2>1, <2>2 DEF Pipelines
  <2>8. \A j \in 1..(L + 1) : j \in 1..L \/ j = L + 1
    BY <2>1
  <2>9. \A j \in 1..Len(handles') : preinjection'[handles'[j].index] = handles'[j].callback
    BY <2>2, <2>4, <2>5, <2>6, <2>7, <2>8 DEF TableInv
  <2>10. \A s \in Slots : preinjection'[s] # "none" =>
                          \E j \in 1..Len(handles') : handles'[j].index = s
    <3> SUFFICES ASSUME NEW s \in Slots, preinjection'[s] # "none"
                 PROVE  \E j \in 1..Len(handles') : handles'[j].index = s
      OBVIOUS
    <3>1. CASE s = i
      BY <2>1, <2>4, <2>5, <3>1
    <3>2. CASE s # i
      <4>1. PICK j \in 1..L : handles[j].index = s
        BY <2>7, <3>2 DEF TableInv
      <4>2. j \in 1..(L + 1)
        BY <2>1
      <4> QED
        BY <2>5, <4>1, <4>2
    <3> QED
      BY <3>1, <3>2
  <2>11. \A j, k \in 1..Len(handles') : handles'[j].index = handles'[k].index => j = k
    BY <2>4, <2>5, <2>6, <2>8 DEF TableInv
  <2>12. ASSUME ~removed PROVE i = L + 1
    <3>1. \A j \in 1..L : handles[j].index = j
      BY <2>12 DEF TableInv
    <3>2. i \notin 1..L
      BY <2>6, <3>1
    <3>3. i \in Nat \ {0} /\ i <= HandlerMax /\ HandlerMax \in Nat
      BY Sizes DEF Slots
    <3>4. i >= L + 1 /\ L + 1 \in Slots
      BY <2>1, <3>2, <3>3 DEF Slots
    <3>5. preinjection[L + 1] = "none"
      <4> SUFFICES ASSUME preinjection[L + 1] # "none" PROVE FALSE
        OBVIOUS
      <4>1. \E j \in 1..L : handles[j].index = L + 1
        BY <3>4 DEF TableInv
      <4> QED
        BY <2>1, <3>1, <4>1
    <3>6. i <= L + 1
      BY <2>2, <3>4, <3>5
    <3> QED
      BY <2>1, <3>3, <3>4, <3>6
  <2>13. ~removed => \A j \in 1..Len(handles') : handles'[j].index = j
    BY <2>4, <2>5, <2>8, <2>12 DEF TableInv
  <2>14. ~gap' => \A j, k \in 1..Len(handles') : j < k => handles'[j].index < handles'[k].index
    BY <2>2, <2>13
  <2> QED
    BY <2>2, <2>3, <2>5, <2>9, <2>10, <2>11, <2>13, <2>14 DEF TableInv
<1> QED
  BY <1>1, <1>2

LEMMA TableRemove ==
    ASSUME BufferInv, TableInv, NEW index \in 0..(HandlerMax + 1), RemovePreinject(index)
    PROVE  TableInv'
<1> DEFINE L == Len(handles)
<1>1. /\ L \in Nat /\ handles \in Seq(Handles) /\ preinjection \in Pipelines
      /\ DOMAIN handles = 1..L /\ \A j \in 1..L : handles[j] \in Handles
  BY DEF TableInv, BufferInv
<1>2. /\ gap' = (index # 0 /\ gap) /\ removed' = (index # 0 /\ (removed \/ preinjection' # preinjection))
      /\ preinjection' = Removed(preinjection, index)
  BY DEF RemovePreinject
<1>3. \A j \in 1..L : handles[j].index \in Slots /\ preinjection[handles[j].index] # "none"
  BY <1>1, PathAssumption DEF TableInv, Handles
<1>4. CASE index = 0
  <2>1. handles' = << >> /\ preinjection' = Empty /\ gap' = FALSE /\ removed' = FALSE
    BY <1>2, <1>4 DEF RemovePreinject, Removed
  <2>2. Len(handles') = 0 /\ handles' \in Seq(Handles) /\ 1..Len(handles') = {}
    BY <2>1
  <2>3. \A i \in Slots : preinjection'[i] = "none"
    BY <2>1 DEF Empty
  <2> QED
    BY <2>1, <2>2, <2>3 DEF TableInv
<1>5. CASE index # 0 /\ Holders(index) = {}
  <2>1. handles' = handles /\ gap' = gap
    BY <1>2, <1>5 DEF RemovePreinject, TableInv
  <2>2. \A j \in 1..L : handles[j].index # index
    BY <1>1, <1>5 DEF Holders
  <2>3. preinjection' = preinjection
    <3>1. CASE index \in Slots
      <4>1. preinjection[index] = "none"
        BY <2>2, <3>1 DEF TableInv
      <4> QED
        BY <1>1, <1>2, <1>5, <3>1, <4>1 DEF Removed, Pipelines
    <3>2. CASE index \notin Slots
      BY <1>2, <1>5, <3>2 DEF Removed
    <3> QED
      BY <3>1, <3>2
  <2>4. removed' = removed
    BY <1>2, <1>5, <2>3 DEF TableInv
  <2> QED
    BY <2>1, <2>3, <2>4 DEF TableInv
<1>6. CASE index # 0 /\ Holders(index) # {}
  <2>1. PICK d \in 1..L : handles[d].index = index /\ handles' = RemoveAt(handles, d)
    <3>1. handles' = RemoveAt(handles, CHOOSE j \in Holders(index) : TRUE)
      BY <1>6 DEF RemovePreinject
    <3>2. (CHOOSE j \in Holders(index) : TRUE) \in Holders(index)
      BY <1>6
    <3> QED
      BY <1>1, <3>1, <3>2 DEF Holders
  <2> DEFINE Old(k) == IF k < d THEN k ELSE k + 1
  <2>2. /\ handles' \in Seq(Handles) /\ Len(handles') = L - 1
        /\ \A k \in 1..(L - 1) : handles'[k] = handles[Old(k)]
    BY <1>1, <2>1, RemoveAtIs
  <2>3. \A k \in 1..(L - 1) : Old(k) \in 1..L /\ Old(k) # d
    BY <1>1
  <2>4. \A j, k \in 1..(L - 1) : j < k => Old(j) < Old(k)
    BY <1>1
  <2>5. \A j, k \in 1..(L - 1) : Old(j) = Old(k) => j = k
    BY <1>1
  <2>6. \A i \in 1..L : i # d => \E k \in 1..(L - 1) : Old(k) = i
    <3> SUFFICES ASSUME NEW i \in 1..L, i # d PROVE \E k \in 1..(L - 1) : Old(k) = i
      OBVIOUS
    <3>1. CASE i < d
      <4>1. i \in 1..(L - 1) /\ Old(i) = i
        BY <1>1, <3>1
      <4> QED
        BY <4>1
    <3>2. CASE i > d
      <4>1. i - 1 \in 1..(L - 1) /\ Old(i - 1) = i
        BY <1>1, <3>2
      <4> QED
        BY <4>1
    <3>3. i < d \/ i > d
      OBVIOUS
    <3> QED
      BY <3>1, <3>2, <3>3
  <2> HIDE DEF Old
  <2>7. index \in Slots /\ preinjection' = [preinjection EXCEPT ![index] = "none"]
    BY <1>2, <1>3, <1>6, <2>1 DEF Removed
  <2>8. \A i \in Slots : preinjection'[i] = IF i = index THEN "none" ELSE preinjection[i]
    BY <1>1, <2>7 DEF Pipelines
  <2>9. removed' /\ gap' = gap
    <3>1. preinjection'[index] # preinjection[index]
      BY <1>3, <2>1, <2>7, <2>8
    <3> QED
      BY <1>2, <1>6, <3>1 DEF TableInv
  <2>10. \A k \in 1..(L - 1) : /\ handles'[k].index = handles[Old(k)].index
                               /\ handles'[k].callback = handles[Old(k)].callback
                               /\ handles'[k].index # index /\ handles'[k].index \in Slots
    BY <1>3, <2>1, <2>2, <2>3 DEF TableInv
  <2>11. \A k \in 1..(L - 1) : preinjection'[handles'[k].index] = handles'[k].callback
    BY <2>3, <2>8, <2>10 DEF TableInv
  <2>12. \A i \in Slots : preinjection'[i] # "none" => \E k \in 1..(L - 1) : handles'[k].index = i
    <3> SUFFICES ASSUME NEW i \in Slots, preinjection'[i] # "none"
                 PROVE  \E k \in 1..(L - 1) : handles'[k].index = i
      OBVIOUS
    <3>1. i # index /\ preinjection[i] # "none"
      BY <2>8
    <3>2. PICK j \in 1..L : handles[j].index = i
      BY <3>1 DEF TableInv
    <3>3. j # d
      BY <2>1, <3>1, <3>2
    <3>4. PICK k \in 1..(L - 1) : Old(k) = j
      BY <2>6, <3>3
    <3> QED
      BY <2>10, <3>2, <3>4
  <2>13. \A j, k \in 1..(L - 1) : handles'[j].index = handles'[k].index => j = k
    BY <2>3, <2>5, <2>10 DEF TableInv
  <2>14. ~gap => \A j, k \in 1..(L - 1) : j < k => handles'[j].index < handles'[k].index
    BY <2>3, <2>4, <2>10 DEF TableInv
  <2> QED
    BY <2>2, <2>9, <2>11, <2>12, <2>13, <2>14 DEF TableInv
<1> QED
  BY <1>4, <1>5, <1>6

LEMMA TableStep ==
    ASSUME BufferInv, TableInv, [Next]_vars
    PROVE  TableInv'
<1>1. ASSUME UNCHANGED <<preinjection, handles, gap, removed>> PROVE TableInv'
  BY <1>1 DEF TableInv
<1>2. ASSUME NEW c \in Callbacks, AttachPostinject(c) PROVE TableInv'
  BY <1>1, <1>2 DEF AttachPostinject
<1>3. ASSUME NEW i \in 0..(HandlerMax + 1), RemovePostinject(i) PROVE TableInv'
  BY <1>1, <1>3 DEF RemovePostinject
<1>4. CASE Begin \/ SendPreamble \/ SendEot \/ UNCHANGED vars
  BY <1>1, <1>4 DEF Begin, SendPreamble, SendEot, SendControlFrame, vars, table
<1>5. ASSUME NEW b \in Blocks, SendBlock(b) PROVE TableInv'
  BY <1>1, <1>5 DEF SendBlock, table
<1> QED
  BY <1>2, <1>3, <1>4, <1>5, TableAttach, TableRemove DEF Next

\* A frame holds a block: its size, and its bytes at the front.
Holds(frame, b) == frame.size = Len(b) /\ \A x \in 1..Len(b) : frame.bytes[x] = b[x]

\* Each callback does to the frame what is expected of it, if there is room for one byte more.
LEMMA CallMakes ==
    ASSUME NEW fctl, NEW frame \in Frames(fctl), NEW m \in Seq(Bytes), Len(m) > 0,
           Holds(frame, m), NEW c \in Callbacks, NEW n, Len(m) <= PayloadMax,
           c = "grow" => Len(m) < PayloadMax
    PROVE  /\ Made(m, c) \in Seq(Bytes) /\ Len(Made(m, c)) > 0 /\ Holds(Call(frame, c, n), Made(m, c))
           /\ Len(Made(m, c)) <= IF c = "grow" THEN Len(m) + 1 ELSE Len(m)
<1>0. /\ Len(m) \in Nat /\ frame.size = Len(m) /\ \A x \in 1..Len(m) : frame.bytes[x] = m[x]
      /\ DOMAIN frame.bytes = 1..(PayloadMax + FcsSize)
  BY DEF Holds, Frames, Buffers
<1>1. CASE c = "trim" /\ Len(m) > 1
  <2>1. Made(m, c) = SubSeq(m, 1, Len(m) - 1)
    BY <1>1 DEF Made, Front
  <2>2. /\ Made(m, c) \in Seq(Bytes) /\ Len(Made(m, c)) = Len(m) - 1
        /\ \A x \in 1..(Len(m) - 1) : Made(m, c)[x] = m[x]
    BY <1>0, <1>1, <2>1
  <2>3. Call(frame, c, n).size = Len(m) - 1 /\ Call(frame, c, n).bytes = frame.bytes
    BY <1>0, <1>1 DEF Call, Frames
  <2>4. Holds(Call(frame, c, n), Made(m, c))
    BY <1>0, <2>2, <2>3 DEF Holds
  <2> QED
    BY <1>0, <1>1, <2>2, <2>4
<1>2. CASE c = "grow"
  <2>1. Made(m, c) = Append(m, 0)
    BY <1>2 DEF Made
  <2>2. /\ Append(m, 0) \in Seq(Bytes) /\ Len(Append(m, 0)) = Len(m) + 1
        /\ Append(m, 0)[Len(m) + 1] = 0 /\ \A x \in 1..Len(m) : Append(m, 0)[x] = m[x]
    BY Sizes, AppendProperties
  <2>3. /\ Call(frame, c, n).size = Len(m) + 1
        /\ Call(frame, c, n).bytes = [frame.bytes EXCEPT ![Len(m) + 1] = 0]
    BY <1>0, <1>2 DEF Call, Frames
  <2>4. Len(m) + 1 \in 1..(PayloadMax + FcsSize)
    BY <1>0, <1>2, Sizes
  <2>5. \A x \in 1..(Len(m) + 1) : Call(frame, c, n).bytes[x] = Append(m, 0)[x]
    <3> SUFFICES ASSUME NEW x \in 1..(Len(m) + 1)
                 PROVE  Call(frame, c, n).bytes[x] = Append(m, 0)[x]
      OBVIOUS
    <3>1. CASE x = Len(m) + 1
      BY <1>0, <2>2, <2>3, <2>4, <3>1
    <3>2. CASE x # Len(m) + 1
      <4>1. x \in 1..Len(m) /\ x \in 1..(PayloadMax + FcsSize)
        BY <1>0, <2>4, <3>2, Sizes
      <4> QED
        BY <1>0, <2>2, <2>3, <3>2, <4>1
    <3> QED
      BY <3>1, <3>2
  <2> QED
    BY <1>0, <1>2, <2>1, <2>2, <2>3, <2>5 DEF Holds
<1>3. CASE c \in {"number", "log"} \/ (c = "trim" /\ ~(Len(m) > 1))
  <2>1. Made(m, c) = m
    BY <1>3 DEF Made
  <2>2. Call(frame, c, n).size = frame.size /\ Call(frame, c, n).bytes = frame.bytes
    BY <1>0, <1>3 DEF Call, Frames
  <2> QED
    BY <1>0, <1>3, <2>1, <2>2 DEF Holds
<1> QED
  BY <1>1, <1>2, <1>3, PathAssumption

\* Slot by slot, the pipeline does what the handlers do in the order they were attached.
LEMMA PipelineMakes ==
    ASSUME Roomy, TableInv, preinjection \in Pipelines, ~gap, NEW b \in Blocks, NEW n \in Nat,
           NEW fctl, NEW read \in Frames(fctl), Holds(read, b)
    PROVE  LET before == InvokeHandlers(preinjection, read, n)
               made   == Handled(b, Attached)
           IN  made \in Seq(Bytes) /\ Len(made) \in 1..PayloadMax /\ Holds(before, made)
<1> DEFINE L == Len(handles)
           More(i) == IF "grow" \in Callbacks THEN i ELSE 0
<1>1. /\ L \in Nat /\ DOMAIN Attached = 1..L /\ Len(Attached) = L
      /\ \A j \in 1..L : /\ handles[j] \in Handles /\ handles[j].index \in Slots
                         /\ handles[j].callback \in Callbacks
                         /\ Attached[j] = handles[j].callback
  <2>1. L \in Nat /\ DOMAIN handles = 1..L /\ \A j \in 1..L : handles[j] \in Handles
    BY DEF TableInv
  <2>2. Attached = [j \in 1..L |-> handles[j].callback]
    BY <2>1 DEF Attached
  <2>3. Attached \in [1..L -> Callbacks]
    BY <2>1, <2>2 DEF Handles
  <2>4. DOMAIN Attached = 1..L /\ Len(Attached) = L
    BY <2>1, <2>3, FunctionIsSeq
  <2> QED
    BY <2>1, <2>2, <2>4 DEF Handles
<1>2. PICK run : /\ run[0] = read /\ InvokeHandlers(preinjection, read, n) = run[HandlerMax]
                 /\ \A i \in 1..HandlerMax : run[i] = Call(run[i - 1], preinjection[i], n)
  BY RunIs
<1>3. PICK made : /\ made[0] = b /\ Handled(b, Attached) = made[L]
                  /\ \A j \in 1..L : made[j] = Made(made[j - 1], Attached[j])
  <2> DEFINE a == Attached
  <2>1. Len(a) \in Nat /\ Len(a) = L
    BY <1>1
  <2> HIDE DEF a
  <2>2. \E made : /\ made[0] = b /\ Handled(b, a) = made[Len(a)]
                  /\ \A j \in 1..Len(a) : made[j] = Made(made[j - 1], a[j])
    BY <2>1, MadeIs
  <2> QED
    BY <2>1, <2>2 DEF a
<1> DEFINE Done(i, k) ==
               /\ \A j \in 1..L : j <= k <=> handles[j].index <= i
               /\ made[k] \in Seq(Bytes) /\ Len(made[k]) > 0 /\ Len(made[k]) <= Len(b) + More(i)
               /\ Holds(run[i], made[k])
           T == {i \in 0..HandlerMax : run[i] \in Frames(fctl) /\ \E k \in 0..L : Done(i, k)}
<1>4. b \in Seq(Bytes) /\ Len(b) \in 1..PayloadMax /\ HandlerMax \in Nat /\ PayloadMax \in Nat
  BY Sizes, PathAssumption DEF Bytes
<1>5. 0 \in T
  <2>1. \A j \in 1..L : ~(j <= 0) /\ ~(handles[j].index <= 0)
    BY <1>1 DEF Slots
  <2>2. Done(0, 0)
    BY <1>2, <1>3, <1>4, <2>1
  <2>3. 0 \in 0..L /\ 0 \in 0..HandlerMax
    BY <1>1, <1>4
  <2> HIDE DEF Done
  <2> QED
    BY <1>2, <2>2, <2>3
<1>6. ASSUME NEW i \in 1..HandlerMax, i - 1 \in T PROVE i \in T
  <2>1. PICK k \in 0..L : Done(i - 1, k)
    BY <1>6
  <2>2. /\ i \in Slots /\ i - 1 \in 0..HandlerMax /\ i \in 0..HandlerMax
        /\ run[i - 1] \in Frames(fctl) /\ run[i] = Call(run[i - 1], preinjection[i], n)
        /\ preinjection[i] \in Callbacks \cup {"none"}
    BY <1>2, <1>4, <1>6 DEF Slots, Pipelines
  <2>3. run[i] \in Frames(fctl)
    BY <2>2, CallKeeps
  <2>4. CASE preinjection[i] = "none"
    <3>1. run[i] = run[i - 1]
      BY <2>2, <2>4 DEF Call
    <3>2. \A j \in 1..L : handles[j].index # i
      <4> SUFFICES ASSUME NEW j \in 1..L, handles[j].index = i PROVE FALSE
        OBVIOUS
      <4>1. preinjection[i] = handles[j].callback
        BY DEF TableInv
      <4>2. handles[j].callback \in Callbacks
        BY <1>1
      <4> QED
        BY <2>4, <4>1, <4>2, PathAssumption
    <3>3. \A j \in 1..L : handles[j].index <= i - 1 <=> handles[j].index <= i
      BY <1>1, <2>2, <3>2 DEF Slots
    <3>4. More(i - 1) <= More(i) /\ More(i) \in Int /\ More(i - 1) \in Int
      BY <2>2
    <3>5. Done(i, k)
      <4>1. Len(made[k]) <= Len(b) + More(i)
        BY <1>4, <2>1, <3>4
      <4> QED
        BY <2>1, <3>1, <3>3, <4>1
    <3> HIDE DEF Done
    <3> QED
      BY <2>2, <2>3, <3>5
  <2>5. CASE preinjection[i] # "none"
    <3>1. PICK j \in 1..L : handles[j].index = i
      BY <2>2, <2>5 DEF TableInv
    <3>2. j = k + 1
      <4>1. ~(j <= k)
        BY <1>1, <2>1, <2>2, <3>1
      <4>2. ASSUME k + 1 < j PROVE FALSE
        <5>1. k + 1 \in 1..L /\ ~(k + 1 <= k)
          BY <1>1, <4>2
        <5>2. handles[k + 1].index < i
          BY <3>1, <4>2, <5>1 DEF TableInv
        <5>3. ~(handles[k + 1].index <= i - 1)
          BY <2>1, <5>1
        <5> QED
          BY <1>1, <2>2, <5>1, <5>2, <5>3 DEF Slots
      <4> QED
        BY <1>1, <4>1, <4>2
    <3>3. \A m \in 1..L : m <= j <=> handles[m].index <= i
      <4> SUFFICES ASSUME NEW m \in 1..L PROVE m <= j <=> handles[m].index <= i
        OBVIOUS
      <4>1. CASE m < j
        BY <1>1, <2>2, <3>1, <4>1 DEF TableInv, Slots
      <4>2. CASE m = j
        BY <1>1, <2>2, <3>1, <4>2 DEF Slots
      <4>3. CASE m > j
        BY <1>1, <2>2, <3>1, <4>3 DEF TableInv, Slots
      <4> QED
        BY <4>1, <4>2, <4>3
    <3>4. /\ preinjection[i] \in Callbacks /\ preinjection[i] = Attached[j]
          /\ made[j] = Made(made[k], preinjection[i])
      BY <1>1, <1>3, <2>2, <2>5, <3>1, <3>2 DEF TableInv
    <3>5. Len(made[k]) <= PayloadMax /\ (preinjection[i] = "grow" => Len(made[k]) < PayloadMax)
      <4>1. "grow" \in Callbacks => Len(b) + HandlerMax <= PayloadMax
        BY DEF Roomy
      <4>2. Len(made[k]) <= Len(b) + More(i - 1) /\ Len(made[k]) \in Nat
        BY <2>1
      <4> QED
        BY <1>4, <2>2, <3>4, <4>1, <4>2
    <3> DEFINE c == preinjection[i]
    <3>6. /\ made[j] \in Seq(Bytes) /\ Len(made[j]) > 0 /\ Holds(run[i], made[j])
          /\ Len(made[j]) <= IF c = "grow" THEN Len(made[k]) + 1 ELSE Len(made[k])
      BY <2>1, <2>2, <3>4, <3>5, CallMakes
    <3>7. Len(made[j]) <= Len(b) + More(i)
      <4>1. /\ Len(made[k]) \in Nat /\ Len(made[j]) \in Nat /\ Len(b) \in Nat
            /\ Len(made[k]) <= Len(b) + More(i - 1)
        BY <1>4, <2>1, <3>6
      <4> QED
        BY <2>2, <3>4, <3>6, <4>1
    <3>8. Done(i, j) /\ j \in 0..L
      BY <1>1, <3>3, <3>6, <3>7
    <3> HIDE DEF Done
    <3> QED
      BY <2>2, <2>3, <3>8
  <2> QED
    BY <2>4, <2>5
<1>7. HandlerMax \in T
  <2> HIDE DEF T
  <2> QED
    BY <1>4, <1>5, <1>6, UpTo
<1>8. PICK k \in 0..L : Done(HandlerMax, k)
  BY <1>7
<1>9. k = L
  <2>0. k < L \/ k = L
    <3>1. L \in Nat
      BY <1>1
    <3> QED
      BY <3>1
  <2> SUFFICES ASSUME k < L PROVE FALSE
    BY <2>0
  <2>1. L \in 1..L /\ ~(L <= k)
    BY <1>1
  <2>2. handles[L].index <= HandlerMax
    BY <1>1, <1>4, <2>1 DEF Slots
  <2> QED
    BY <1>8, <2>1, <2>2
<1>10. Len(made[L]) \in 1..PayloadMax
  <2>1. Len(made[L]) \in Nat /\ Len(made[L]) > 0 /\ Len(made[L]) <= Len(b) + More(HandlerMax)
    BY <1>8, <1>9
  <2>2. "grow" \in Callbacks => Len(b) + HandlerMax <= PayloadMax
    BY DEF Roomy
  <2> QED
    BY <1>4, <2>1, <2>2
<1> QED
  BY <1>2, <1>3, <1>8, <1>9, <1>10

\* If a handler attaches the number, it is in the header that is injected.
LEMMA PipelineNumbers ==
    ASSUME NumbersFit, NEW p \in Pipelines, NEW n \in Nat, n < MaxFrames,
           NEW fctl, NEW read \in Frames(fctl), NEW s \in Slots, p[s] = "number"
    PROVE  ExtractFrameNumber(InvokeHandlers(p, read, n).mac) = n
<1>1. PICK run : /\ run[0] = read /\ InvokeHandlers(p, read, n) = run[HandlerMax]
                 /\ \A i \in 1..HandlerMax : run[i] = Call(run[i - 1], p[i], n)
  BY RunIs
<1> DEFINE Numbered(frame) == \A j \in 1..4 : frame.mac.addr1[j + 2] = Packed(n)[j]
           T == {i \in 0..HandlerMax : run[i] \in Frames(fctl) /\ (s <= i => Numbered(run[i]))}
<1>2. HandlerMax \in Nat /\ s \in 1..HandlerMax
  BY Sizes DEF Slots
<1>3. 0 \in T
  BY <1>1, <1>2
<1>4. ASSUME NEW i \in 1..HandlerMax, i - 1 \in T PROVE i \in T
  <2>1. /\ run[i - 1] \in Frames(fctl) /\ run[i] = Call(run[i - 1], p[i], n)
        /\ i \in 0..HandlerMax /\ p[i] \in Callbacks \cup {"none"}
    BY <1>1, <1>2, <1>4 DEF Pipelines, Slots
  <2>2. run[i] \in Frames(fctl)
    BY <2>1, CallKeeps
  <2>3. CASE p[i] = "number"
    <3>1. run[i].mac = AttachFrameNumber(run[i - 1].mac, n) /\ run[i - 1].mac \in Headers(fctl)
      BY <2>1, <2>3 DEF Call, Frames
    <3>2. Numbered(run[i])
      <4> DEFINE m == run[i - 1].mac
      <4>1. m \in Headers(fctl) /\ run[i].mac = AttachFrameNumber(m, n)
        BY <3>1
      <4> HIDE DEF m
      <4>2. \A j \in 1..4 : AttachFrameNumber(m, n).addr1[j + 2] = Packed(n)[j]
        BY <4>1, NumberAttached
      <4> QED
        BY <4>1, <4>2
    <3> QED
      BY <2>1, <2>2, <3>2
  <2>4. CASE p[i] # "number"
    <3>1. run[i].mac = run[i - 1].mac
      BY <2>1, <2>4, PathAssumption DEF Call, Frames
    <3>2. s <= i => s <= i - 1
      BY <1>2, <2>4
    <3> QED
      BY <1>4, <2>1, <2>2, <3>1, <3>2
  <2> QED
    BY <2>3, <2>4
<1>5. HandlerMax \in T
  <2> HIDE DEF T
  <2> QED
    BY <1>2, <1>3, <1>4, UpTo
<1> DEFINE a == run[HandlerMax].mac.addr1
<1>6. \A j \in 1..4 : a[j + 2] = Packed(n)[j]
  BY <1>2, <1>5
<1>7. a[3] = Packed(n)[1] /\ a[4] = Packed(n)[2] /\ a[5] = Packed(n)[3] /\ a[6] = Packed(n)[4]
  <2> HIDE DEF a
  <2>1. \A j \in 1..4 : a[j + 2] = Packed(n)[j]
    BY <1>6
  <2>2. 1 + 2 = 3 /\ 2 + 2 = 4 /\ 3 + 2 = 5 /\ 4 + 2 = 6
    OBVIOUS
  <2> QED
    BY <2>1, <2>2
<1>8. n < Byte * (Byte * (Byte * Byte))
  <2> DEFINE B == Byte * (Byte * (Byte * Byte))
  <2>1. B \in Nat /\ MaxFrames <= B /\ MaxFrames \in Nat
    BY Sizes, PathAssumption DEF NumbersFit
  <2> HIDE DEF B
  <2>2. n < B
    BY <2>1
  <2> QED
    BY <2>2 DEF B
<1>9. ExtractFrameNumber(run[HandlerMax].mac) = n
  BY <1>7, <1>8, NumberReadBack DEF ExtractFrameNumber
<1> QED
  BY <1>1, <1>9

LEMMA DataInit == Init => DataInv /\ NumberInv
BY DEF Init, DataInv, NumberInv

LEMMA ControlReceived ==
    ASSUME BufferInv, NEW value \in Bytes, NEW name, SendControlFrame(value, name)
    PROVE  /\ Len(Payload(air')) = CtrlSize /\ kind' = name
           /\ \A i \in 1..CtrlSize : Payload(air')[i] = value
<1> DEFINE b == payload'
           f == air'
<1>1. /\ b \in Buffers /\ f = [rtap |-> rtap, mac |-> mac, body |-> SubSeq(b, 1, CtrlSize + FcsSize)]
      /\ \A i \in 1..CtrlSize : b[i] = value
  BY ControlSent
<1>2. kind' = name
  BY DEF SendControlFrame
<1> HIDE DEF b, f
<1>3. f.body = SubSeq(b, 1, CtrlSize + FcsSize)
  BY <1>1
<1>4. Len(Payload(f)) = CtrlSize /\ \A i \in 1..CtrlSize : Payload(f)[i] = b[i]
  <2>1. CtrlSize \in 0..PayloadMax /\ b \in Buffers
    BY <1>1, Sizes
  <2> QED
    BY <1>3, <2>1, PayloadIs
<1> QED
  BY <1>1, <1>2, <1>4 DEF f

\* A block comes out as its handlers were to make it, and the number with it.
LEMMA BlockReceived ==
    ASSUME BufferInv, TableInv, NEW b \in Blocks, SendBlock(b)
    PROVE  /\ Roomy /\ ~gap => Handled(b, Attached) \in Seq(Bytes)
                               /\ Payload(air') = Handled(b, Attached)
           /\ NumbersFit /\ "number" \in Range(Attached) => ExtractFrameNumber(air'.mac) = count
<1> DEFINE read   == [mac |-> mac, bytes |-> Into(payload, b), size |-> Len(b)]
           before == InvokeHandlers(preinjection, read, count)
           made   == Handled(b, Attached)
           f      == air'
<1>1. /\ read \in Frames(tx.fctl) /\ before \in Frames(tx.fctl)
      /\ f = [rtap |-> rtap, mac |-> before.mac, body |-> SubSeq(before.bytes, 1, before.size + FcsSize)]
  BY BlockSent
<1>2. count \in Nat /\ count < MaxFrames /\ preinjection \in Pipelines
  BY PathAssumption DEF BufferInv, SendBlock
<1>3. Holds(read, b)
  BY IntoIs, PathAssumption DEF BufferInv, Holds, Bytes
<1> HIDE DEF read, f
<1>4. ASSUME Roomy, ~gap PROVE made \in Seq(Bytes) /\ Payload(f) = made
  <2>1. made \in Seq(Bytes) /\ Len(made) \in 1..PayloadMax /\ Holds(before, made)
    BY <1>1, <1>2, <1>3, <1>4, PipelineMakes
  <2> HIDE DEF before, made
  <2>2. /\ before.bytes \in Buffers /\ Len(made) \in 0..PayloadMax
        /\ f.body = SubSeq(before.bytes, 1, Len(made) + FcsSize)
        /\ \A x \in 1..Len(made) : before.bytes[x] = made[x]
    <3>1. before.bytes \in Buffers
      BY <1>1 DEF Frames
    <3>2. before.size = Len(made) /\ \A x \in 1..Len(made) : before.bytes[x] = made[x]
      BY <2>1 DEF Holds
    <3>3. Len(made) \in 0..PayloadMax
      BY <2>1, Sizes
    <3>4. f.body = SubSeq(before.bytes, 1, before.size + FcsSize)
      BY <1>1
    <3> QED
      BY <3>1, <3>2, <3>3, <3>4
  <2> DEFINE bytes == before.bytes
             p     == Payload(f)
  <2>3. /\ p \in Seq(Bytes) /\ Len(p) = Len(made) /\ \A i \in 1..Len(made) : p[i] = bytes[i]
    <3>1. bytes \in Buffers /\ f.body = SubSeq(bytes, 1, Len(made) + FcsSize)
      BY <2>2
    <3> HIDE DEF bytes
    <3> QED
      BY <2>2, <3>1, PayloadIs
  <2> HIDE DEF p
  <2>4. p = made
    BY <2>1, <2>2, <2>3, SeqEqual
  <2> QED
    BY <2>1, <2>4 DEF p
<1>5. ASSUME NumbersFit, "number" \in Range(Attached) PROVE ExtractFrameNumber(f.mac) = count
  <2>1. PICK j \in 1..Len(handles) : handles[j].callback = "number"
    <3>1. DOMAIN Attached = DOMAIN handles /\ \A j \in DOMAIN handles : Attached[j] = handles[j].callback
      BY DEF Attached
    <3>2. DOMAIN handles = 1..Len(handles)
      BY DEF TableInv
    <3> QED
      BY <1>5, <3>1, <3>2 DEF Range
  <2>2. handles[j].index \in Slots /\ preinjection[handles[j].index] = "number"
    <3>1. handles[j] \in Handles /\ preinjection[handles[j].index] = handles[j].callback
      BY <2>1 DEF TableInv
    <3> QED
      BY <2>1, <3>1 DEF Handles
  <2>3. ExtractFrameNumber(before.mac) = count
    BY <1>1, <1>2, <1>5, <2>2, PipelineNumbers
  <2> HIDE DEF before
  <2>4. f.mac = before.mac
    BY <1>1
  <2> QED
    BY <2>3, <2>4
<1> QED
  BY <1>4, <1>5 DEF f

LEMMA DataStep ==
    ASSUME BufferInv, TableInv, [Next]_vars
    PROVE  /\ Roomy /\ DataInv => DataInv'
           /\ NumbersFit /\ NumberInv => NumberInv'
<1>1. ASSUME pc = "idle", UNCHANGED <<air, kind>>
      PROVE  (DataInv => DataInv') /\ (NumberInv => NumberInv')
  BY <1>1 DEF DataInv, NumberInv
<1>2. ASSUME NEW c \in Callbacks, AttachPreinject(c) \/ AttachPostinject(c)
      PROVE  (DataInv => DataInv') /\ (NumberInv => NumberInv')
  BY <1>1, <1>2 DEF AttachPreinject, AttachPostinject, Change
<1>3. ASSUME NEW i \in 0..(HandlerMax + 1), RemovePreinject(i) \/ RemovePostinject(i)
      PROVE  (DataInv => DataInv') /\ (NumberInv => NumberInv')
  BY <1>1, <1>3 DEF RemovePreinject, RemovePostinject, Change
<1>4. CASE Begin
  BY <1>1, <1>4 DEF Begin
<1>5. CASE SendPreamble
  <2>1. /\ Len(Payload(air')) = CtrlSize /\ kind' = "preamble"
        /\ \A i \in 1..CtrlSize : Payload(air')[i] = Preamble
    BY <1>5, ControlReceived, Sizes DEF SendPreamble
  <2> QED
    BY <2>1 DEF DataInv, NumberInv
<1>6. CASE SendEot
  <2>1. /\ Len(Payload(air')) = CtrlSize /\ kind' = "eot"
        /\ \A i \in 1..CtrlSize : Payload(air')[i] = Eot
    BY <1>6, ControlReceived, Sizes DEF SendEot
  <2> QED
    BY <2>1 DEF DataInv, NumberInv
<1>7. ASSUME NEW b \in Blocks, SendBlock(b)
      PROVE  (Roomy => DataInv') /\ (NumbersFit => NumberInv')
  <2>1. /\ pc' = "data" /\ kind' = "data" /\ block' = b /\ handles' = handles /\ gap' = gap
        /\ count' - 1 = count
    BY <1>7, PathAssumption DEF SendBlock, table, BufferInv
  <2>2. Attached' = Attached
    BY <2>1 DEF Attached
  <2>3. Expected' = Handled(b, Attached)
    BY <2>1, <2>2 DEF Expected
  <2> QED
    BY <1>7, <2>1, <2>2, <2>3, BlockReceived DEF DataInv, NumberInv
<1>8. CASE UNCHANGED vars
  BY <1>8 DEF vars, table, buffer, DataInv, NumberInv, Expected, Attached
<1> QED
  BY <1>2, <1>3, <1>4, <1>5, <1>6, <1>7, <1>8 DEF Next

\* Control frames are recognised, and data is taken for control only where it is the very bytes
\* of a control frame: check_frame_control wants all of them to match (receiver.c:231-252).
THEOREM KindsAreKnown ==
    ASSUME Roomy
    PROVE  Spec => []KindsKnown
<1>1. DataInv => KindsKnown
  <2> SUFFICES ASSUME DataInv PROVE KindsKnown
    OBVIOUS
  <2> DEFINE p == Payload(air)
             all(value) == \A i \in 1..CtrlSize : p[i] = value
  <2>1. CheckFrameControl(air) = IF Len(p) # CtrlSize THEN "none"
                                 ELSE IF all(Eot) THEN "eot" ELSE IF all(Preamble) THEN "preamble"
                                 ELSE "none"
    BY DEF CheckFrameControl
  <2>2. ASSUME kind \in {"preamble", "eot"} PROVE CheckFrameControl(air) = kind
    <3>1. Len(p) = CtrlSize /\ \A i \in 1..CtrlSize : p[i] = IF kind = "eot" THEN Eot ELSE Preamble
      BY <2>2 DEF DataInv
    <3> HIDE DEF p
    <3>2. 1 \in 1..CtrlSize /\ Eot # Preamble
      BY Sizes
    <3>3. CASE kind = "eot"
      BY <2>1, <3>1, <3>3
    <3>4. CASE kind = "preamble"
      <4>1. all(Preamble) /\ ~all(Eot)
        BY <3>1, <3>2, <3>4
      <4> QED
        BY <2>1, <3>1, <3>4, <4>1
    <3> QED
      BY <2>2, <3>3, <3>4
  <2>3. ASSUME kind = "data", Expected \notin {Control(Eot), Control(Preamble)}, ~gap
        PROVE  CheckFrameControl(air) = "none"
    <3>1. p \in Seq(Bytes) /\ p \notin {Control(Eot), Control(Preamble)}
      BY <2>3 DEF DataInv
    <3> HIDE DEF p
    <3>2. ASSUME NEW value, Len(p) = CtrlSize, all(value) PROVE p = Control(value)
      <4>1. p = [i \in 1..CtrlSize |-> p[i]]
        BY <3>1, <3>2
      <4>2. [i \in 1..CtrlSize |-> p[i]] = [i \in 1..CtrlSize |-> value]
        BY <3>2
      <4> QED
        BY <4>1, <4>2 DEF Control
    <3>3. ~(Len(p) = CtrlSize /\ all(Eot)) /\ ~(Len(p) = CtrlSize /\ all(Preamble))
      BY <3>1, <3>2
    <3> QED
      BY <2>1, <3>3
  <2> QED
    BY <2>2, <2>3 DEF KindsKnown
<1>2. Init => BufferInv /\ AirInv /\ TableInv /\ DataInv
  BY BufferInit, TableInit, DataInit
<1>3. BufferInv /\ AirInv /\ TableInv /\ DataInv /\ [Next]_vars
      => (BufferInv /\ AirInv /\ TableInv /\ DataInv)'
  BY BufferStep, TableStep, DataStep
<1> QED
  BY <1>1, <1>2, <1>3, PTL DEF Spec

\* The receiver gets what the attached handlers made of the block, in the order they were
\* attached, and the number of the frame where one attaches it.
THEOREM HandlersAreReceived ==
    ASSUME Roomy, NumbersFit
    PROVE  Spec => []ReceivedAsAttached
<1>1. DataInv /\ NumberInv => ReceivedAsAttached
  BY DEF DataInv, NumberInv, ReceivedAsAttached
<1>2. Init => BufferInv /\ AirInv /\ TableInv /\ DataInv /\ NumberInv
  BY BufferInit, TableInit, DataInit
<1>3. BufferInv /\ AirInv /\ TableInv /\ DataInv /\ NumberInv /\ [Next]_vars
      => (BufferInv /\ AirInv /\ TableInv /\ DataInv /\ NumberInv)'
  BY BufferStep, TableStep, DataStep
<1> QED
  BY <1>1, <1>2, <1>3, PTL DEF Spec
================================================================================
