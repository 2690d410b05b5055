------------------------------- MODULE Word64 -------------------------------
(***************************************************************************)
(* Go's 64-bit integers (uint64 and, on the same bits, int) for the        *)
(* varint arithmetic of the generated protobuf code                        *)
(* (src/x/bridge/types/events.pb.go).  TLC's integers stop at 2^31 - 1, so *)
(* a word is four 16-bit limbs, least significant first, and every         *)
(* operation wraps modulo 2^64 as Go's does.  A word read as an int is     *)
(* negative when bit 63 is set.                                            *)
(***************************************************************************)
EXTENDS Naturals
LOCAL INSTANCE Bitwise
LOCAL INSTANCE FiniteSetsExt

Limb == 0..65535
Word == [1..4 -> Limb]

W0 == <<0, 0, 0, 0>>

\* A small non-negative Go int as a word.
FromNat(n) == <<n % 65536, n \div 65536, 0, 0>>

\* acc | uint64(b & 0x7F) << shift: the seven bits of g land at bit
\* positions shift..shift+6; those past bit 63 are shifted out.
OrShift7(acc, g, shift) ==
    LET bits(k) == { ((g \div 2^i) % 2) * 2^((shift + i) % 16) :
                     i \in { j \in 0..6 : shift + j < 64
                                          /\ (shift + j) \div 16 = k - 1 } }
    IN [k \in 1..4 |-> acc[k] | SumSet(bits(k))]

\* int(w & 0x7)
Low3(w) == w[1] % 8

\* int32(w >> 3): bits 3..34, bit 34 being the sign of the int32.
Int32Shr3(w) ==
    LET low31 == (w[1] \div 8) + w[2] * 8192 + (w[3] % 4) * 536870912
    IN IF (w[3] \div 4) % 2 = 1 THEN (low31 - 2147483647) - 1 ELSE low31

\* int(w) < 0
IsNeg(w) == w[4] >= 32768

\* The word holds a non-negative value below 2^31, and that value.
IsSmall(w) == w[2] < 32768 /\ w[3] = 0 /\ w[4] = 0
ToNat(w) == w[1] + 65536 * w[2]

\* a + b on Go ints, wrapping at 2^64.
AddW(a, b) ==
    LET s1 == a[1] + b[1]
        s2 == a[2] + b[2] + s1 \div 65536
        s3 == a[3] + b[3] + s2 \div 65536
        s4 == a[4] + b[4] + s3 \div 65536
    IN <<s1 % 65536, s2 % 65536, s3 % 65536, s4 % 65536>>

\* int(w) < n and int(w) > n for a small non-negative n.
LtNat(w, n) == IsNeg(w) \/ (IsSmall(w) /\ ToNat(w) < n)
GtNat(w, n) == ~IsNeg(w) /\ (~IsSmall(w) \/ ToNat(w) > n)

=============================================================================
