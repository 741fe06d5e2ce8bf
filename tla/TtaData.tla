------------------------------ MODULE TtaData -------------------------------
(***************************************************************************)
(* The bit, byte and float helpers, as calls on one array of bits and one  *)
(* array of two 16-bit words.  A bit array stands for the number whose     *)
(* lowest bit is at index 0; num is that number, kept by arithmetic alone. *)
(* A float is its four bytes, the most significant first.                  *)
(***************************************************************************)
EXTENDS Naturals, Sequences

CONSTANTS
  Length,   \* of the bit array
  Values,   \* bytes the application stores
  Floats    \* floats it stores

Byte == 0..255

ASSUME DataAssumption ==
  /\ Length \in Nat /\ Values \subseteq Byte
  /\ Floats \subseteq Byte \X Byte \X Byte \X Byte

VARIABLES
  bits,   \* the bit array
  num,    \* the number it should stand for
  words,  \* the two words
  set     \* the float last stored, and in which order: "abcd" or "dcba"

bitVars == <<bits, num>>
floatVars == <<words, set>>
dataVars == <<bitVars, floatVars>>

DataInit ==
  /\ bits = [i \in 0..(Length - 1) |-> 0] /\ num = 0
  /\ words = <<0, 0>> /\ set = <<<<0, 0, 0, 0>>, "abcd">>

\* The powers of two, as a function, which proofs can use.
Pow2[n \in Nat] == IF n = 0 THEN 1 ELSE 2 * Pow2[n - 1]

\* Bit i of the number v.
Bit(v, i) == (v \div Pow2[i]) % 2

\* The number v with the k bits from index i on replaced by those of u.
Replaced(v, i, k, u) ==
  v - ((v \div Pow2[i]) % Pow2[k]) * Pow2[i] + (u % Pow2[k]) * Pow2[i]

-----------------------------------------------------------------------------
(* Bits.                                                                   *)

\* A slip: the highest bit comes first.
MutFromByte(dest, idx, value) ==
  [i \in DOMAIN dest |-> IF i \in idx..(idx + 7) THEN Bit(value, 7 - (i - idx))
                         ELSE dest[i]]

FromByte(dest, idx, value) ==
  [i \in DOMAIN dest |-> IF i \in idx..(idx + 7) THEN Bit(value, i - idx)
                         ELSE dest[i]]

\* shift counts from 0 to 7 again and again
FromBytes(dest, idx, nb_bits, tab_byte) ==
  [i \in DOMAIN dest |->
     IF i \in idx..(idx + nb_bits - 1)
       THEN Bit(tab_byte[(i - idx) \div 8 + 1], (i - idx) % 8)
       ELSE dest[i]]

tta_set_bits_from_byte(idx, value) ==
  /\ idx + 8 <= Length
  /\ bits' = FromByte(bits, idx, value)
  /\ num' = Replaced(num, idx, 8, value)
  /\ UNCHANGED floatVars

tta_set_bits_from_bytes(idx, nb_bits, b0, b1) ==
  /\ idx + nb_bits <= Length /\ nb_bits <= 16
  /\ bits' = FromBytes(bits, idx, nb_bits, <<b0, b1>>)
  /\ num' = Replaced(num, idx, nb_bits, b0 + 256 * b1)
  /\ UNCHANGED floatVars

\* A slip: one bit less.
MutByteFromBits(src, idx, nb_bits) ==
  LET value[i \in 0..8] ==
        IF i = 0 THEN 0 ELSE value[i - 1] + src[idx + i - 1] * Pow2[i - 1]
  IN value[IF nb_bits = 8 THEN 7 ELSE nb_bits]

\* value |= src[idx + i] << i; the bits are 0 or 1.
ByteFromBits(src, idx, nb_bits) ==
  LET value[i \in 0..8] ==
        IF i = 0 THEN 0 ELSE value[i - 1] + src[idx + i - 1] * Pow2[i - 1]
  IN value[nb_bits]

-----------------------------------------------------------------------------
(* Floats.                                                                 *)

\* The words of four bytes: dest[0] has the low half.
Words(f) == <<f[3] * 256 + f[4], f[1] * 256 + f[2]>>

\* A slip: the words are taken in the other order.
MutFloatOf(w) == <<w[1] \div 256, w[1] % 256, w[2] \div 256, w[2] % 256>>

FloatOf(w) == <<w[2] \div 256, w[2] % 256, w[1] \div 256, w[1] % 256>>

bswap_32(f) == <<f[4], f[3], f[2], f[1]>>

tta_set_float(f) ==
  /\ words' = Words(f) /\ set' = <<f, "abcd">>
  /\ UNCHANGED bitVars

tta_set_float_dcba(f) ==
  /\ words' = Words(bswap_32(f)) /\ set' = <<f, "dcba">>
  /\ UNCHANGED bitVars

\* tta_get_float, or tta_get_float_dcba, whichever fits the words.
GetFloat(w, order) == IF order = "abcd" THEN FloatOf(w) ELSE bswap_32(FloatOf(w))

-----------------------------------------------------------------------------

DataNext ==
  \/ \E i \in 0..Length, v \in Values : tta_set_bits_from_byte(i, v)
  \/ \E i, k \in 0..Length, u, v \in Values : tta_set_bits_from_bytes(i, k, u, v)
  \/ \E f \in Floats : tta_set_float(f) \/ tta_set_float_dcba(f)

DataSpec == DataInit /\ [][DataNext]_dataVars

-----------------------------------------------------------------------------

\* A byte, or a bit, read from any place is that part of the number: what was
\* stored is there, and nothing beside it has changed.
BytesAreNumber ==
  \A i \in 0..Length, k \in 0..8 :
    i + k <= Length => ByteFromBits(bits, i, k) = (num \div Pow2[i]) % Pow2[k]

\* A float that is stored and got back in the same order is the same.
FloatKept == GetFloat(words, set[2]) = set[1]

\* What the helpers store they find again.
StoredIsKept == BytesAreNumber /\ FloatKept

=============================================================================
