------------------------------- MODULE BitMap -------------------------------
(***************************************************************************)
(* The shard havelist and its bytes (strategy/bitmap.rs).  A limb (u64) is *)
(* the set of its one bits and so is a byte; their widths are constants,   *)
(* so that a small bitmap crosses the boundaries of both.                  *)
(***************************************************************************)
EXTENDS Integers, Sequences, SequencesExt, FiniteSetsExt

CONSTANTS ByteBits,   \* bits of a byte, 8 in the code
          LimbBytes   \* bytes of a limb, 8 in the code

ASSUME WidthsAssumption == ByteBits \in Nat \ {0} /\ LimbBytes \in Nat \ {0}

LimbBits == ByteBits * LimbBytes
DivCeil(a, b) == (a + b - 1) \div b
LimbsFor(n) == DivCeil(n, LimbBits)
BytesFor(n) == DivCeil(n, ByteBits)

WithCapacity(n) == [bits |-> [l \in 1 .. LimbsFor(n) |-> {}], n |-> n]

(* set: an error and no change out of range. *)
SetBit(b, idx) ==
  IF idx >= b.n THEN b
  ELSE [b EXCEPT !.bits[(idx \div LimbBits) + 1] = @ \cup {idx % LimbBits}]

GetBit(b, idx) == idx < b.n /\ idx % LimbBits \in b.bits[(idx \div LimbBits) + 1]

CountOnes(b) == MapThenSumSet(LAMBDA l : Cardinality(b.bits[l]), DOMAIN b.bits)

(* or_merge: an error and no change when the sizes differ. *)
OrMerge(a, b) ==
  IF a.n # b.n THEN a ELSE [a EXCEPT !.bits = [l \in DOMAIN @ |-> @[l] \cup b.bits[l]]]

(* to_le_bytes, byte k of a limb. *)
LeByte(limb, k) == {bit \in 0 .. (ByteBits - 1) : k * ByteBits + bit \in limb}

(* Mutant: the bytes of a limb are big-endian. *)
AsBytesBigEndian(b) ==
  [k \in 1 .. BytesFor(b.n) |->
     LeByte(b.bits[((k - 1) \div LimbBytes) + 1], LimbBytes - 1 - ((k - 1) % LimbBytes))]

(* as_bytes: of the last limb only the bytes that n needs. *)
AsBytes(b) ==
  [k \in 1 .. BytesFor(b.n) |->
     LeByte(b.bits[((k - 1) \div LimbBytes) + 1], (k - 1) % LimbBytes)]

(* from_bytes, on as many bytes as n needs: the bits past n in the last limb *)
(* are cleared.  Any other number of bytes is an error.                      *)
FromBytes(bytes, n) ==
  LET limb(l) == {bit \in 0 .. (LimbBits - 1) :
                    LET k == (l - 1) * LimbBytes + (bit \div ByteBits) + 1
                    IN k \in DOMAIN bytes /\ bit % ByteBits \in bytes[k]}
      used == n % LimbBits
  IN [bits |-> [l \in 1 .. LimbsFor(n) |->
                  IF l = LimbsFor(n) /\ used > 0 THEN limb(l) \cap (0 .. (used - 1))
                  ELSE limb(l)],
      n |-> n]
=============================================================================
