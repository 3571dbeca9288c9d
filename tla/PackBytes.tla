------------------------------- MODULE PackBytes -------------------------------
(***************************************************************************)
(* The numbers and deltas inside a pack (src/git/packfile.rs): how davgit  *)
(* reads and writes them, and how git writes what davgit reads.            *)
(*                                                                         *)
(* A byte is a number below 256.  Numbers are as wide as the program's     *)
(* usize: nothing here comes near it.  Data is well formed: the code reads *)
(* bytes without a test for the end of the data, and nothing in a pack     *)
(* whose checksum is right ends in the middle of a number.                 *)
(***************************************************************************)
EXTENDS Naturals, Sequences, SequencesExt, FiniteSetsExt

Bit(byte, i) == (byte \div 2^i) % 2
More(byte)   == Bit(byte, 7) = 1     \* another byte of the number follows
Low(byte)    == byte % 128

\* Where a number that goes on at pos ends.
LastOf(data, pos) ==
  CHOOSE p \in pos..Len(data) : ~More(data[p]) /\ \A q \in pos..(p - 1) : More(data[q])

-------------------------------------------------------------------------------
(* What git writes                                                          *)

\* A number in groups of seven bits, the lowest first.
Groups[n \in Nat] ==
  IF n < 128 THEN <<n>> ELSE <<128 + (n % 128)>> \o Groups[n \div 128]

GitHeader(kind, size) ==
  IF size < 16 THEN <<16 * kind + size>>
  ELSE <<128 + 16 * kind + (size % 16)>> \o Groups[size \div 16]

\* The distance back to the base of an OFS_DELTA: the highest group first, and
\* one less for each group that follows.
Leading[n \in Nat] ==
  IF n < 128 THEN <<128 + n>> ELSE Append(Leading[(n \div 128) - 1], 128 + (n % 128))
GitOffset(n) ==
  IF n < 128 THEN <<n>> ELSE Append(Leading[(n \div 128) - 1], n % 128)

\* A copy instruction leaves out the bytes of its operands that are zero, and
\* the largest copy that git makes, of 65536 bytes, leaves out its size.
Byte(n, i) == (n \div 256^i) % 256
OperandsOf(offset, size) ==
  [i \in 0..6 |-> IF i < 4 THEN Byte(offset, i)
                  ELSE IF size = 65536 THEN 0 ELSE Byte(size, i - 4)]
Below(set, i) == {j \in set : j < i}
CopyOf(offset, size) ==
  LET operands == OperandsOf(offset, size)
      present  == {i \in 0..6 : operands[i] # 0}
      command  == CHOOSE c \in 128..255 : \A i \in 0..6 : Bit(c, i) = 1 <=> i \in present
      nth(k)   == CHOOSE i \in present : Cardinality(Below(present, i)) = k - 1
  IN  <<command>> \o [k \in 1..Cardinality(present) |-> operands[nth(k)]]

InsertOf(bytes) == IF bytes = <<>> THEN <<>> ELSE <<Len(bytes)>> \o bytes

\* Steps of a delta: copy size bytes of the base from offset on (none if it is
\* 0), and add bytes of its own.
Offset   == {n \in Nat : n \div 256^3 < 256}
CopySize == 1..65536
Insert   == {s \in Seq(0..255) : Len(s) < 128}
Step     == [offset : Offset, size : {0} \cup CopySize, bytes : Insert]
Bytes(base, step) ==
  SubSeq(base, step.offset + 1, step.offset + step.size) \o step.bytes
Instructions(step) ==
  (IF step.size = 0 THEN <<>> ELSE CopyOf(step.offset, step.size)) \o InsertOf(step.bytes)

\* What steps make of a base, and the delta that says so.
Target(base, steps) == FlattenSeq([k \in DOMAIN steps |-> Bytes(base, steps[k])])
GitDelta(base, steps) ==
  Groups[Len(base)] \o Groups[Len(Target(base, steps))] \o
    FlattenSeq([k \in DOMAIN steps |-> Instructions(steps[k])])

-------------------------------------------------------------------------------
(* What davgit reads and writes                                             *)

EncodeSizeType(kind, size) ==
  LET byte == 16 * (kind % 8) + (size % 16)
      rest == size \div 16
  IN  IF rest = 0 THEN <<byte>> ELSE <<128 + byte>> \o Groups[rest]

\* The value of groups of seven bits, the lowest first.
Value(bytes) == FoldRight(LAMBDA byte, high : Low(byte) + 128 * high, bytes, 0)

\* The kind and size of an entry, and where its next byte is.
DecodeSizeType(data, pos) ==
  LET last == LastOf(data, pos)
  IN  [kind |-> (data[pos] \div 16) % 8,
       size |-> (data[pos] % 16) + 16 * Value(SubSeq(data, pos + 1, last)),
       pos  |-> last + 1]

\* A mistake: the groups are put together as those of a size.
MutantDecodeOffset(data, pos) ==
  LET last == LastOf(data, pos)
      off[p \in pos..last] ==
        IF p = pos THEN Low(data[p]) ELSE 128 * off[p - 1] + Low(data[p])
  IN  [off |-> off[last], pos |-> last + 1]

DecodeOffset(data, pos) ==
  LET last == LastOf(data, pos)
      off[p \in pos..last] ==
        IF p = pos THEN Low(data[p]) ELSE 128 * (off[p - 1] + 1) + Low(data[p])
  IN  [off |-> off[last], pos |-> last + 1]

\* An operand of a copy: 0, or the byte for the bit of the command that is set.
Operand(delta, pos, i) ==
  IF Bit(delta[pos], i) = 0 THEN 0
  ELSE delta[pos + 1 + Cardinality({j \in 0..(i - 1) : Bit(delta[pos], j) = 1})]

\* A mistake: a copy without a size copies nothing.
MutantCopied(base, delta, pos) ==
  LET at(i)  == Operand(delta, pos, i)
      offset == at(0) + 256 * (at(1) + 256 * (at(2) + 256 * at(3)))
      size   == at(4) + 256 * (at(5) + 256 * at(6))
  IN  SubSeq(base, offset + 1, offset + size)

Copied(base, delta, pos) ==
  LET at(i)  == Operand(delta, pos, i)
      offset == at(0) + 256 * (at(1) + 256 * (at(2) + 256 * at(3)))
      given  == at(4) + 256 * (at(5) + 256 * at(6))
      size   == IF given = 0 THEN 65536 ELSE given
  IN  SubSeq(base, offset + 1, Min({offset + size, Len(base)}))

\* Neither of the two sizes at the start of a delta is compared with anything.
ApplyDelta(base, delta) ==
  LET start == LastOf(delta, LastOf(delta, 1) + 1) + 1
      Run[pos \in Nat \ {0}] ==
        IF pos > Len(delta) THEN <<>>
        ELSE IF More(delta[pos])
        THEN Copied(base, delta, pos) \o
             Run[pos + 1 + Cardinality({i \in 0..6 : Bit(delta[pos], i) = 1})]
        ELSE SubSeq(delta, pos + 1, pos + delta[pos]) \o Run[pos + 1 + delta[pos]]
  IN  Run[start]
===============================================================================
