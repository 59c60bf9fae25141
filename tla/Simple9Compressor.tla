------------------------- MODULE Simple9Compressor -------------------------
(***************************************************************************)
(* src/memorymanager/compression/Simple9Compressor.cc: the encoding        *)
(* Simple9 takes numbers of 28 bits only, so the upper four bits of seven  *)
(* words are packed into a further word. These words are written behind    *)
(* the block that is compressed, and the words of the block lose their     *)
(* upper bits, in the memory of the caller.                                *)
(*                                                                         *)
(* Here a nibble has the values 0 .. Nibble - 1 (16 in the code), and      *)
(* Group of them (7) fill the lower part of a word.                        *)
(***************************************************************************)
EXTENDS Integers, Sequences

CONSTANTS Nibble, Group

ASSUME NibbleAssumption == Nibble \in Nat \ {0, 1} /\ Group \in Nat \ {0}

(* A shift by k nibbles multiplies by this.                                *)
Power[k \in 0 .. Group] == IF k = 0 THEN 1 ELSE Nibble * Power[k - 1]

Low == Power[Group]                    \* words are below Nibble * Low

(* The policy Simple9 of the library: it restores what is below Low.       *)
EncodeArray(words) == [k \in 1 .. Len(words) |-> words[k] % Low]
DecodeArray(code, n) == SubSeq(code, 1, n)

ExtraWords(len) == (len + Group - 1) \div Group

(* The rounds of the loop in compress over the words of the block: mem is  *)
(* the memory at inBuffer, num and counter the word that is being packed.  *)
PackRound(s, pos) ==
  LET num  == s.num + s.mem[pos] \div Low
      low  == [s.mem EXCEPT ![pos] = @ % Low]
  IN  IF s.counter + 1 = Group
      THEN [mem |-> [low EXCEPT ![s.new + 1] = num], num |-> 0, counter |-> 0, new |-> s.new + 1]
      ELSE [mem |-> low, num |-> num * Nibble, counter |-> s.counter + 1, new |-> s.new]

Packed(mem, len) ==
  LET rounds[pos \in 0 .. len] ==
        IF pos = 0 THEN [mem |-> mem, num |-> 0, counter |-> 0, new |-> len]
        ELSE PackRound(rounds[pos - 1], pos)
  IN  rounds[len]

(* Mutant: the word of the last, short group is not shifted to the left.   *)
Simple9CompressUnshifted(mem, len) ==
  LET s == Packed(mem, len)
      all == IF s.counter > 0 THEN [s.mem EXCEPT ![s.new + 1] = s.num] ELSE s.mem
      n   == IF s.counter > 0 THEN s.new + 1 ELSE s.new
  IN  [mem |-> all, code |-> EncodeArray(SubSeq(all, 1, n))]

(* compress: the memory of the caller afterwards, and what it returns.     *)
Simple9Compress(mem, len) ==
  LET s == Packed(mem, len)
      all == IF s.counter > 0
             THEN [s.mem EXCEPT ![s.new + 1] = s.num * Power[Group - 1 - s.counter]]
             ELSE s.mem
      n   == IF s.counter > 0 THEN s.new + 1 ELSE s.new
  IN  [mem |-> all, code |-> EncodeArray(SubSeq(all, 1, n))]

(* decompress: pattern goes through the nibbles of a packed word from the  *)
(* highest on, and move takes each to the top of its word.                 *)
Simple9Decompress(code, len) ==
  LET out == DecodeArray(code, len + ExtraWords(len))
      NibbleOf(pos) == (out[len + 1 + (pos - 1) \div Group]
                          \div Power[Group - 1 - ((pos - 1) % Group)]) % Nibble
  IN  [pos \in 1 .. len |-> out[pos] + NibbleOf(pos) * Low]
=============================================================================
