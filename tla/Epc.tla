--------------------------------- MODULE Epc ---------------------------------
(***************************************************************************)
(* The label numbers of core/gscale/epc.rs: 56 bits of the clock, then a   *)
(* 32 bit tail that mixes the clock, the counter within one nanosecond and *)
(* the salt of the generator. A word is the set of the bits that are set,  *)
(* so exclusive or is the symmetric difference and a rotation moves bits.  *)
(***************************************************************************)
EXTENDS Integers

CONSTANTS ClockBits,  \* bits of the clock that are printed (56 in the code)
          WordBits    \* bits of a tail (32 in the code)

ASSUME WidthAssumption == ClockBits \in Nat \ {0} /\ WordBits \in Nat \ {0}

Bits(n, width) == {i \in 0 .. width - 1 : (n \div 2^i) % 2 = 1}

Xor(a, b) == (a \ b) \union (b \ a)

RotateLeft(word, n) == {(i + n) % WordBits : i \in word}

(* The lowest bit of a tail is always set: it carries no information. *)
Tail32(ns, seq, salt) ==
  LET atom == Bits(ns \div 1000, WordBits)
      mixed == Xor(atom, RotateLeft(Bits(ns, WordBits), 13))
  IN  Xor(Xor(mixed, RotateLeft(Bits(seq, WordBits), 7)), salt) \union {0}

FormatEpc(ns, seq, salt) ==
  [clock |-> Bits(ns, ClockBits), tail |-> Tail32(ns, seq, salt)]

(* A generator remembers the last clock value it saw and counts within it. *)
NewGenerator(salt) == [last |-> 0, seq |-> 0, salt |-> salt \union {0}]

Advance_NoCount(g, ns) == [g EXCEPT !.last = ns, !.seq = 0]

Advance(g, ns) ==
  [g EXCEPT !.last = ns, !.seq = IF ns = g.last THEN (g.seq + 1) % 2^WordBits ELSE 0]

NextEpc(g, ns) == LET moved == Advance(g, ns) IN FormatEpc(ns, moved.seq, moved.salt)

=============================================================================
