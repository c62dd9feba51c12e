------------------------------ MODULE NodeMask ------------------------------
(***************************************************************************)
(* NUMA node masks as hmctl writes them, as libhmalloc reads them and as   *)
(* mbind(2) understands them.  A mask is the set of its bits; bit n stands *)
(* for node n.  The masks pass through fixed-width C integers, and the     *)
(* widths are what the conversions below are about.                        *)
(***************************************************************************)
EXTENDS Integers

CONSTANTS IntBits,   \* bits of an int
          LongBits   \* bits of a long

ASSUME WidthAssumption == /\ IntBits \in Nat \ {0}
                          /\ LongBits \in Nat
                          /\ IntBits < LongBits

Bits  == 0 .. LongBits - 1
Masks == SUBSET Bits

\* The environment text of a mask: the printf conversion and the bits printed.
\* "%ld" prints the sign of a mask whose top bit is set, "%lu" does not.
Conversions == {"%lu", "%ld"}
Texts == [conv : Conversions, mask : Masks]

\* *bm->maskp: the first word of a libnuma bitmask.
FirstWord(nodes) == nodes \cap Bits

\* (unsigned long)(1 << n): the shift is done in an int, whose count the
\* machines libnuma supports take modulo its width, and a set sign bit is
\* extended to the width of a long.
ShiftOne(n) == LET k == n % IntBits
               IN  IF k = IntBits - 1 THEN k .. LongBits - 1 ELSE {k}

\* atol() of such a text: a positive value beyond LONG_MAX saturates.
Atol(text) == IF text.conv = "%lu" /\ LongBits - 1 \in text.mask
              THEN 0 .. LongBits - 2
              ELSE text.mask

\* The nodes mbind(2) reads from a mask of maxnode bits: the kernel takes one
\* off the count before it reads them.
KernelNodes(mask, maxnode) == { n \in mask : n < maxnode - 1 }
=============================================================================
