-------------------------------- MODULE Numbers --------------------------------
(***************************************************************************)
(* Numbers as the bits that they are made of; bit 0 is the least           *)
(* significant.                                                            *)
(***************************************************************************)
EXTENDS Naturals, FiniteSetsExt

Bit(n, i) == (n \div 2^i) % 2

\* The number whose set bits are the members of `bits`.
FromBits(bits) == MapThenSumSet(LAMBDA i : 2^i, bits)

================================================================================
