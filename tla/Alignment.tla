------------------------------ MODULE Alignment -------------------------------
(***************************************************************************)
(* pmr/util.hpp: the lowest multiple of a power of two at or above an      *)
(* address.  The code masks the low bits, which rounds to the same number. *)
(***************************************************************************)
EXTENDS Naturals

(* Wrong variant: rounds down.                                             *)
AlignAddrDown(addr, alignment) == (addr \div alignment) * alignment

AlignAddr(addr, alignment) == ((addr + alignment - 1) \div alignment) * alignment

=============================================================================
