---------------------------- MODULE SymbolicData ----------------------------
(***************************************************************************)
(* Uninterpreted data for model checking the accelerator. A value is a bag *)
(* of monomials: an input element is one monomial naming its matrix,       *)
(* generation and index, addition is bag union and multiplication pairs    *)
(* monomials. Equality of two such values implies equality in every        *)
(* commutative ring, so also in 2W-bit two's complement arithmetic.        *)
(***************************************************************************)
EXTENDS Bags

MCZero == EmptyBag
MCAdd(x, y) == x (+) y
MCMul(x, y) ==
  IF x = EmptyBag \/ y = EmptyBag THEN EmptyBag
  ELSE SetToBag({<<p, q>> : p \in DOMAIN x, q \in DOMAIN y})

MCJunk == SetToBag({<<"junk", 0, 0>>})
MCAData(g, x) == SetToBag({<<"A", g, x>>})
MCBData(g, x) == SetToBag({<<"B", g, x>>})
=============================================================================
