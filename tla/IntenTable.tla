----------------------------- MODULE IntenTable -----------------------------
(***************************************************************************)
(* The polynomial the IntenMap constructor tabulates,                      *)
(*     y = (unsigned) (x * (1 + K4 * x^3)),  K4 = 256 / 1409416875,        *)
(* in exact integer arithmetic: x + floor(256 * x^4 / 1409416875).  The    *)
(* products exceed 32 bits, so they are pairs of limbs.                    *)
(***************************************************************************)
EXTENDS Integers

Limb == 65536
Norm(h, l) == <<h + l \div Limb, l % Limb>>
Times(n, k) == Norm(n[1] * k, n[2] * k)
Over(n, d) == <<n[1] \div d, ((n[1] % d) * Limb + n[2]) \div d>>

\* Bugs the runs would find: a linear map whose first step is too large, and
\* larger steps below than above.
usbd_linear(blvl) == 4 * blvl
usbd_steep_below(blvl) == IF blvl < 100 THEN 5 * blvl ELSE 200 + 3 * blvl

\* IntenMap::_usbd_val().  1409416875 = 27 * 625 * 289 * 289, and dividing by
\* the factors in turn rounds as dividing by the product does.
usbd_poly(blvl) ==
    LET product  == Times(Times(Norm(0, blvl * blvl * blvl), blvl), 256)
        quotient == Over(Over(Over(Over(product, 27), 625), 289), 289)
        y        == blvl + quotient[2]
    IN  IF y < 1023 THEN y ELSE 1023

\* IntenMap::IntenMap(): the loop stores every level up to and including
\* 255; the last one lands past the array's end.
Table == [i \in 0..254 |-> usbd_poly(i)]
StoredPastEnd == usbd_poly(255)
=============================================================================
