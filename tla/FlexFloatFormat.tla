--------------------------- MODULE FlexFloatFormat ---------------------------
(***************************************************************************)
(* The number formats of the flexfloat library                             *)
(* (tb/core/fpnew/tb/flexfloat), built with rounding: numbers of a small   *)
(* format, kept in a wider backend format and brought back into the small  *)
(* one by flexfloat_sanitize.  The backend's own arithmetic is IEEE 754 at *)
(* a reduced width.  A word is a record of the fields that the macros      *)
(* SIGN, EXPONENT and MASK_FRAC cut out of it.                             *)
(***************************************************************************)
EXTENDS Integers

CONSTANTS
  NUM_BITS_EXP, NUM_BITS_FRAC, \* the backend format
  Types      \* the small formats, records [exp_bits, frac_bits]

INF_EXP == 2^NUM_BITS_EXP - 1
BIAS == 2^(NUM_BITS_EXP - 1) - 1
NUM_BITS == 1 + NUM_BITS_EXP + NUM_BITS_FRAC

flexfloat_inf_exp(desc) == 2^desc.exp_bits - 1
flexfloat_bias(desc) == 2^(desc.exp_bits - 1) - 1

\* Every small format is narrower in both fields, and a quarter of its smallest
\* denormalised number is a normalised one of the backend, as it is for every
\* format with a shorter exponent than that of float, double or __float128.
ASSUME FlexFloatAssumption ==
  /\ NUM_BITS_EXP \in Nat /\ NUM_BITS_FRAC \in Nat
  /\ \A t \in Types :
       /\ t.exp_bits \in 2 .. NUM_BITS_EXP - 1 /\ t.frac_bits \in 1 .. NUM_BITS_FRAC - 1
       /\ BIAS - flexfloat_bias(t) >= t.frac_bits + 2

FE_TONEAREST == "nearest"
FE_UPWARD == "upward"
FE_DOWNWARD == "downward"
FE_TOWARDZERO == "zero"
RoundingModes == {FE_TONEAREST, FE_UPWARD, FE_DOWNWARD, FE_TOWARDZERO}

PACK(sign, exp, frac) == [sign |-> sign, exp |-> exp, frac |-> frac]
Word == [sign : {0, 1}, exp : 0 .. INF_EXP, frac : 0 .. 2^NUM_BITS_FRAC - 1]
Zero(sign) == PACK(sign, 0, 0)
IsNaN(u) == u.exp = INF_EXP /\ u.frac # 0
IsInf(u) == u.exp = INF_EXP /\ u.frac = 0

-----------------------------------------------------------------------------
(***************************************************************************)
(* The backend's arithmetic.  Magnitudes count its smallest denormalised   *)
(* number.                                                                 *)
(***************************************************************************)
Bigger(a, b) == IF a > b THEN a ELSE b
Significand(u) == IF u.exp = 0 THEN u.frac ELSE u.frac + 2^NUM_BITS_FRAC
Scale(u) == Bigger(u.exp, 1) - 1
Magnitude(u) == Significand(u) * 2^Scale(u)
Signed(u) == IF u.sign = 1 THEN -Magnitude(u) ELSE Magnitude(u)
BitLength(n) == CHOOSE b \in 0 .. 30 : n < 2^b /\ (b = 0 \/ n >= 2^(b - 1))

Overflow(sign, mode) ==
  IF mode = FE_TOWARDZERO \/ mode = (IF sign = 1 THEN FE_UPWARD ELSE FE_DOWNWARD)
  THEN PACK(sign, INF_EXP - 1, 2^NUM_BITS_FRAC - 1)
  ELSE PACK(sign, INF_EXP, 0)

\* The word for n * 2^k, and a little more if rest.
Rounded(sign, n, k, rest, mode) ==
  LET e == Bigger(1, BitLength(n) + k - NUM_BITS_FRAC)
      drop == e - 1 - k
      q == IF drop > 0 THEN n \div 2^drop ELSE n * 2^(-drop)
      r == IF drop > 0 THEN 2 * (n % (2^drop)) ELSE 0
      half == IF drop > 0 THEN 2^drop ELSE 1
      up == CASE mode = FE_TONEAREST -> r > half \/ (r = half /\ (rest \/ q % 2 = 1))
              [] mode = FE_UPWARD -> sign = 0 /\ (r > 0 \/ rest)
              [] mode = FE_DOWNWARD -> sign = 1 /\ (r > 0 \/ rest)
              [] mode = FE_TOWARDZERO -> FALSE
      s == IF up THEN q + 1 ELSE q
      carry == s = 2^(NUM_BITS_FRAC + 1)
  IN IF s < 2^NUM_BITS_FRAC THEN PACK(sign, 0, s)
     ELSE IF (IF carry THEN e + 1 ELSE e) >= INF_EXP THEN Overflow(sign, mode)
     ELSE IF carry THEN PACK(sign, e + 1, 0) ELSE PACK(sign, e, s - 2^NUM_BITS_FRAC)

QuietBit == 2^(NUM_BITS_FRAC - 1)
Quiet(u) == IF u.frac >= QuietBit THEN u ELSE [u EXCEPT !.frac = @ + QuietBit]
Invalid == PACK(1, INF_EXP, QuietBit)
Negated(u) == [u EXCEPT !.sign = 1 - @]

Plus(u, v, mode) ==
  LET sum == Signed(u) + Signed(v) IN
  IF IsNaN(u) THEN Quiet(u) ELSE IF IsNaN(v) THEN Quiet(v)
  ELSE IF IsInf(u) THEN (IF IsInf(v) /\ u.sign # v.sign THEN Invalid ELSE u)
  ELSE IF IsInf(v) THEN v
  ELSE IF sum = 0 THEN Zero(IF u.sign = v.sign THEN u.sign ELSE IF mode = FE_DOWNWARD THEN 1 ELSE 0)
  ELSE Rounded(IF sum < 0 THEN 1 ELSE 0, IF sum < 0 THEN -sum ELSE sum, 0, FALSE, mode)

Minus(u, v, mode) == IF IsNaN(v) THEN Plus(u, v, mode) ELSE Plus(u, Negated(v), mode)

\* One is the 2^Unit-th multiple of the smallest number.
Unit == BIAS + NUM_BITS_FRAC - 1

Times(u, v, mode) ==
  LET sign == (u.sign + v.sign) % 2 IN
  IF IsNaN(u) THEN Quiet(u) ELSE IF IsNaN(v) THEN Quiet(v)
  ELSE IF IsInf(u) \/ IsInf(v)
       THEN IF Significand(u) = 0 \/ Significand(v) = 0 THEN Invalid ELSE PACK(sign, INF_EXP, 0)
  ELSE Rounded(sign, Significand(u) * Significand(v), Scale(u) + Scale(v) - Unit, FALSE, mode)

Extra == 2 * NUM_BITS_FRAC + 4   \* quotient bits, enough to round

Over(u, v, mode) ==
  LET sign == (u.sign + v.sign) % 2
      dividend == Significand(u) * 2^Extra
  IN
  IF IsNaN(u) THEN Quiet(u) ELSE IF IsNaN(v) THEN Quiet(v)
  ELSE IF IsInf(u) THEN (IF IsInf(v) THEN Invalid ELSE PACK(sign, INF_EXP, 0))
  ELSE IF IsInf(v) THEN Zero(sign)
  ELSE IF Significand(v) = 0 THEN (IF Significand(u) = 0 THEN Invalid ELSE PACK(sign, INF_EXP, 0))
  ELSE Rounded(sign, dividend \div Significand(v), Scale(u) - Scale(v) + Unit - Extra,
               dividend % Significand(v) # 0, mode)

-----------------------------------------------------------------------------
(***************************************************************************)
(* Between the formats.                                                    *)
(***************************************************************************)
flexfloat_exp(u, desc) == IF u.exp \in {0, INF_EXP} THEN u.exp ELSE u.exp - BIAS + flexfloat_bias(desc)

flexfloat_frac(u, desc) == u.frac \div 2^(NUM_BITS_FRAC - desc.frac_bits)

\* The significand of a normalised word, moved right until its exponent is 1.
Denormalised(u, exp) == LET shift == 1 - exp IN
  IF shift < NUM_BITS THEN (u.frac + 2^NUM_BITS_FRAC) \div 2^shift ELSE 0

flexfloat_denorm_frac(u, desc, exp) ==
  LET shift == NUM_BITS_FRAC - desc.frac_bits - exp + 1 IN
  IF u.exp = 0 THEN flexfloat_frac(u, desc)
  ELSE IF shift >= NUM_BITS THEN 0 ELSE (u.frac + 2^NUM_BITS_FRAC) \div 2^shift

flexfloat_pack(desc, sign, exp, frac) ==
  PACK(sign, IF exp = flexfloat_inf_exp(desc) THEN INF_EXP ELSE exp - flexfloat_bias(desc) + BIAS,
       frac * 2^(NUM_BITS_FRAC - desc.frac_bits))

flexfloat_denorm_pack(desc, sign, frac) == PACK(sign, 0, frac * 2^(NUM_BITS_FRAC - desc.frac_bits))

\* A number of the small format as the bits of that format, and back.
flexfloat_get_bits(u, desc) ==
  LET exp == flexfloat_exp(u, desc) IN
  [sign |-> u.sign, exp |-> IF exp = INF_EXP THEN flexfloat_inf_exp(desc) ELSE exp,
   frac |-> flexfloat_frac(u, desc)]

flexfloat_pack_bits(desc, bits) ==
  IF bits.exp = 0 /\ bits.frac = 0 THEN Zero(bits.sign)
  ELSE flexfloat_pack(desc, bits.sign, bits.exp, bits.frac)

\* The most significant of the discarded bits is set.
flexfloat_nearest_rounding(u, desc, exp) ==
  LET bits == IF exp <= 0 /\ u.exp # 0 THEN Denormalised(u, exp) ELSE u.frac IN
  (bits \div 2^(NUM_BITS_FRAC - desc.frac_bits - 1)) % 2 = 1

\* Any of the discarded bits is set, on the side to which the mode rounds.
flexfloat_inf_rounding(u, desc, exp, plus) ==
  LET small == exp <= 0 /\ u.exp # 0
      bits == IF small THEN Denormalised(u, exp) ELSE u.frac
  IN
  /\ plus = (u.sign = 0)
  /\ \/ bits % 2^(NUM_BITS_FRAC - desc.frac_bits) # 0
     \/ small /\ bits % 2^NUM_BITS_FRAC = 0

\* One unit of the last place of the small format.
flexfloat_rounding_value(u, desc, exp) ==
  IF u.exp = 0 THEN flexfloat_denorm_pack(desc, u.sign, 1)
  ELSE flexfloat_pack(desc, u.sign, (IF exp <= 0 THEN 1 ELSE exp) - desc.frac_bits, 0)

RoundsAway(u, desc, exp, mode) ==
  \/ mode = FE_TONEAREST /\ flexfloat_nearest_rounding(u, desc, exp)
  \/ mode = FE_UPWARD /\ flexfloat_inf_rounding(u, desc, exp, TRUE)
  \/ mode = FE_DOWNWARD /\ flexfloat_inf_rounding(u, desc, exp, FALSE)

Normalised(u) == IF u.exp = 0 THEN PACK(u.sign, 1, 0) ELSE u

AddRounding(u, desc, mode) ==
  LET exp == flexfloat_exp(u, desc) IN
  IF exp # INF_EXP /\ RoundsAway(u, desc, exp, mode)
  THEN Plus(u, flexfloat_rounding_value(u, desc, exp), mode)
  ELSE u

Cut_Flush(u, desc) ==  \* Mutant: no denormalised numbers.
  LET exp == flexfloat_exp(u, desc) IN
  IF u.exp = 0 \/ exp <= 0 THEN Zero(u.sign)
  ELSE IF exp = INF_EXP \/ exp >= flexfloat_inf_exp(desc)
       THEN flexfloat_pack(desc, u.sign, flexfloat_inf_exp(desc),
                           IF exp = INF_EXP THEN flexfloat_frac(u, desc) ELSE 0)
  ELSE flexfloat_pack(desc, u.sign, exp, flexfloat_frac(u, desc))

\* The bits below the small format's last place are cleared.
Cut(u, desc) ==
  LET exp == flexfloat_exp(u, desc)
      frac == flexfloat_frac(u, desc)
      shift == 1 - exp
  IN
  IF u.exp = 0 THEN u
  ELSE IF exp <= 0
       THEN IF flexfloat_denorm_frac(u, desc, exp) = 0 THEN Zero(u.sign)
            ELSE flexfloat_pack(desc, u.sign, exp,
                   IF shift < NUM_BITS_FRAC THEN frac - (frac % (2^shift)) ELSE 0)
  ELSE IF exp = INF_EXP THEN flexfloat_pack(desc, u.sign, flexfloat_inf_exp(desc), frac)
  ELSE IF exp >= flexfloat_inf_exp(desc) THEN flexfloat_pack(desc, u.sign, flexfloat_inf_exp(desc), 0)
  ELSE flexfloat_pack(desc, u.sign, exp, frac)

flexfloat_sanitize_NoRounding(u, desc, mode) == Cut(Normalised(u), desc)  \* Mutant: truncated in every mode.

flexfloat_sanitize(u, desc, mode) == Cut(AddRounding(Normalised(u), desc, mode), desc)
===============================================================================
