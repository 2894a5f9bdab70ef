------------------------------ MODULE FlexFloat ------------------------------
(***************************************************************************)
(* The objects of the flexfloat library and the statistics it keeps of     *)
(* them: every operation computes in the backend format, brings the result *)
(* back into the format of the destination and counts itself under that    *)
(* format in a hash table with linear probing.                             *)
(***************************************************************************)
EXTENDS FlexFloatFormat, FiniteSetsExt, Bags, TLC

CONSTANTS
  Objects,   \* the numbers of the program
  Unmade, NoResult, \* no number, no result
  Words(_),  \* what an object is made from
  MAX_TYPES, \* FLEXFLOAT_STATS_MAX_TYPES
  MaxOps     \* bound: counted operations in a session

ASSUME StatisticsAssumption == MAX_TYPES \in Nat \ {0} /\ MaxOps \in Nat \ {0}

VARIABLES
  mode,          \* fegetround
  obj,           \* [value, desc] of each object, or Unmade
  StatsEnabled,
  op_stats, cast_stats, \* the slots [key, value] of the tables
  hung,          \* ht_search goes round for ever
  left,          \* bound: counted operations left to the session
  result,        \* history: the object sanitized last and the word it held before
  rounded,       \* history: the format an object's number should be of
  counted        \* history: operations done while the statistics were on

vars == <<mode, obj, StatsEnabled, op_stats, cast_stats, hung, left, result, rounded, counted>>

Made(o) == obj[o] # Unmade
SameFormat(o, p) == Made(o) /\ Made(p) /\ obj[o].desc = obj[p].desc

-----------------------------------------------------------------------------
(***************************************************************************)
(* The statistics tables.                                                  *)
(***************************************************************************)
precision_hash(desc) == desc.exp_bits + 2^8 * desc.frac_bits
precision_hash2(desc1, desc2) ==
  precision_hash(desc1) + 2^16 * desc2.exp_bits + 2^24 * desc2.frac_bits

Counters == {"minus", "add", "sub", "mul", "div", "cmp", "total"}
NoCounts == [c \in Counters |-> 0]
Free == [key |-> 0, value |-> NoCounts]
Empty(size) == [i \in 0 .. size - 1 |-> Free]
SizeOf(table) == Cardinality(DOMAIN table)

\* The slots in the order in which they are looked at.
Probe(table, key, i) == (key + i) % SizeOf(table)
Stops(table, key) ==
  {i \in DOMAIN table : table[Probe(table, key, i)].key \in {0, key}}

\* A full table without the key: the assertion in ht_insert, which should stop
\* this, comes after the search that does not return.
SearchHangs(table, key) == Stops(table, key) = {}

SlotOf_FirstOnly(table, key) == key % SizeOf(table)  \* Mutant: no probing.
SlotOf(table, key) == Probe(table, key, Min(Stops(table, key)))

\* Search, insert if it is not there, count.
Count(table, key, counter) ==
  LET s == SlotOf(table, key)
      value == IF table[s].key = key THEN table[s].value ELSE NoCounts
  IN [table EXCEPT ![s] = [key |-> key, value |-> [value EXCEPT ![counter] = @ + 1]]]

Counted(desc, counter) ==
  LET key == precision_hash(desc) IN
  /\ hung' = (StatsEnabled /\ SearchHangs(op_stats, key))
  /\ op_stats' = IF StatsEnabled /\ ~hung' THEN Count(op_stats, key, counter) ELSE op_stats
  /\ UNCHANGED cast_stats

CountedCast(desc1, desc2) ==
  LET key == precision_hash2(desc1, desc2) IN
  /\ hung' = (StatsEnabled /\ SearchHangs(cast_stats, key))
  /\ cast_stats' = IF StatsEnabled /\ ~hung' THEN Count(cast_stats, key, "total") ELSE cast_stats
  /\ UNCHANGED op_stats

Done(name, key) ==
  /\ left' = left - 1
  /\ counted' = IF StatsEnabled /\ ~hung' THEN counted (+) SetToBag({<<name, key>>}) ELSE counted

-----------------------------------------------------------------------------
Init ==
  /\ mode \in RoundingModes
  /\ obj = [o \in Objects |-> Unmade]
  /\ StatsEnabled = TRUE
  /\ op_stats = Empty(MAX_TYPES) /\ cast_stats = Empty(MAX_TYPES * MAX_TYPES)
  /\ hung = FALSE /\ left \in 1 .. MaxOps
  /\ result = NoResult /\ counted = EmptyBag
  /\ rounded = [o \in Objects |-> Unmade]

\* An object takes a word of the backend into a format.
Store(o, word, desc) ==
  /\ obj' = [obj EXCEPT ![o] = [value |-> flexfloat_sanitize(word, desc, mode), desc |-> desc]]
  /\ result' = [of |-> o, from |-> word]
  /\ rounded' = [rounded EXCEPT ![o] = desc]

\* An object takes a word that should be a number of a format as it is.
Copy(o, word, desc, format) ==
  /\ obj' = [obj EXCEPT ![o] = [value |-> word, desc |-> desc]]
  /\ result' = NoResult
  /\ rounded' = [rounded EXCEPT ![o] = format]

NotCounted == UNCHANGED <<StatsEnabled, op_stats, cast_stats, hung, left, counted>>

ff_init(o, desc) ==
  /\ obj' = [obj EXCEPT ![o] = [value |-> Zero(0), desc |-> desc]]
  /\ result' = NoResult /\ rounded' = [rounded EXCEPT ![o] = desc]
  /\ NotCounted

\* ff_init_float, _double, _longdouble, _float128, _int and _long, by the word to
\* which the backend converts their argument.
ff_init_value(o, word, desc) == Store(o, word, desc) /\ NotCounted

FormatRead_Stored(o, source, desc) == desc  \* Mutant: the new format for the source's.

\* The source's format as ff_cast reads it, for the comparison and for the
\* statistics: obj->desc is stored before, so that an object that is cast in place
\* has its new format already.
FormatRead(o, source, desc) == IF o = source THEN desc ELSE obj[source].desc

\* History: a cast should round, but in place it cannot.
CastFormat(o, source, desc) ==
  IF o # source /\ desc # obj[source].desc THEN desc ELSE rounded[source]

ff_cast(o, source, desc) ==
  LET read == FormatRead(o, source, desc) IN
  /\ Made(source)
  /\ IF desc # read THEN Store(o, obj[source].value, desc)
     ELSE Copy(o, obj[source].value, desc, CastFormat(o, source, desc))
  /\ CountedCast(read, desc)
  /\ Done(IF o = source THEN "ff_cast in place" ELSE "ff_cast",
          precision_hash2(obj[source].desc, desc))
  /\ UNCHANGED StatsEnabled

Operation(name, counter, desc) ==
  Counted(desc, counter) /\ Done(name, precision_hash(desc)) /\ UNCHANGED StatsEnabled

ff_inverse(o, a) ==
  /\ SameFormat(o, a)
  /\ Copy(o, Negated(obj[a].value), obj[o].desc, rounded[a])
  /\ Operation("ff_inverse", "minus", obj[o].desc)

Binary(name, counter, Op(_, _, _), o, a, b) ==
  /\ SameFormat(o, a) /\ SameFormat(a, b)
  /\ Store(o, Op(obj[a].value, obj[b].value, mode), obj[o].desc)
  /\ Operation(name, counter, obj[o].desc)

ff_add(o, a, b) == Binary("ff_add", "add", Plus, o, a, b)
ff_sub(o, a, b) == Binary("ff_sub", "sub", Minus, o, a, b)
ff_mul(o, a, b) == Binary("ff_mul", "mul", Times, o, a, b)
ff_div(o, a, b) == Binary("ff_div", "div", Over, o, a, b)

\* It counts as an inversion.
ff_acc(o, a) ==
  /\ SameFormat(o, a)
  /\ Store(o, Plus(obj[o].value, obj[a].value, mode), obj[o].desc)
  /\ Operation("ff_acc", "minus", obj[o].desc)

\* ff_eq, ff_neq, ff_le, ff_lt, ff_ge and ff_gt, whose answer no state keeps.
ff_compare(a, b) ==
  /\ SameFormat(a, b)
  /\ Operation("ff_compare", "cmp", obj[a].desc)
  /\ UNCHANGED <<obj, result, rounded>>

Switch(on) ==
  /\ StatsEnabled' = on
  /\ UNCHANGED <<obj, op_stats, cast_stats, hung, left, result, rounded, counted>>

ff_start_stats == Switch(TRUE)
ff_stop_stats == Switch(FALSE)

ff_clear_stats ==
  /\ op_stats' = Empty(MAX_TYPES) /\ cast_stats' = Empty(MAX_TYPES * MAX_TYPES)
  /\ counted' = EmptyBag
  /\ UNCHANGED <<obj, StatsEnabled, hung, left, result, rounded>>

\* Bound: an object is made once.
Make ==
  \E o \in {p \in Objects : ~Made(p)}, t \in Types :
    \/ ff_init(o, t)
    \/ \E w \in Words(o) : ff_init_value(o, w, t)

Arithmetic ==
  \E o, a, b \in Objects :
    ff_add(o, a, b) \/ ff_sub(o, a, b) \/ ff_mul(o, a, b) \/ ff_div(o, a, b)

Pairs == \E a, b \in Objects : ff_inverse(a, b) \/ ff_acc(a, b) \/ ff_compare(a, b)

Casts == \E o, a \in Objects, t \in Types : ff_cast(o, a, t)

Next ==
  /\ ~hung
  /\ UNCHANGED mode
  /\ \/ Make
     \/ left > 0 /\ (Casts \/ Arithmetic \/ Pairs)
     \/ ff_start_stats \/ ff_stop_stats \/ ff_clear_stats

Spec == Init /\ [][Next]_vars

-----------------------------------------------------------------------------
(***************************************************************************)
(* Properties, against the numbers of a format as multiples of a step.     *)
(***************************************************************************)
Finite(u) == u.exp < INF_EXP
SmallestNormal(desc) == 2^(BIAS - flexfloat_bias(desc) + NUM_BITS_FRAC)
Step(n, desc) == Bigger(2^(BitLength(n) - 1), SmallestNormal(desc)) \div 2^desc.frac_bits
Largest(desc) ==
  (2^(desc.frac_bits + 1) - 1) * 2^(flexfloat_inf_exp(desc) - 2)
    * (SmallestNormal(desc) \div 2^desc.frac_bits)

\* Every object holds a number of its format, whatever was computed, cast or
\* assigned, and those that are not denormalised come back from their bits.  Only a
\* cast in place gives an object a format without rounding its number, which remains
\* one of the former format, and so do copies of it until they are rounded.
InFormat ==
  \A o \in Objects : Made(o) =>
    LET u == obj[o].value
        d == rounded[o]
        n == Magnitude(u)
    IN
    /\ Finite(u) => (n = 0 \/ (n % Step(n, d) = 0 /\ n <= Largest(d)))
    /\ (n = 0 \/ n >= SmallestNormal(d)) => flexfloat_pack_bits(d, flexfloat_get_bits(u, d)) = u

\* The number of the format next to n on the side that the mode asks for; ties go
\* away from zero.
Neighbour(n, sign, desc) ==
  LET step == IF n = 0 THEN 1 ELSE Step(n, desc)
      below == n - (n % step)
      away == CASE mode = FE_TONEAREST -> 2 * (n - below) >= step
                [] mode = FE_UPWARD -> sign = 0 /\ n # below
                [] mode = FE_DOWNWARD -> sign = 1 /\ n # below
                [] mode = FE_TOWARDZERO -> FALSE
  IN IF away THEN below + step ELSE below

\* The result of the last sanitized operation is the neighbour of the backend's
\* result, or an infinity beyond the largest number: for normalised numbers in
\* every rounding mode, for denormalised ones when rounding toward zero.  In
\* the other modes a denormalised result is off by less than two steps.  The sign
\* is kept, zero's too.
RoundedRight ==
  (result # NoResult /\ Finite(result.from)) =>
    LET u == obj[result.of].value
        d == obj[result.of].desc
        n == Magnitude(result.from)
        exact == Neighbour(n, result.from.sign, d)
    IN
    /\ u.sign = result.from.sign
    /\ IF mode = FE_TOWARDZERO \/ n >= SmallestNormal(d)
       THEN IF exact > Largest(d) THEN IsInf(u) ELSE Finite(u) /\ Magnitude(u) = exact
       ELSE Finite(u) /\ Magnitude(u) - n \in -2 * Step(1, d) + 1 .. 2 * Step(1, d) - 1

\* Two numbers of a format differ exactly if their difference is not zero, which
\* a program relies on before it divides: denormalised differences survive.  Both
\* have been rounded in their format.
\* (Rounding up or down makes a difference of zero the smallest number.)
DifferenceIsZero ==
  \A a, b \in Objects :
    (SameFormat(a, b) /\ rounded[a] = obj[a].desc /\ rounded[b] = obj[b].desc
       /\ Finite(obj[a].value) /\ Finite(obj[b].value) /\ mode \in {FE_TONEAREST, FE_TOWARDZERO}) =>
      ((Signed(obj[a].value) = Signed(obj[b].value)) <=>
         Magnitude(flexfloat_sanitize(Minus(obj[a].value, obj[b].value, mode), obj[a].desc, mode)) = 0)

\* Operations done since the tables were cleared, and casts between two formats.
CountOf(name, key) == CopiesIn(<<name, key>>, counted)
InTable(table, key) == {i \in DOMAIN table : table[i].key = key}
Total(table, key, counter) == MapThenSumSet(LAMBDA i : table[i].value[counter], InTable(table, key))

CastsInPlace(desc) ==
  MapThenSumSet(LAMBDA t : CountOf("ff_cast in place", precision_hash2(t, desc)), Types)

\* However formats collide in the tables: a format has one slot, and the slot
\* counts the format's operations since the tables were cleared; a search that
\* does not return has met a full table.  A cast in place counts as one from the
\* new format to itself.
CountedOnce ==
  /\ \A t \in Types :
       LET key == precision_hash(t) IN
       /\ Cardinality(InTable(op_stats, key)) <= 1
       /\ Total(op_stats, key, "minus") = CountOf("ff_inverse", key) + CountOf("ff_acc", key)
       /\ Total(op_stats, key, "add") = CountOf("ff_add", key)
       /\ Total(op_stats, key, "sub") = CountOf("ff_sub", key)
       /\ Total(op_stats, key, "mul") = CountOf("ff_mul", key)
       /\ Total(op_stats, key, "div") = CountOf("ff_div", key)
       /\ Total(op_stats, key, "cmp") = CountOf("ff_compare", key)
  /\ \A t, u \in Types :
       LET key == precision_hash2(t, u) IN
       /\ Cardinality(InTable(cast_stats, key)) <= 1
       /\ Total(cast_stats, key, "total") =
            CountOf("ff_cast", key) + (IF t = u THEN CastsInPlace(t) ELSE 0)
  /\ hung => InTable(op_stats, 0) = {} \/ InTable(cast_stats, 0) = {}
===============================================================================
