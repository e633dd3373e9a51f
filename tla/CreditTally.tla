------------------------------ MODULE CreditTally ------------------------------
(***************************************************************************)
(* The credit tally of one chat turn with the decimals it keeps            *)
(* (internal/server/credit.go): a debit is a JSON number with its own      *)
(* decimals and exponent, the sum is exact, and the report renders it at   *)
(* the largest scale seen.  Sums are in units of 10^-Fine.                 *)
(***************************************************************************)
EXTENDS Integers, FiniteSetsExt

CONSTANTS
    MaxScale,     \* decimals a debit may have: 18
    MaxExponent   \* the largest exponent, and the smallest negated: 18

ASSUME CreditAssumption == MaxScale \in Nat /\ MaxExponent \in Nat

Fine == MaxScale + MaxExponent

\* The "credit" of a usage object.  `digits` are those of the mantissa without
\* its point; `long` is a text of more than 64 characters.
Texts ==
    [form : {"absent", "null", "quoted", "number"}, negative : BOOLEAN,
     digits : Nat, decimals : Nat, exponent : Int, long : BOOLEAN]

\* Mutant: the exponent does not move the point.
ScaleOf_Mantissa(x) == x.decimals

ScaleOf(x) == x.decimals - x.exponent

\* record accepts it; anything else is an attempt of unknown credit.
Accepts(x) ==
    /\ x.form = "number"
    /\ ~ x.long
    /\ x.exponent \in -MaxExponent .. MaxExponent
    /\ ScaleOf(x) <= MaxScale
    /\ x.negative => x.digits = 0

\* Powers of ten.
Power[n \in Nat] == IF n = 0 THEN 1 ELSE 10 * Power[n - 1]

Amount(x) == x.digits * Power[Fine - (x.decimals - x.exponent)]

\* creditTally, without its lock and its report id.
DecimalTallies == [attempts : Nat, known : Nat, total : Nat, scale : Nat]

NewTally == [attempts |-> 0, known |-> 0, total |-> 0, scale |-> 0]

Record(t, x) ==
    IF Accepts(x)
    THEN [attempts |-> t.attempts + 1, known |-> t.known + 1,
          total |-> t.total + Amount(x), scale |-> Max({t.scale, ScaleOf(x)})]
    ELSE [t EXCEPT !.attempts = @ + 1]

\* big.Rat.FloatString: rounded half up at `scale` decimals.
FloatString(total, scale) ==
    LET unit == Power[Fine - scale]
    IN  ((total + unit \div 2) \div unit) * unit

\* apply, and errorHeaders with it.
Apply(t) ==
    [credit   |-> IF t.known > 0 THEN <<FloatString(t.total, t.scale)>> ELSE <<>>,
     attempts |-> t.attempts,
     known    |-> t.known,
     complete |-> t.attempts > 0 /\ t.known = t.attempts]
=============================================================================
