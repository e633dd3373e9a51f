-------------------------- MODULE ChatPayloadProofs --------------------------
(***************************************************************************)
(* For any messages, any schema of the union and any answers: the provider *)
(* gets every leaf of a message but the ones LostLeaves names, replayed    *)
(* tool calls reach it as it wrote them, and every key of a body is        *)
(* applied once, consumed, or refused.  For debits of any digits, decimals *)
(* and exponents: the tally is the exact one of CreditAccount.             *)
(***************************************************************************)
EXTENDS ChatPayload, SumTheorems, TLAPS

\* The two restorers put back all that the union drops, and nothing else.
LEMMA WireIsWhole ==
    ASSUME NEW m, WellTyped(m)
    PROVE  Wire(m) = {p \in m : ~ IsIndex(p)} \ LostLeaves(m)
<1>1. Encoded(m) \subseteq m
  BY DEF Encoded, Decoded, CallExtras
<1>2. \A p \in Wire(m) : p \in m
  BY <1>1 DEF Wire, Stripped
<1>3. ASSUME NEW p \in m, p[1] # "tool_calls"
      PROVE  p \in Wire(m) /\ ~ IsIndex(p) /\ p \notin LostLeaves(m)
  <2>1. ~ InCall(p)
    BY <1>3 DEF InCall
  <2>2. CASE p[1] \in MessageExtras(m)
    BY <1>3, <2>1, <2>2 DEF Wire, Stripped, IsIndex, LostLeaves
  <2>3. CASE p[1] \notin MessageExtras(m)
    <3>1. p \in Encoded(m)
      BY <1>3, <2>3 DEF MessageExtras, Survives, Keys
    <3> QED
      BY <3>1, <2>1, <2>3 DEF Wire, IsIndex, LostLeaves
  <2> QED
    BY <2>2, <2>3
<1>4. ASSUME NEW p \in m, p[1] = "tool_calls", ~ restorerOwnsToolCalls(m)
      PROVE  (p \in Wire(m) <=> ~ IsIndex(p)) /\ p \notin LostLeaves(m)
  <2>1. p[1] \in MessageExtras(m)
    BY <1>4 DEF MessageExtras, Survives, Keys
  <2>2. p \notin LostLeaves(m)
    BY <1>4 DEF LostLeaves
  <2>3. p \in Wire(m) <=> p \in UNION {Stripped(m, k) : k \in MessageExtras(m)}
    BY <2>1 DEF Wire
  <2>4. p \in UNION {Stripped(m, k) : k \in MessageExtras(m)} <=> p \in Stripped(m, p[1])
    BY <2>1 DEF Stripped
  <2> QED
    BY <2>2, <2>3, <2>4 DEF Stripped
<1>5. ASSUME NEW p \in m, p[1] = "tool_calls", restorerOwnsToolCalls(m)
      PROVE  p \in Wire(m) <=> ~ IsIndex(p) /\ p \notin LostLeaves(m)
  <2>1. p[1] \notin MessageExtras(m)
    BY <1>5 DEF MessageExtras, Survives
  <2>2. p \in Wire(m) <=> p \in Encoded(m)
    BY <2>1 DEF Wire, Stripped
  <2>3. Assistant(m) /\ InCall(p)
    <3>1. PICK c \in CallsOf(m) : TRUE
      BY <1>5 DEF restorerOwnsToolCalls
    <3>2. Assistant(m) /\ \E q \in m : InCall(q)
      BY <3>1 DEF CallsOf
    <3> QED
      BY <3>2, <1>5 DEF WellTyped
  <2>4. p[2] \in FunctionCalls(m)
    BY <1>5, <2>3 DEF restorerOwnsToolCalls, CallsOf
  <2>5. IsIndex(p) => p \notin Encoded(m)
    BY <2>3, ModelledAssumption, <1>5 DEF IsIndex, Encoded, Decoded, CallExtras
  <2>6. p \in LostLeaves(m) => p \notin Encoded(m)
    BY DEF LostLeaves, Encoded, Decoded, CallExtras
  <2>7. ~ IsIndex(p) /\ p \notin LostLeaves(m) => p \in Encoded(m)
    <3>1. CASE p[3] \in {"id", "type"}
      BY <3>1, <2>3 DEF WellTyped, Encoded, Decoded
    <3>2. CASE p[3] = "function"
      BY <3>2, <2>3, <1>5 DEF LostLeaves, Encoded, Decoded
    <3>3. CASE p[3] \notin {"id", "type", "function"}
      BY <3>3, <2>3, <2>4 DEF IsIndex, Encoded, CallExtras
    <3> QED
      BY <3>1, <3>2, <3>3
  <2> QED
    BY <2>2, <2>5, <2>6, <2>7
<1> QED
  BY <1>2, <1>3, <1>4, <1>5

\* The struct, the two lists of keys and BuildOptions are in step.
LEMMA KeysInStep ==
    ASSUME NEW b, IsBody(b), ~ Undecodable(b), ~ Refused(b)
    PROVE  /\ Options(b) \cap ExtraBody(b) = {}
           /\ (Options(b) \cup ExtraBody(b)) \cap Reserved = {}
           /\ Options(b) \cup ExtraBody(b) \subseteq DOMAIN b
           /\ {k \in DOMAIN b : b[k] \in {"good", "bad", "other"}}
                  \subseteq Options(b) \cup ExtraBody(b) \cup Consumed
<1>1. Options(b) \subseteq Pointers \cup {"stop"}
  BY DEF Options
<1>2. ExtraBody(b) \cap (Pointers \cup {"stop"} \cup Reserved) = {}
  BY DEF ExtraBody, ExtraFields, modeledTopLevelKeys, droppedTopLevelKeys,
         Pointers, Verbatim, Reserved
<1>3. (Pointers \cup {"stop"}) \cap Reserved = {}
  BY DEF Pointers, Reserved
<1>4. Options(b) \cup ExtraBody(b) \subseteq DOMAIN b
  BY DEF Options, ExtraBody, ExtraFields, Absent, NullOrEmpty
<1>5. ASSUME NEW k \in DOMAIN b, b[k] \in {"good", "bad", "other"},
             k \notin Consumed
      PROVE  k \in Options(b) \cup ExtraBody(b)
  <2>1. CASE k \in Pointers
    BY <1>5, <2>1 DEF Options, Absent
  <2>2. CASE k = "stop" \/ k \in Verbatim
    BY <1>5, <2>2 DEF Options, ExtraBody, NullOrEmpty
  <2>3. k # "functions"
    BY <1>5 DEF Refused, StopDecodes, NullOrEmpty
  <2>4. CASE k \notin Pointers \cup {"stop"} \cup Verbatim
    BY <1>5, <2>3, <2>4 DEF ExtraBody, ExtraFields, modeledTopLevelKeys,
                            droppedTopLevelKeys, Consumed, Reserved
  <2> QED
    BY <2>1, <2>2, <2>4
<1> QED
  BY <1>1, <1>2, <1>3, <1>4, <1>5

-----------------------------------------------------------------------------
(* Powers of ten.                                                          *)

\* h is a table of powers of ten over D.
Powers(h, D) == h = [n \in D |-> IF n = 0 THEN 1 ELSE 10 * h[n - 1]]

\* Tables of powers agree where both are defined.
LEMMA PowersAgree ==
    ASSUME NEW n \in Nat, NEW D, 0..n \subseteq D, NEW E, 0..n \subseteq E,
           NEW g, Powers(g, D), NEW h, Powers(h, E)
    PROVE  g[n] = h[n]
<1> DEFINE Bad == {i \in 0..n : g[i] # h[i]}
<1> SUFFICES ASSUME Bad # {} PROVE FALSE
  OBVIOUS
<1>1. PICK i \in Bad : \A j \in Bad : i <= j
  <2>1. Bad \in SUBSET Nat
    OBVIOUS
  <2> HIDE DEF Bad
  <2> QED
    BY <2>1, SmallestNat
<1>2. i \in 0..n /\ i \in D /\ i \in E /\ g[i] # h[i]
  OBVIOUS
<1>3. /\ g[i] = IF i = 0 THEN 1 ELSE 10 * g[i - 1]
      /\ h[i] = IF i = 0 THEN 1 ELSE 10 * h[i - 1]
  BY <1>2 DEF Powers
<1>4. i # 0 /\ i - 1 \in 0..n
  BY <1>2, <1>3
<1>5. g[i - 1] = h[i - 1]
  BY <1>1, <1>4
<1> QED
  BY <1>2, <1>3, <1>5

\* There is a table of all powers.
LEMMA PowersExist == \E h : Powers(h, Nat)
<1> DEFINE Missing == {n \in Nat : ~ \E h : Powers(h, 0..n)}
<1>1. Missing = {}
  <2> SUFFICES ASSUME Missing # {} PROVE FALSE
    OBVIOUS
  <2>1. PICK n \in Missing : \A m \in Missing : n <= m
    <3>1. Missing \in SUBSET Nat
      OBVIOUS
    <3> HIDE DEF Missing
    <3> QED
      BY <3>1, SmallestNat
  <2>2. n # 0
    <3>1. Powers([i \in 0..0 |-> 1], 0..0)
      BY DEF Powers
    <3> QED
      BY <3>1
  <2>3. n - 1 \in Nat /\ n - 1 \notin Missing
    BY <2>1, <2>2
  <2>4. PICK g : Powers(g, 0..(n - 1))
    BY <2>3
  <2> DEFINE h == [i \in 0..n |-> IF i = 0 THEN 1 ELSE 10 * g[i - 1]]
  <2>5. \A i \in 0..(n - 1) : h[i] = g[i]
    BY <2>3, <2>4 DEF Powers
  <2>6. \A i \in 0..n : h[i] = IF i = 0 THEN 1 ELSE 10 * h[i - 1]
    <3>1. TAKE i \in 0..n
    <3>2. CASE i = 0
      BY <3>2
    <3>3. CASE i # 0
      <4>1. i - 1 \in 0..(n - 1)
        BY <2>3, <3>3
      <4>2. h[i - 1] = g[i - 1]
        BY <2>5, <4>1
      <4>3. h[i] = 10 * g[i - 1]
        BY <3>3
      <4> HIDE DEF h
      <4> QED
        BY <3>3, <4>2, <4>3
    <3> QED
      BY <3>2, <3>3
  <2>7. h = [i \in 0..n |-> h[i]]
    OBVIOUS
  <2> HIDE DEF h
  <2>8. Powers(h, 0..n)
    BY <2>6, <2>7 DEF Powers
  <2> QED
    BY <2>1, <2>8
<1> DEFINE G(n) == CHOOSE h : Powers(h, 0..n)
           all == [n \in Nat |-> G(n)[n]]
<1>2. \A n \in Nat : Powers(G(n), 0..n)
  BY <1>1
<1> HIDE DEF G
<1>3. \A n \in Nat : G(n)[n] = IF n = 0 THEN 1 ELSE 10 * G(n - 1)[n - 1]
  <2>1. TAKE n \in Nat
  <2>2. G(n)[n] = IF n = 0 THEN 1 ELSE 10 * G(n)[n - 1]
    BY <1>2 DEF Powers
  <2>3. CASE n = 0
    BY <2>2, <2>3
  <2>4. CASE n # 0
    <3>1. n - 1 \in Nat /\ 0..(n - 1) \subseteq 0..n
      BY <2>4
    <3>2. Powers(G(n), 0..n) /\ Powers(G(n - 1), 0..(n - 1))
      BY <1>2, <3>1
    <3>3. G(n)[n - 1] = G(n - 1)[n - 1]
      BY <3>1, <3>2, PowersAgree
    <3> QED
      BY <2>2, <2>4, <3>3
  <2> QED
    BY <2>3, <2>4
<1>4. all = [n \in Nat |-> IF n = 0 THEN 1 ELSE 10 * all[n - 1]]
  BY <1>3
<1> QED
  BY <1>4 DEF Powers

\* Every power is ten times the one before.
LEMMA PowerSteps ==
    Power[0] = 1 /\ \A n \in Nat : Power[n + 1] = 10 * Power[n]
<1>1. Power = [n \in Nat |-> IF n = 0 THEN 1 ELSE 10 * Power[n - 1]]
  BY PowersExist DEF Power, Powers
<1> QED
  BY <1>1

\* No power is zero.
LEMMA PowerPositive ==
    ASSUME NEW n \in Nat
    PROVE  Power[n] \in Nat /\ Power[n] > 0
<1> DEFINE Bad == {i \in Nat : ~ (Power[i] \in Nat /\ Power[i] > 0)}
<1> SUFFICES ASSUME Bad # {} PROVE FALSE
  OBVIOUS
<1>1. PICK i \in Bad : \A j \in Bad : i <= j
  <2>1. Bad \in SUBSET Nat
    OBVIOUS
  <2> HIDE DEF Bad
  <2> QED
    BY <2>1, SmallestNat
<1>2. i # 0
  BY PowerSteps
<1>3. i - 1 \in Nat /\ i - 1 \notin Bad
  BY <1>1, <1>2
<1>4. Power[(i - 1) + 1] = 10 * Power[i - 1]
  BY <1>3, PowerSteps
<1>5. (i - 1) + 1 = i
  BY <1>3
<1>6. Power[i - 1] \in Nat /\ Power[i - 1] > 0
  BY <1>3
<1> QED
  BY <1>4, <1>5, <1>6

\* The powers of a sum of exponents.
LEMMA PowerSum ==
    ASSUME NEW a \in Nat, NEW b \in Nat
    PROVE  Power[a + b] = Power[a] * Power[b]
<1> DEFINE Bad == {i \in Nat : Power[a + i] # Power[a] * Power[i]}
<1> SUFFICES ASSUME Bad # {} PROVE FALSE
  OBVIOUS
<1>1. PICK i \in Bad : \A j \in Bad : i <= j
  <2>1. Bad \in SUBSET Nat
    OBVIOUS
  <2> HIDE DEF Bad
  <2> QED
    BY <2>1, SmallestNat
<1>2. i # 0
  <2>1. Power[a] \in Nat /\ a + 0 = a
    BY PowerPositive
  <2> QED
    BY <2>1, PowerSteps
<1>3. i - 1 \in Nat /\ i - 1 \notin Bad
  BY <1>1, <1>2
<1> DEFINE p == Power[a]
           q == Power[i - 1]
<1>4. p \in Nat /\ q \in Nat
  BY <1>3, PowerPositive
<1>5. Power[a + (i - 1)] = p * q
  BY <1>3
<1>6. Power[(a + (i - 1)) + 1] = 10 * Power[a + (i - 1)]
  <2>1. a + (i - 1) \in Nat
    BY <1>3
  <2> QED
    BY <2>1, PowerSteps
<1>7. Power[(i - 1) + 1] = 10 * q
  BY <1>3, PowerSteps
<1>8. (a + (i - 1)) + 1 = a + i /\ (i - 1) + 1 = i
  BY <1>3
<1>9. 10 * (p * q) = p * (10 * q)
  <2> HIDE DEF p, q
  <2> QED
    BY <1>4
<1> QED
  BY <1>5, <1>6, <1>7, <1>8, <1>9

\* A whole number of units is not rounded.
LEMMA NoRounding ==
    ASSUME NEW n \in Nat, NEW u \in Nat, u > 0
    PROVE  ((n * u + u \div 2) \div u) * u = n * u
<1>1. u \div 2 \in Nat /\ u \div 2 < u
  OBVIOUS
<1> DEFINE r == u \div 2
<1> HIDE DEF r
<1>2. r \in Nat /\ r < u
  BY <1>1 DEF r
<1>3. (n * u + r) \div u = n
  BY <1>2
<1> QED
  BY <1>3 DEF r

-----------------------------------------------------------------------------
(* The tally.                                                              *)

\* The sum of a tally is a whole number of units of its scale.
Exact(t) ==
    /\ t.scale <= MaxScale
    /\ \E n \in Nat : t.total = n * Power[Fine - t.scale]

\* A debit the tally accepts is a natural number of units of its scale.
LEMMA AmountsAreWhole ==
    ASSUME NEW x \in Texts, Accepts(x)
    PROVE  /\ ScaleOf(x) \in Int /\ ScaleOf(x) <= MaxScale
           /\ Fine - ScaleOf(x) \in Nat
           /\ x.digits \in Nat
           /\ Amount(x) = x.digits * Power[Fine - ScaleOf(x)]
           /\ Amount(x) \in Nat
<1>1. x.digits \in Nat /\ x.decimals \in Nat /\ x.exponent \in Int
  BY DEF Texts
<1>2. ScaleOf(x) \in Int /\ ScaleOf(x) <= MaxScale
  BY <1>1 DEF Accepts, ScaleOf
<1>3. Fine - ScaleOf(x) \in Nat
  BY <1>2, CreditAssumption DEF Fine
<1>4. Amount(x) = x.digits * Power[Fine - ScaleOf(x)]
  BY DEF Amount, ScaleOf
<1>5. Power[Fine - ScaleOf(x)] \in Nat
  BY <1>3, PowerPositive
<1> DEFINE d == x.digits
           q == Power[Fine - ScaleOf(x)]
<1>6. d * q \in Nat
  <2>1. d \in Nat /\ q \in Nat
    BY <1>1, <1>5
  <2> HIDE DEF d, q
  <2> QED
    BY <2>1
<1> QED
  BY <1>1, <1>2, <1>3, <1>4, <1>6

\* A number of units of one scale is a number of those of a finer one.
LEMMA Rescaled ==
    ASSUME NEW n \in Nat, NEW s \in Int, NEW z \in Nat, s <= z, z <= MaxScale
    PROVE  \E k \in Nat : n * Power[Fine - s] = k * Power[Fine - z]
<1>1. z - s \in Nat /\ Fine - z \in Nat /\ (z - s) + (Fine - z) = Fine - s
  BY CreditAssumption DEF Fine
<1> DEFINE a == Power[z - s]
           b == Power[Fine - z]
<1>2. a \in Nat /\ b \in Nat
  BY <1>1, PowerPositive
<1>3. Power[(z - s) + (Fine - z)] = a * b
  BY <1>1, PowerSum
<1>4. Power[Fine - s] = a * b
  BY <1>1, <1>3
<1> HIDE DEF a, b
<1>5. n * (a * b) = (n * a) * b /\ n * a \in Nat
  BY <1>2
<1>6. n * Power[Fine - s] = (n * a) * b
  BY <1>4, <1>5
<1> QED
  BY <1>5, <1>6 DEF b

\* record keeps the sum exact, whatever the scales.
LEMMA RecordExact ==
    ASSUME NEW t \in DecimalTallies, Exact(t), NEW x \in Texts
    PROVE  Record(t, x) \in DecimalTallies /\ Exact(Record(t, x))
<1>1. /\ t.attempts \in Nat /\ t.known \in Nat /\ t.total \in Nat /\ t.scale \in Nat
  BY DEF DecimalTallies
<1>2. CASE ~ Accepts(x)
  <2>1. Record(t, x) = [t EXCEPT !.attempts = @ + 1]
    BY <1>2 DEF Record
  <2>2. Record(t, x) \in DecimalTallies
    BY <1>1, <2>1 DEF DecimalTallies
  <2>3. Record(t, x).scale = t.scale /\ Record(t, x).total = t.total
    BY <2>1 DEF DecimalTallies
  <2> QED
    BY <2>2, <2>3 DEF Exact
<1>3. CASE Accepts(x)
  <2> DEFINE a == Amount(x)
             s == ScaleOf(x)
             z == Max({t.scale, s})
  <2>1. /\ s \in Int /\ s <= MaxScale /\ a \in Nat /\ x.digits \in Nat
        /\ a = x.digits * Power[Fine - s]
    BY <1>3, AmountsAreWhole
  <2>2. t.scale <= MaxScale
    BY DEF Exact
  <2>3. z \in Nat /\ t.scale <= z /\ s <= z /\ z <= MaxScale
    <3> HIDE DEF s
    <3>1. z = IF s <= t.scale THEN t.scale ELSE s
      <4>1. CASE s <= t.scale
        BY <1>1, <2>1, <4>1 DEF Max
      <4>2. CASE ~ (s <= t.scale)
        BY <1>1, <2>1, <4>2 DEF Max
      <4> QED
        BY <4>1, <4>2
    <3> QED
      BY <1>1, <2>1, <2>2, <3>1
  <2> HIDE DEF a, s, z
  <2>4. Record(t, x) = [attempts |-> t.attempts + 1, known |-> t.known + 1,
                        total |-> t.total + a, scale |-> z]
    BY <1>3 DEF Record, a, s, z
  <2>5. Record(t, x) \in DecimalTallies
    BY <1>1, <2>1, <2>3, <2>4 DEF DecimalTallies
  <2>6. PICK k \in Nat : t.total = k * Power[Fine - z]
    <3>1. PICK n \in Nat : t.total = n * Power[Fine - t.scale]
      BY DEF Exact
    <3>2. t.scale \in Int
      BY <1>1
    <3>3. \E k \in Nat : n * Power[Fine - t.scale] = k * Power[Fine - z]
      BY <2>3, <3>2, Rescaled
    <3> QED
      BY <3>1, <3>3
  <2>7. PICK j \in Nat : a = j * Power[Fine - z]
    <3>1. \E j \in Nat : x.digits * Power[Fine - s] = j * Power[Fine - z]
      BY <2>1, <2>3, Rescaled
    <3> QED
      BY <2>1, <3>1
  <2> DEFINE q == Power[Fine - z]
  <2>8. q \in Nat
    <3>1. Fine - z \in Nat
      BY <2>3, CreditAssumption DEF Fine
    <3> QED
      BY <3>1, PowerPositive
  <2>9. k * q + j * q = (k + j) * q /\ k + j \in Nat
    <3> HIDE DEF q
    <3> QED
      BY <2>8
  <2>10. t.total + a = (k + j) * Power[Fine - z]
    BY <2>6, <2>7, <2>9
  <2>11. Record(t, x).total = t.total + a /\ Record(t, x).scale = z
    BY <2>4
  <2>12. Exact(Record(t, x))
    BY <2>3, <2>9, <2>10, <2>11 DEF Exact
  <2> QED
    BY <2>5, <2>12
<1> QED
  BY <1>2, <1>3

\* The text a report renders is the sum itself.
LEMMA RendersExactly ==
    ASSUME NEW t \in DecimalTallies, Exact(t)
    PROVE  FloatString(t.total, t.scale) = t.total
<1>1. t.scale \in Nat /\ t.scale <= MaxScale
  BY DEF DecimalTallies, Exact
<1>2. PICK n \in Nat : t.total = n * Power[Fine - t.scale]
  BY DEF Exact
<1>3. Fine - t.scale \in Nat
  BY <1>1, CreditAssumption DEF Fine
<1> DEFINE u == Power[Fine - t.scale]
<1>4. u \in Nat /\ u > 0
  BY <1>3, PowerPositive
<1>5. FloatString(t.total, t.scale) = ((t.total + u \div 2) \div u) * u
  BY DEF FloatString
<1> HIDE DEF u
<1>6. ((n * u + u \div 2) \div u) * u = n * u
  BY <1>4, NoRounding
<1>7. t.total = n * u
  BY <1>2 DEF u
<1> QED
  BY <1>5, <1>6, <1>7

\* The tally of a new turn is exact.
LEMMA NewTallyExact == NewTally \in DecimalTallies /\ Exact(NewTally)
<1>1. Fine \in Nat /\ Fine - 0 = Fine
  BY CreditAssumption DEF Fine
<1>2. Power[Fine] \in Nat
  BY <1>1, PowerPositive
<1>3. 0 = 0 * Power[Fine - 0]
  BY <1>1, <1>2
<1> QED
  BY <1>3, CreditAssumption DEF NewTally, DecimalTallies, Exact

-----------------------------------------------------------------------------
(* The invariant.                                                          *)

\* What the client holds of the last answer is the answer with its indexes.
ReplyHolds ==
    /\ \A p \in answered : InCall(p) /\ ~ IsIndex(p)
    /\ answered \subseteq reply
    /\ \A p \in reply : p \in answered \/ IsIndex(p)
    /\ WellTyped(reply)

\* While a call goes out, what it carries was converted from what was received.
IInv ==
    /\ stage \in {"received", "calling"} => IsBody(body) /\ WellTyped(message)
    /\ stage = "calling" =>
           /\ wire = Wire(message)
           /\ keys = [options |-> Options(body), extra |-> ExtraBody(body)]
           /\ ~ Undecodable(body) /\ ~ Refused(body)
    /\ ReplyHolds

\* What the client makes of an answer is well typed with its indexes.
LEMMA ReplyWellTyped ==
    ASSUME NEW a, WellTyped(a), \A p \in a : InCall(p) /\ ~ IsIndex(p)
    PROVE  /\ a \subseteq DeltaToolCalls(a)
           /\ \A p \in DeltaToolCalls(a) : p \in a \/ IsIndex(p)
           /\ WellTyped(DeltaToolCalls(a))
<1>1. \A p \in DeltaToolCalls(a) : p \in a \/ IsIndex(p)
  <2> SUFFICES ASSUME NEW p \in a
               PROVE  IsIndex(<<"tool_calls", p[2], "index", "int">>)
    BY DEF DeltaToolCalls
  <2> QED
    BY DEF IsIndex, InCall
<1>2. \A p \in DeltaToolCalls(a) : InCall(p)
  BY <1>1 DEF IsIndex
<1>3. WellTyped(DeltaToolCalls(a))
  BY <1>1, <1>2 DEF WellTyped, IsIndex
<1> QED
  BY <1>1, <1>3 DEF DeltaToolCalls

\* A replayed answer is a message the union decodes.
LEMMA ReplayWellTyped ==
    ASSUME ReplyHolds, NEW m \in Replayed
    PROVE  /\ WellTyped(m)
           /\ {p \in m : p[1] = "tool_calls"} = reply
<1>1. \A p \in reply : InCall(p) /\ p[1] = "tool_calls"
  BY DEF ReplyHolds, IsIndex, InCall
<1>2. PICK c \in {{<<"role", "assistant">>},
                  {<<"role", "assistant">>, <<"content", "null">>}} : m = reply \cup c
  BY DEF Replayed
<1>3. \A p \in c : p[1] # "tool_calls"
  BY <1>2
<1>4. {p \in m : p[1] = "tool_calls"} = reply
  BY <1>1, <1>2, <1>3
<1>5. \A p \in m : InCall(p) => p \in reply
  BY <1>4 DEF InCall
<1> QED
  BY <1>1, <1>4, <1>5 DEF WellTyped, ReplyHolds

\* Before the first turn nothing is converted or held.
LEMMA InitIInv == Init => IInv
  BY DEF Init, IInv, ReplyHolds, WellTyped

\* Every step keeps the invariant.
LEMMA StepIInv == IInv /\ [Next]_vars => IInv'
<1> SUFFICES ASSUME IInv, [Next]_vars
             PROVE  IInv'
  OBVIOUS
<1>1. ASSUME NEW q \in Requests, Receive(q.body, q.message)
      PROVE  IInv'
  BY <1>1, PayloadAssumption DEF Receive, IInv, ReplyHolds, replyVars
<1>2. ASSUME NEW m \in Replayed, Receive(ReplayBody, m)
      PROVE  IInv'
  <2>1. WellTyped(m)
    BY ReplayWellTyped DEF IInv
  <2> QED
    BY <1>2, <2>1, PayloadAssumption DEF Receive, IInv, ReplyHolds, replyVars
<1>3. CASE Build
  <2>1. CASE Undecodable(body) \/ Refused(body)
    BY <1>3, <2>1 DEF Build, IInv, ReplyHolds, replyVars
  <2>2. CASE ~ (Undecodable(body) \/ Refused(body))
    <3>1. /\ stage = "received" /\ stage' = "calling"
          /\ body' = body /\ message' = message
          /\ wire' = Wire(message)
          /\ keys' = [options |-> Options(body), extra |-> ExtraBody(body)]
          /\ answered' = answered /\ reply' = reply
      BY <1>3, <2>2 DEF Build, replyVars
    <3> QED
      BY <3>1, <2>2 DEF IInv, ReplyHolds
  <2> QED
    BY <2>1, <2>2
<1>4. ASSUME NEW x \in Debits, Attempt(x)
      PROVE  IInv'
  BY <1>4 DEF Attempt, IInv, ReplyHolds, replyVars
<1>5. ASSUME NEW calls \in Answers \cup {{}}, Respond(calls)
      PROVE  IInv'
  <2>1. WellTyped(calls) /\ \A p \in calls : InCall(p) /\ ~ IsIndex(p)
    BY PayloadAssumption DEF WellTyped
  <2>2. /\ stage' = "answered" /\ answered' = calls
        /\ reply' \in {calls, DeltaToolCalls(calls)}
    BY <1>5 DEF Respond
  <2>3. /\ calls \subseteq DeltaToolCalls(calls)
        /\ \A p \in DeltaToolCalls(calls) : p \in calls \/ IsIndex(p)
        /\ WellTyped(DeltaToolCalls(calls))
    BY <2>1, ReplyWellTyped
  <2> QED
    BY <2>1, <2>2, <2>3 DEF IInv, ReplyHolds
<1>6. CASE Return
  BY <1>6 DEF Return, IInv, ReplyHolds, replyVars
<1>7. CASE UNCHANGED vars
  BY <1>7 DEF vars, sentVars, replyVars, IInv, ReplyHolds
<1> QED
  BY <1>1, <1>2, <1>3, <1>4, <1>5, <1>6, <1>7 DEF Next

\* The invariant holds throughout.
LEMMA SpecIInv == Spec => []IInv
  BY InitIInv, StepIInv, PTL DEF Spec

\* Every key of a body is applied once, consumed or refused
\* (ChatRequest.UnmarshalJSON, passThroughFields, BuildOptions).
THEOREM EveryKeyIsAccountedFor == Spec => []KeysAccountedFor
<1>1. IInv => KeysAccountedFor
  BY KeysInStep DEF IInv, KeysAccountedFor
<1> QED
  BY <1>1, SpecIInv, PTL

\* No message loses a leaf to the union but those LostLeaves names
\* (restoreToolCallExtras, restoreMessageExtras).
THEOREM EveryMessageArrives == Spec => []MessagesArriveWhole
<1>1. IInv => MessagesArriveWhole
  BY WireIsWhole DEF IInv, MessagesArriveWhole
<1> QED
  BY <1>1, SpecIInv, PTL

\* Tool calls survive the client's replay (DeltaToolCall.MarshalJSON, then the
\* two restorers) leaf by leaf, but for the extras inside a `function` that
\* LostLeaves names: nothing else is lost, and nothing is added.
THEOREM EveryReplayIsVerbatim == Spec => []CallsReplayVerbatim
<1>1. ASSUME IInv, stage = "calling", message \in Replayed
      PROVE  answered \ LostLeaves(message) = {p \in wire : p[1] = "tool_calls"}
  <2>1. wire = {p \in message : ~ IsIndex(p)} \ LostLeaves(message)
    BY <1>1, WireIsWhole DEF IInv
  <2>2. {p \in message : p[1] = "tool_calls"} = reply
    BY <1>1, ReplayWellTyped DEF IInv
  <2>3. {p \in reply : ~ IsIndex(p)} = answered
    BY <1>1 DEF IInv, ReplyHolds
  <2> QED
    BY <2>1, <2>2, <2>3
<1>2. IInv => CallsReplayVerbatim
  BY <1>1 DEF CallsReplayVerbatim
<1> QED
  BY <1>2, SpecIInv, PTL

-----------------------------------------------------------------------------
(* Ranges.                                                                 *)

\* What is not converted yet is not there, and nothing is reported early.
Stages ==
    /\ stage # "calling" => keys = NoKeys
    /\ stage # "answered" => report = <<>>
    /\ Exact(tally)

Ranges == TypeOK /\ Stages

\* Short tuples are sequences.
LEMMA ShortSequences ==
    ASSUME NEW S, NEW a \in S, NEW b \in S
    PROVE  /\ <<a, b>> \in Seq(S) /\ <<a, b>> # <<>>
           /\ \A c, d \in S :
                  <<a, b, c, d>> \in Seq(S) /\ <<a, b, c, d>> # <<>>
  OBVIOUS

\* The provider gets leaves of the message, and the client those of an answer.
LEMMA MessagesOfLeaves ==
    /\ \A m : IsMessage(m) => IsMessage(Wire(m))
    /\ \A a : /\ IsMessage(a) /\ (\A p \in a : InCall(p))
              => IsMessage(DeltaToolCalls(a))
    /\ \A m \in Replayed : IsMessage(reply) => IsMessage(m)
<1>1. ASSUME NEW m, IsMessage(m)
      PROVE  IsMessage(Wire(m))
  <2>1. Wire(m) \subseteq m
    BY DEF Wire, Encoded, Decoded, CallExtras, Stripped
  <2> QED
    BY <1>1, <2>1 DEF IsMessage
<1>2. ASSUME NEW a, IsMessage(a), \A p \in a : InCall(p)
      PROVE  IsMessage(DeltaToolCalls(a))
  <2> SUFFICES ASSUME NEW p \in a
               PROVE  /\ <<"tool_calls", p[2], "index", "int">> \in Seq(STRING)
                      /\ <<"tool_calls", p[2], "index", "int">> # <<>>
    BY <1>2 DEF DeltaToolCalls, IsMessage
  <2>1. p \in Seq(STRING) /\ Len(p) > 2
    BY <1>2 DEF IsMessage, InCall
  <2>2. p[2] \in STRING
    BY <2>1
  <2>3. "tool_calls" \in STRING /\ "index" \in STRING /\ "int" \in STRING
    BY PayloadAssumption DEF OwnWords
  <2> QED
    BY <2>2, <2>3, ShortSequences
<1>3. ASSUME NEW m \in Replayed, IsMessage(reply)
      PROVE  IsMessage(m)
  <2>1. \A p \in m : \/ p \in reply
                     \/ p = <<"role", "assistant">> \/ p = <<"content", "null">>
    BY DEF Replayed
  <2>2. /\ <<"role", "assistant">> \in Seq(STRING) /\ <<"role", "assistant">> # <<>>
        /\ <<"content", "null">> \in Seq(STRING) /\ <<"content", "null">> # <<>>
    <3>1. /\ "role" \in STRING /\ "assistant" \in STRING
          /\ "content" \in STRING /\ "null" \in STRING
      BY PayloadAssumption DEF OwnWords
    <3> QED
      BY <3>1, ShortSequences
  <2> QED
    BY <1>3, <2>1, <2>2 DEF IsMessage
<1> QED
  BY <1>1, <1>2, <1>3

\* Before the first turn everything is in its range.
LEMMA InitTyped == Init => Ranges
<1> SUFFICES ASSUME Init
             PROVE  Ranges
  OBVIOUS
<1>1. turns \in 0 .. MaxTurns
  BY PayloadAssumption DEF Init
<1>2. IsBody(body) /\ IsMessage(message \cup wire \cup answered \cup reply)
  BY DEF Init, IsBody, IsMessage
<1>3. tally \in DecimalTallies /\ Exact(tally)
  BY NewTallyExact DEF Init, Exact
<1> QED
  BY <1>1, <1>2, <1>3 DEF Init, Ranges, TypeOK, Stages, NoKeys

\* Every step stays in range.
LEMMA StepTyped == IInv /\ Ranges /\ [Next]_vars => Ranges'
<1> SUFFICES ASSUME IInv, Ranges, [Next]_vars
             PROVE  Ranges'
  OBVIOUS
<1>0. \A m, n : IsMessage(m \cup n) <=> IsMessage(m) /\ IsMessage(n)
  BY DEF IsMessage
<1>m. /\ IsMessage(message) /\ IsMessage(wire)
      /\ IsMessage(answered) /\ IsMessage(reply)
  BY <1>0 DEF Ranges, TypeOK
<1>e. IsMessage({}) /\ IsBody(<<>>)
  BY DEF IsMessage, IsBody
<1>p. ASSUME NEW b, NEW m, Receive(b, m), IsBody(b), IsMessage(m)
      PROVE  Ranges'
  <2>1. /\ stage = "idle" /\ turns < MaxTurns /\ turns' = turns + 1
        /\ stage' = "received" /\ body' = b /\ message' = m
        /\ wire' = wire /\ keys' = keys /\ tally' = tally /\ report' = report
        /\ answered' = answered /\ reply' = reply
    BY <1>p DEF Receive, replyVars
  <2>2. turns' \in 0 .. MaxTurns
    BY <2>1, PayloadAssumption DEF Ranges, TypeOK
  <2>3. keys = NoKeys /\ report = <<>>
    BY <2>1 DEF Ranges, Stages
  <2>4. IsMessage(message' \cup wire' \cup answered' \cup reply')
    BY <1>0, <1>m, <1>p, <2>1
  <2> QED
    BY <1>p, <2>1, <2>2, <2>3, <2>4 DEF Ranges, TypeOK, Stages, NoKeys, Exact
<1>1. ASSUME NEW q \in Requests, Receive(q.body, q.message)
      PROVE  Ranges'
  BY <1>1, <1>p, PayloadAssumption
<1>2. ASSUME NEW m \in Replayed, Receive(ReplayBody, m)
      PROVE  Ranges'
  BY <1>2, <1>m, <1>p, MessagesOfLeaves, PayloadAssumption
<1>3. CASE Build
  <2>0. /\ stage = "received" /\ turns' = turns /\ tally' = tally
        /\ report' = report /\ answered' = answered /\ reply' = reply
    BY <1>3 DEF Build, replyVars
  <2>1. CASE Undecodable(body) \/ Refused(body)
    <3>1. /\ stage' = "idle" /\ body' = <<>> /\ message' = {}
          /\ wire' = wire /\ keys' = keys
      BY <1>3, <2>1 DEF Build
    <3>2. keys = NoKeys /\ report = <<>>
      BY <2>0 DEF Ranges, Stages
    <3>3. IsMessage(message' \cup wire' \cup answered' \cup reply')
      BY <1>0, <1>m, <1>e, <2>0, <3>1
    <3> QED
      BY <1>e, <2>0, <3>1, <3>2, <3>3 DEF Ranges, TypeOK, Stages, NoKeys, Exact
  <2>2. CASE ~ (Undecodable(body) \/ Refused(body))
    <3>1. /\ stage' = "calling" /\ body' = body /\ message' = message
          /\ wire' = Wire(message)
          /\ keys' = [options |-> Options(body), extra |-> ExtraBody(body)]
      BY <1>3, <2>2 DEF Build
    <3>2. keys'.options \subseteq DOMAIN body /\ keys'.extra \subseteq DOMAIN body
      BY <2>2, <3>1, KeysInStep DEF Ranges, TypeOK
    <3>3. IsMessage(message' \cup wire' \cup answered' \cup reply')
      BY <1>0, <1>m, <2>0, <3>1, MessagesOfLeaves
    <3>4. report = <<>>
      BY <2>0 DEF Ranges, Stages
    <3> QED
      BY <2>0, <3>1, <3>2, <3>3, <3>4 DEF Ranges, TypeOK, Stages, Exact
  <2> QED
    BY <2>1, <2>2
<1>4. ASSUME NEW x \in Debits, Attempt(x)
      PROVE  Ranges'
  <2>1. /\ stage \in {"calling", "billing"} /\ stage' = "billing"
        /\ body' = <<>> /\ message' = {} /\ wire' = {} /\ keys' = NoKeys
        /\ tally' = Record(tally, x) /\ turns' = turns /\ report' = report
        /\ answered' = answered /\ reply' = reply
    BY <1>4 DEF Attempt, replyVars
  <2>2. Record(tally, x) \in DecimalTallies /\ Exact(Record(tally, x))
    BY RecordExact, PayloadAssumption DEF Ranges, TypeOK, Stages
  <2>3. report = <<>>
    BY <2>1 DEF Ranges, Stages
  <2>4. IsMessage(message' \cup wire' \cup answered' \cup reply')
    BY <1>0, <1>m, <1>e, <2>1
  <2> QED
    BY <1>e, <2>1, <2>2, <2>3, <2>4 DEF Ranges, TypeOK, Stages, NoKeys, Exact
<1>5. ASSUME NEW calls \in Answers \cup {{}}, Respond(calls)
      PROVE  Ranges'
  <2>1. /\ stage = "billing" /\ stage' = "answered"
        /\ report' = <<Apply(tally)>> /\ answered' = calls
        /\ reply' \in {calls, DeltaToolCalls(calls)}
        /\ turns' = turns /\ tally' = tally /\ body' = body
        /\ message' = message /\ wire' = wire /\ keys' = keys
    BY <1>5 DEF Respond, sentVars
  <2>2. IsMessage(calls) /\ \A p \in calls : InCall(p)
    BY <1>e, PayloadAssumption
  <2>3. IsMessage(message' \cup wire' \cup answered' \cup reply')
    BY <1>0, <1>m, <2>1, <2>2, MessagesOfLeaves
  <2> QED
    BY <2>1, <2>3 DEF Ranges, TypeOK, Stages, Exact
<1>6. CASE Return
  <2>1. /\ stage = "answered" /\ stage' = "idle" /\ tally' = NewTally
        /\ report' = <<>> /\ turns' = turns /\ body' = body
        /\ message' = message /\ wire' = wire /\ keys' = keys
        /\ answered' = answered /\ reply' = reply
    BY <1>6 DEF Return, sentVars, replyVars
  <2>2. NewTally \in DecimalTallies /\ Exact(NewTally)
    BY NewTallyExact
  <2> QED
    BY <2>1, <2>2 DEF Ranges, TypeOK, Stages, Exact
<1>7. CASE UNCHANGED vars
  BY <1>7 DEF vars, sentVars, replyVars, Ranges, TypeOK, Stages, Exact
<1> QED
  BY <1>1, <1>2, <1>3, <1>4, <1>5, <1>6, <1>7 DEF Next

\* Keys, leaves, tallies and reports are in their ranges in every state.
THEOREM PayloadTypes == Spec => []TypeOK
<1>1. Ranges => TypeOK
  BY DEF Ranges
<1> QED
  BY <1>1, InitIInv, StepIInv, InitTyped, StepTyped, PTL DEF Spec

-----------------------------------------------------------------------------
(* The tally implements CreditAccount.                                     *)

\* Without its scale, the tally is the one of CreditAccount.
Plain(t) == [attempts |-> t.attempts, known |-> t.known, total |-> t.total]

\* A debit is billed as its amount, or as none.
LEMMA RecordBills ==
    ASSUME NEW t \in DecimalTallies, NEW x \in Debits
    PROVE  \E credit \in Amounts \cup {NoCredit} :
               Plain(Record(t, x)) = Account!Billed(Plain(t), credit)
<1>1. CASE Accepts(x)
  <2>1. Amount(x) \in Amounts /\ Amount(x) \in Nat
    BY <1>1, AmountsAreWhole, PayloadAssumption DEF Amounts
  <2>2. Amount(x) # NoCredit
    BY <2>1, PayloadAssumption
  <2>3. Plain(Record(t, x)) = Account!Billed(Plain(t), Amount(x))
    BY <1>1, <2>2 DEF Record, Plain, Account!Billed
  <2> QED
    BY <2>1, <2>3
<1>2. CASE ~ Accepts(x)
  <2>1. Plain(Record(t, x)) = Account!Billed(Plain(t), NoCredit)
    BY <1>2 DEF Record, Plain, Account!Billed, DecimalTallies
  <2> QED
    BY <2>1
<1> QED
  BY <1>1, <1>2

\* What apply renders is the report of the exact tally.
LEMMA ApplyReports ==
    ASSUME NEW t \in DecimalTallies, Exact(t)
    PROVE  Apply(t) = Account!Report(Plain(t))
  BY RendersExactly DEF Apply, Account!Report, Plain

\* Every step of the handler is one of CreditAccount, or none.
LEMMA StepAccount ==
    Ranges /\ [Next]_vars => [Account!CANext]_(Account!CAvars)
<1> SUFFICES ASSUME Ranges, [Next]_vars
             PROVE  Account!CANext \/ UNCHANGED Account!CAvars
  OBVIOUS
<1>1. ASSUME UNCHANGED <<tally, report>>
      PROVE  UNCHANGED Account!CAvars
  BY <1>1 DEF Account!CAvars
<1>2. ASSUME NEW b, NEW m, Receive(b, m)
      PROVE  UNCHANGED Account!CAvars
  BY <1>1, <1>2 DEF Receive
<1>3. CASE Build
  BY <1>1, <1>3 DEF Build
<1>4. ASSUME NEW x \in Debits, Attempt(x)
      PROVE  Account!Bill
  <2>1. tally' = Record(tally, x) /\ report' = report /\ report = <<>>
    BY <1>4 DEF Attempt, Ranges, Stages
  <2>2. \E credit \in Amounts \cup {NoCredit} :
            Plain(Record(tally, x)) = Account!Billed(Plain(tally), credit)
    BY RecordBills DEF Ranges, TypeOK
  <2> QED
    BY <2>1, <2>2 DEF Account!Bill, Plain
<1>5. ASSUME NEW calls, Respond(calls)
      PROVE  Account!Tell
  <2>1. tally' = tally /\ report' = <<Apply(tally)>>
    BY <1>5 DEF Respond
  <2>2. Apply(tally) = Account!Report(Plain(tally))
    BY ApplyReports DEF Ranges, TypeOK, Stages
  <2> QED
    BY <2>1, <2>2 DEF Account!Tell, Plain
<1>6. ASSUME Return
      PROVE  Account!Open
  <2>1. tally' = NewTally /\ report' = <<>>
    BY <1>6 DEF Return
  <2> QED
    BY <2>1 DEF Account!Open, Account!EmptyTally, NewTally
<1>7. CASE UNCHANGED vars
  BY <1>1, <1>7 DEF vars
<1> QED
  BY <1>2, <1>3, <1>4, <1>5, <1>6, <1>7 DEF Next, Account!CANext

\* The credit a turn reports is the exact sum of the debits it accepted,
\* whatever their decimals and exponents (creditTally.record, apply).
THEOREM CreditsAreExact == Spec => CreditIsExact
<1>1. Init => Account!CAInit
  BY DEF Init, NewTally, Account!CAInit, Account!EmptyTally
<1>2. Spec => []Ranges
  BY InitIInv, StepIInv, InitTyped, StepTyped, PTL DEF Spec
<1> QED
  BY <1>1, <1>2, StepAccount, PTL DEF Spec, CreditIsExact, Account!CASpec
=============================================================================
