------------------------- MODULE AccountRoutingProofs -------------------------
(***************************************************************************)
(* For any requests, chains and accounts: the transition counters follow   *)
(* the circuits, a page shows the opening of every account it shows open,  *)
(* no account is lost from the gauge, and a request without the breaker    *)
(* walks its chain.                                                        *)
(*                                                                         *)
(* A step of the library leaves the counters alone, moves one circuit and  *)
(* owes the hook at most one event that explains the move (Decides).  The  *)
(* invariant says what is owed or counted for every circuit and counter.   *)
(***************************************************************************)
EXTENDS AccountRouting, FiniteSetTheorems, SequenceTheorems, TLAPS

\* A request of which the library decides the next move.
LibraryStep(r) ==
    Skip(r) \/ CallLeg(r) \/ Probe(r) \/ CallAnyway(r)
        \/ Succeed(r) \/ RejectQuota(r) \/ Fail(r)

\* The requests that owe the hook an event of `kind` about account `a`.
Owing(kind, a) ==
    {r \in Requests : \E e \in pending[r] : e.kind = kind /\ AccountOf[e.leg] = a}

\* The opening of an account is counted, or still owed to a hook.
Opened(a) == transitions[a]["opened"] > 0 \/ Owing("opened", a) # {}

\* The hook has seen an account, or is about to.
Noticed(a) ==
    a \in seen \/ \E r \in Requests : \E e \in pending[r] : AccountOf[e.leg] = a

\* The legs of a chain.
LegsIn(s) == {s[i] : i \in DOMAIN s}

\* The leg a request decides on, if its account is not closed.
Suspect(r) == IF circuit[AccountOn(r)] = "closed" THEN {} ELSE {LegOf(r)}

-----------------------------------------------------------------------------
(* The parts of the invariant.                                             *)

\* A request that calls has a leg to call, and none owes two events.
Shape ==
    \A r \in Requests :
        /\ request[r].phase = "calling" => request[r].todo # <<>>
        /\ \A e1, e2 \in pending[r] : e1 = e2

\* Openings, counted or owed, are ahead of closings by the circuit.
Balance ==
    \A a \in Accounts :
        transitions[a]["opened"] + Cardinality(Owing("opened", a))
            >= transitions[a]["closed"] + Cardinality(Owing("closed", a))
               + (IF circuit[a] = "closed" THEN 0 ELSE 1)

\* Whatever only happens on an open account is preceded by its opening.
OpeningsFirst ==
    /\ \A a \in Accounts : circuit[a] # "closed" => Opened(a)
    /\ \A k \in OpenTraces, l \in Legs : legCounts[k][l] > 0 => Opened(AccountOf[l])
    /\ \A r \in Requests :
           /\ \A e \in pending[r] : e.kind \in OpenTraces => Opened(AccountOf[e.leg])
           /\ \A l \in LegsIn(request[r].deferred) : Opened(AccountOf[l])
           /\ request[r].failOpen =>
                  \A l \in LegsIn(request[r].todo) : Opened(AccountOf[l])
    /\ parts = 1 => \A a \in Accounts : draft.state[a] # "closed" => Opened(a)

\* What was counted, or listed, was noticed.
Notices ==
    /\ \A a \in Accounts : transitions[a]["opened"] > 0 => a \in seen
    /\ \A a \in listed : Noticed(a)

\* A request without the breaker owes nothing, and a new one has called no leg.
Walks ==
    \A r \in Requests :
        /\ request[r].plain =>
               /\ ~ request[r].breaker /\ ~ request[r].failOpen
               /\ request[r].deferred = <<>>
               /\ pending[r] = {}
               /\ request[r].phase \in {"choosing", "calling"}
        /\ request[r].phase = "new" => called[r] = <<>> /\ pending[r] = {}

IInv == TypeOK /\ Shape /\ Balance /\ OpeningsFirst /\ Notices /\ PlainFallback /\ Walks

-----------------------------------------------------------------------------
(* Sequences of legs.                                                      *)

\* The first leg and the legs behind it.
LEMMA TailLegs ==
    ASSUME NEW s \in Seq(Legs), s # <<>>
    PROVE  /\ Head(s) \in Legs /\ Head(s) \in LegsIn(s)
           /\ Tail(s) \in Seq(Legs) /\ LegsIn(Tail(s)) \subseteq LegsIn(s)
<1>1. /\ Head(s) = s[1] /\ Head(s) \in Legs
      /\ Tail(s) \in Seq(Legs) /\ Len(Tail(s)) = Len(s) - 1
      /\ \A i \in 1 .. Len(Tail(s)) : Tail(s)[i] = s[i + 1]
  BY HeadTailProperties
<1>2. Len(s) \in Nat \ {0} /\ DOMAIN s = 1 .. Len(s)
  BY EmptySeq, LenProperties
<1>3. DOMAIN Tail(s) = 1 .. Len(Tail(s))
  BY <1>1, LenProperties
<1>4. ASSUME NEW i \in DOMAIN Tail(s)
      PROVE  Tail(s)[i] \in LegsIn(s)
  <2>1. i + 1 \in DOMAIN s /\ Tail(s)[i] = s[i + 1]
    BY <1>1, <1>2, <1>3
  <2> QED
    BY <2>1 DEF LegsIn
<1>5. Head(s) \in LegsIn(s)
  BY <1>1, <1>2 DEF LegsIn
<1> QED
  BY <1>1, <1>4, <1>5 DEF LegsIn

\* One leg more.
LEMMA AppendLegs ==
    ASSUME NEW s \in Seq(Legs), NEW l \in Legs
    PROVE  /\ Append(s, l) \in Seq(Legs)
           /\ LegsIn(Append(s, l)) \subseteq LegsIn(s) \cup {l}
<1>1. /\ Append(s, l) \in Seq(Legs) /\ Len(Append(s, l)) = Len(s) + 1
      /\ \A i \in 1 .. Len(s) : Append(s, l)[i] = s[i]
      /\ Append(s, l)[Len(s) + 1] = l
  BY AppendProperties
<1>2. /\ DOMAIN Append(s, l) = 1 .. Len(s) + 1
      /\ DOMAIN s = 1 .. Len(s) /\ Len(s) \in Nat
  BY <1>1, LenProperties
<1>3. ASSUME NEW i \in DOMAIN Append(s, l)
      PROVE  Append(s, l)[i] \in LegsIn(s) \cup {l}
  <2>1. CASE i = Len(s) + 1
    BY <2>1, <1>1
  <2>2. CASE i \in 1 .. Len(s)
    BY <2>2, <1>1, <1>2 DEF LegsIn
  <2> QED
    BY <2>1, <2>2, <1>2
<1> QED
  BY <1>1, <1>3 DEF LegsIn

\* A leg called and the legs behind it are the legs before the call.
LEMMA CalledAhead ==
    ASSUME NEW w \in Seq(Legs), NEW s \in Seq(Legs), s # <<>>
    PROVE  Append(w, Head(s)) \o Tail(s) = w \o s
<1>1. Head(s) \in Legs /\ Tail(s) \in Seq(Legs)
  BY HeadTailProperties
<1>2. Append(w, Head(s)) = w \o <<Head(s)>>
  BY <1>1, AppendIsConcat
<1>3. <<Head(s)>> \in Seq(Legs)
  BY <1>1
<1>4. (w \o <<Head(s)>>) \o Tail(s) = w \o (<<Head(s)>> \o Tail(s))
  BY <1>1, <1>3, ConcatAssociative
<1>5. <<Head(s)>> \o Tail(s) = s
  <2>1. Len(s) \in Nat \ {0}
    BY EmptySeq
  <2>2. SubSeq(s, 1, Len(s)) = <<s[1]>> \o SubSeq(s, 2, Len(s))
    <3>1. 1 \in 1 .. Len(s) /\ Len(s) \in 1 .. Len(s)
      BY <2>1
    <3> QED
      BY <3>1, SubSeqRecursiveFirst
  <2>3. Tail(s) = SubSeq(s, 2, Len(s)) /\ Head(s) = s[1]
    BY TailIsSubSeq, HeadTailProperties
  <2> QED
    BY <2>2, <2>3, SubSeqFull
<1> QED
  BY <1>2, <1>4, <1>5

-----------------------------------------------------------------------------
(* What a step of the library may do.                                      *)

\* It moves one request and the circuit of one account, and no counter.
Frame(r) ==
    /\ request' \in [Requests -> RequestStates]
    /\ pending' \in [Requests -> SUBSET Events]
    /\ called' \in [Requests -> Seq(Legs)]
    /\ circuit' \in [Accounts -> Circuits]
    /\ \A s \in Requests \ {r} : /\ request'[s] = request[s]
                                 /\ pending'[s] = pending[s]
                                 /\ called'[s] = called[s]
    /\ \A a \in Accounts \ {AccountOn(r)} : circuit'[a] = circuit[a]
    /\ UNCHANGED <<liveVars, hookVars, pageVars>>

\* It owes at most one event, which goes with the move of the circuit.
Owes(r) ==
    /\ pending[r] = {}
    /\ \E k \in Transitions \cup LegKinds : pending'[r] \in {{}, {Event(k, LegOf(r))}}
    /\ circuit[AccountOn(r)] = "closed" /\ circuit'[AccountOn(r)] # "closed" =>
           Event("opened", LegOf(r)) \in pending'[r]
    /\ Event("closed", LegOf(r)) \in pending'[r] =>
           circuit[AccountOn(r)] # "closed" /\ circuit'[AccountOn(r)] = "closed"
    /\ \A e \in pending'[r] :
           e.kind \in OpenTraces => Suspect(r) # {} \/ request[r].failOpen

\* It defers a leg of an open account only, and tries deferred legs anyway.
Defers(r) ==
    /\ LegsIn(request'[r].deferred) \subseteq LegsIn(request[r].deferred) \cup Suspect(r)
    /\ request'[r].failOpen =>
           \/ /\ request[r].failOpen
              /\ LegsIn(request'[r].todo) \subseteq LegsIn(request[r].todo)
           \/ LegsIn(request'[r].todo) \subseteq LegsIn(request[r].deferred) \cup Suspect(r)
    /\ request'[r].phase = "calling" => request'[r].todo # <<>>
    /\ request'[r].phase # "new"

\* Where Onward leads.
LEMMA OnwardFacts ==
    ASSUME NEW next \in RequestStates
    PROVE  /\ Onward(next) \in RequestStates /\ Over \in RequestStates
           /\ LegsIn(Onward(next).deferred) \subseteq LegsIn(next.deferred)
           /\ Onward(next).failOpen =>
                  \/ next.failOpen /\ LegsIn(Onward(next).todo) \subseteq LegsIn(next.todo)
                  \/ LegsIn(Onward(next).todo) \subseteq LegsIn(next.deferred)
           /\ Onward(next).phase \in {next.phase, "done"}
           /\ ~ Over.plain /\ (Onward(next).plain => next.plain)
           /\ next.deferred = <<>> => Onward(next) \in {next, Over}
<1>1. <<>> \in Seq(Legs) /\ LegsIn(<<>>) = {}
  BY DEF LegsIn
<1>2. /\ Over \in RequestStates /\ ~ Over.failOpen /\ Over.phase = "done"
      /\ Over.deferred = <<>> /\ ~ Over.plain
  BY <1>1 DEF Over, Fresh, RequestStates
<1>3. CASE next.todo # <<>>
  BY <1>2, <1>3 DEF Onward
<1>4. CASE next.todo = <<>> /\ next.deferred = <<>>
  BY <1>1, <1>2, <1>4 DEF Onward
<1>5. CASE next.todo = <<>> /\ next.deferred # <<>>
  <2> DEFINE n == [next EXCEPT !.todo = next.deferred, !.deferred = <<>>, !.failOpen = TRUE]
  <2>1. Onward(next) = n
    BY <1>5 DEF Onward
  <2>2. /\ n \in RequestStates /\ n.todo = next.deferred
        /\ n.deferred = <<>> /\ n.phase = next.phase /\ n.plain = next.plain
    BY <1>1 DEF RequestStates
  <2> QED
    BY <1>1, <1>2, <1>5, <2>1, <2>2
<1> QED
  BY <1>3, <1>4, <1>5

\* The leg a request decides on.
LEMMA LegFacts ==
    ASSUME TypeOK, NEW r \in Requests, request[r].todo # <<>>
    PROVE  /\ request[r] \in RequestStates
           /\ LegOf(r) \in Legs /\ LegOf(r) \in LegsIn(request[r].todo)
           /\ AccountOn(r) \in Accounts
           /\ Tail(request[r].todo) \in Seq(Legs)
           /\ LegsIn(Tail(request[r].todo)) \subseteq LegsIn(request[r].todo)
           /\ \A k \in Transitions \cup LegKinds : Event(k, LegOf(r)) \in Events
<1>1. request[r] \in RequestStates /\ request[r].todo \in Seq(Legs)
  BY DEF TypeOK, RequestStates
<1> QED
  BY <1>1, TailLegs, RoutingAssumption DEF LegOf, AccountOn, Events, Event

\* A leg skipped.
LEMMA SkipFacts ==
    ASSUME TypeOK, NEW r \in Requests, Skip(r)
    PROVE  Frame(r) /\ Owes(r) /\ Defers(r)
<1> DEFINE reason == IF Exhausted(r) THEN "exhausted_in_request" ELSE "circuit_open"
           next == [request[r] EXCEPT
                       !.todo = Tail(@),
                       !.deferred = IF reason = "circuit_open"
                                    THEN Append(@, LegOf(r)) ELSE @]
<1>1. /\ request[r].todo # <<>> /\ pending[r] = {} /\ request[r].phase = "choosing"
      /\ pending' = [pending EXCEPT ![r] = {Event(reason, LegOf(r))}]
      /\ request' = [request EXCEPT ![r] = Onward(next)]
      /\ called' = IF Onward(next) = Over THEN [called EXCEPT ![r] = <<>>] ELSE called
      /\ UNCHANGED <<liveVars, circuit, hookVars, pageVars>>
  BY DEF Skip, Deciding
<1>2. reason = "circuit_open" => Suspect(r) = {LegOf(r)}
  BY DEF Skip, Barred, Suspect
<1>3. reason \in LegKinds /\ Event(reason, LegOf(r)).kind = reason
  BY DEF LegKinds, SkipReasons, Event
<1>4. /\ request[r].deferred \in Seq(Legs)
      /\ request \in [Requests -> RequestStates]
      /\ pending \in [Requests -> SUBSET Events]
      /\ called \in [Requests -> Seq(Legs)]
      /\ circuit \in [Accounts -> Circuits]
  BY DEF TypeOK, RequestStates
<1>5. /\ next \in RequestStates
      /\ next.phase = "choosing" /\ next.failOpen = request[r].failOpen
      /\ next.todo = Tail(request[r].todo)
      /\ LegsIn(next.deferred) \subseteq LegsIn(request[r].deferred) \cup Suspect(r)
  <2>1. CASE reason = "circuit_open"
    <3>1. /\ Append(request[r].deferred, LegOf(r)) \in Seq(Legs)
          /\ LegsIn(Append(request[r].deferred, LegOf(r)))
                 \subseteq LegsIn(request[r].deferred) \cup {LegOf(r)}
      BY <1>1, <1>4, LegFacts, AppendLegs
    <3> QED
      BY <1>1, <1>2, <2>1, <3>1, LegFacts DEF RequestStates
  <2>2. CASE reason # "circuit_open"
    BY <1>1, <2>2, LegFacts DEF RequestStates
  <2> QED
    BY <2>1, <2>2
<1> HIDE DEF reason, next
<1>6. Frame(r)
  <2>1. Onward(next) \in RequestStates
    BY <1>5, OnwardFacts
  <2>2. <<>> \in Seq(Legs) /\ Event(reason, LegOf(r)) \in Events
    BY <1>1, <1>3, LegFacts
  <2> QED
    BY <1>1, <1>4, <2>1, <2>2 DEF Frame
<1>7. Owes(r)
  <2>1. pending'[r] = {Event(reason, LegOf(r))} /\ circuit' = circuit
    BY <1>1, <1>4
  <2>2. Event("closed", LegOf(r)) # Event(reason, LegOf(r))
    BY <1>3 DEF Event, LegKinds, SkipReasons
  <2>3. reason \in OpenTraces => Suspect(r) # {}
    BY <1>2, <1>3 DEF OpenTraces, LegKinds, SkipReasons, reason
  <2> QED
    BY <1>1, <1>3, <2>1, <2>2, <2>3 DEF Owes
<1>8. Defers(r)
  <2>1. request'[r] = Onward(next)
    BY <1>1, <1>4
  <2>2. LegsIn(next.todo) \subseteq LegsIn(request[r].todo)
    BY <1>1, <1>5, LegFacts
  <2>3. request'[r].phase \notin {"calling", "new"}
    BY <1>5, <2>1, OnwardFacts
  <2>4. /\ LegsIn(request'[r].deferred) \subseteq LegsIn(next.deferred)
        /\ request'[r].failOpen =>
               \/ next.failOpen /\ LegsIn(request'[r].todo) \subseteq LegsIn(next.todo)
               \/ LegsIn(request'[r].todo) \subseteq LegsIn(next.deferred)
    BY <1>5, <2>1, OnwardFacts
  <2> QED
    BY <1>5, <2>2, <2>3, <2>4 DEF Defers
<1> QED
  BY <1>6, <1>7, <1>8

\* A leg called, with an event before the call or none.
LEMMA CallingFacts ==
    ASSUME TypeOK, NEW r \in Requests, Deciding(r),
           NEW probing \in BOOLEAN, NEW before \in SUBSET Events, Calling(r, probing, before),
           NEW c \in Circuits, circuit' = [circuit EXCEPT ![AccountOn(r)] = c]
    PROVE  /\ Frame(r) /\ Defers(r)
           /\ pending[r] = {} /\ pending'[r] = before
           /\ circuit'[AccountOn(r)] = c
<1>1. /\ request \in [Requests -> RequestStates]
      /\ pending \in [Requests -> SUBSET Events]
      /\ called \in [Requests -> Seq(Legs)]
      /\ circuit \in [Accounts -> Circuits]
  BY DEF TypeOK
<1>2. request[r].todo # <<>> /\ pending[r] = {}
  BY DEF Deciding
<1>3. LegOf(r) \in Legs /\ AccountOn(r) \in Accounts
  BY <1>2, LegFacts
<1>4. /\ request' = [request EXCEPT ![r] = [@ EXCEPT !.phase = "calling", !.probing = probing]]
      /\ called' = [called EXCEPT ![r] = Append(@, LegOf(r))]
      /\ pending' = [pending EXCEPT ![r] = before]
      /\ UNCHANGED <<liveVars, hookVars, pageVars>>
  BY DEF Calling
<1>5. Append(called[r], LegOf(r)) \in Seq(Legs)
  BY <1>1, <1>3, AppendProperties
<1>6. /\ request'[r] \in RequestStates
      /\ request'[r].todo = request[r].todo
      /\ request'[r].deferred = request[r].deferred
      /\ request'[r].failOpen = request[r].failOpen
      /\ request'[r].phase = "calling"
  BY <1>1, <1>4 DEF RequestStates
<1>7. Frame(r)
  <2>1. request' \in [Requests -> RequestStates]
    BY <1>1, <1>4, <1>6
  <2> QED
    BY <1>1, <1>3, <1>4, <1>5, <2>1 DEF Frame
<1>8. Defers(r)
  BY <1>2, <1>6 DEF Defers
<1> QED
  BY <1>1, <1>2, <1>3, <1>4, <1>7, <1>8

\* A call answered with the events `more`, at most one.
LEMMA EndedFacts ==
    ASSUME TypeOK, NEW r \in Requests, Answering(r), request[r].todo # <<>>,
           NEW more \in SUBSET Events,
           \E over \in BOOLEAN, exhausted \in SUBSET Accounts :
               Ended(r, more, over, exhausted),
           NEW c \in Circuits, circuit' = [circuit EXCEPT ![AccountOn(r)] = c]
    PROVE  /\ Frame(r) /\ Defers(r)
           /\ pending[r] = {} /\ pending'[r] = more
<1> PICK over \in BOOLEAN, exhausted \in SUBSET Accounts :
        Ended(r, more, over, exhausted)
  OBVIOUS
<1> DEFINE next == [request[r] EXCEPT !.phase = "choosing", !.probing = FALSE,
                                      !.todo = Tail(@), !.exhausted = exhausted]
<1>1. /\ request \in [Requests -> RequestStates]
      /\ pending \in [Requests -> SUBSET Events]
      /\ called \in [Requests -> Seq(Legs)]
      /\ circuit \in [Accounts -> Circuits]
  BY DEF TypeOK
<1>2. pending[r] = {} /\ AccountOn(r) \in Accounts
  BY LegFacts DEF Answering
<1>3. /\ request' = [request EXCEPT ![r] = IF over THEN Over ELSE Onward(next)]
      /\ called' = IF over \/ Onward(next) = Over
                   THEN [called EXCEPT ![r] = <<>>] ELSE called
      /\ pending' = [pending EXCEPT ![r] = more]
      /\ UNCHANGED <<liveVars, hookVars, pageVars>>
  BY DEF Ended
<1>4. /\ next \in RequestStates /\ next.phase = "choosing"
      /\ next.todo = Tail(request[r].todo)
      /\ next.deferred = request[r].deferred
      /\ next.failOpen = request[r].failOpen
  BY <1>1, LegFacts DEF RequestStates
<1> HIDE DEF next
<1>5. /\ Onward(next) \in RequestStates /\ Over \in RequestStates
      /\ LegsIn(Onward(next).deferred) \subseteq LegsIn(request[r].deferred)
      /\ Onward(next).failOpen =>
             \/ /\ request[r].failOpen
                /\ LegsIn(Onward(next).todo) \subseteq LegsIn(request[r].todo)
             \/ LegsIn(Onward(next).todo) \subseteq LegsIn(request[r].deferred)
      /\ Onward(next).phase \notin {"calling", "new"}
  <2>1. LegsIn(next.todo) \subseteq LegsIn(request[r].todo)
    BY <1>4, LegFacts
  <2>2. /\ LegsIn(Onward(next).deferred) \subseteq LegsIn(next.deferred)
        /\ Onward(next).failOpen =>
               \/ next.failOpen /\ LegsIn(Onward(next).todo) \subseteq LegsIn(next.todo)
               \/ LegsIn(Onward(next).todo) \subseteq LegsIn(next.deferred)
        /\ Onward(next).phase \in {next.phase, "done"}
        /\ Onward(next) \in RequestStates /\ Over \in RequestStates
    BY <1>4, OnwardFacts
  <2> QED
    BY <1>4, <2>1, <2>2
<1>6. /\ ~ Over.failOpen /\ Over.phase = "done" /\ LegsIn(Over.deferred) = {}
  BY DEF Over, Fresh, LegsIn
<1>7. Frame(r)
  BY <1>1, <1>2, <1>3, <1>5 DEF Frame
<1>8. Defers(r)
  <2>1. request'[r] = IF over THEN Over ELSE Onward(next)
    BY <1>1, <1>3
  <2> QED
    BY <1>5, <1>6, <2>1 DEF Defers
<1> QED
  BY <1>1, <1>2, <1>3, <1>7, <1>8

\* Every step of the library.
LEMMA LibraryFacts ==
    ASSUME TypeOK, Shape, NEW r \in Requests, LibraryStep(r)
    PROVE  /\ request[r] \in RequestStates /\ request[r].todo # <<>>
           /\ LegOf(r) \in Legs /\ LegOf(r) \in LegsIn(request[r].todo)
           /\ AccountOn(r) \in Accounts
           /\ request[r].phase \in {"choosing", "calling"}
           /\ Frame(r) /\ Owes(r) /\ Defers(r)
<1>1. request[r].todo # <<>> /\ request[r].phase \in {"choosing", "calling"}
  BY DEF LibraryStep, Skip, CallLeg, Probe, CallAnyway, Succeed, RejectQuota, Fail,
         Deciding, Answering, Shape
<1>2. /\ request[r] \in RequestStates
      /\ LegOf(r) \in Legs /\ LegOf(r) \in LegsIn(request[r].todo)
      /\ AccountOn(r) \in Accounts
      /\ \A k \in Transitions \cup LegKinds : Event(k, LegOf(r)) \in Events
  BY <1>1, LegFacts
<1>3. /\ circuit \in [Accounts -> Circuits]
      /\ "closed" \in Circuits /\ "open" \in Circuits /\ "half_open" \in Circuits
      /\ TRUE \in BOOLEAN /\ FALSE \in BOOLEAN
      /\ request[r].exhausted \in SUBSET Accounts
  BY <1>2 DEF TypeOK, Circuits, RequestStates
<1>4. circuit' = circuit =>
          circuit' = [circuit EXCEPT ![AccountOn(r)] = circuit[AccountOn(r)]]
  BY <1>2, <1>3
<1>5. circuit[AccountOn(r)] \in Circuits
  BY <1>2, <1>3
<1>6. "opened" \in Transitions /\ "closed" \in Transitions
  BY DEF Transitions
<1>7. "probing" \in LegKinds /\ "fail_open" \in LegKinds /\ "unrecognized_429" \in LegKinds
  BY DEF LegKinds
<1>8. \A k \in Transitions \cup LegKinds : Event(k, LegOf(r)).kind = k
  BY DEF Event
<1>9. CASE Skip(r)
  BY <1>1, <1>2, <1>9, SkipFacts
<1>10. CASE CallLeg(r)
  <2>1. Deciding(r) /\ Calling(r, FALSE, {}) /\ circuit' = circuit
    BY <1>10 DEF CallLeg
  <2>2. /\ Frame(r) /\ Defers(r) /\ pending[r] = {} /\ pending'[r] = {}
        /\ circuit'[AccountOn(r)] = circuit[AccountOn(r)]
    BY <1>4, <1>5, <2>1, CallingFacts
  <2>3. Owes(r)
    BY <1>6, <2>2 DEF Owes
  <2> QED
    BY <1>1, <1>2, <2>2, <2>3
<1>11. CASE Probe(r)
  <2>1. /\ Deciding(r) /\ Calling(r, TRUE, {Event("probing", LegOf(r))})
        /\ circuit' = [circuit EXCEPT ![AccountOn(r)] = "half_open"]
        /\ circuit[AccountOn(r)] = "open"
    BY <1>11 DEF Probe
  <2>2. {Event("probing", LegOf(r))} \in SUBSET Events
    BY <1>2, <1>7
  <2>3. /\ Frame(r) /\ Defers(r) /\ pending[r] = {}
        /\ pending'[r] = {Event("probing", LegOf(r))}
    BY <1>3, <2>1, <2>2, CallingFacts
  <2>4. Owes(r)
    BY <1>6, <1>7, <1>8, <2>1, <2>3 DEF Owes, Suspect
  <2> QED
    BY <1>1, <1>2, <2>3, <2>4
<1>12. CASE CallAnyway(r)
  <2>1. /\ Deciding(r) /\ Calling(r, FALSE, {Event("fail_open", LegOf(r))})
        /\ circuit' = circuit /\ request[r].failOpen
    BY <1>12 DEF CallAnyway
  <2>2. {Event("fail_open", LegOf(r))} \in SUBSET Events
    BY <1>2, <1>7
  <2>3. /\ Frame(r) /\ Defers(r) /\ pending[r] = {}
        /\ pending'[r] = {Event("fail_open", LegOf(r))}
        /\ circuit'[AccountOn(r)] = circuit[AccountOn(r)]
    BY <1>4, <1>5, <2>1, <2>2, CallingFacts
  <2>4. Event("closed", LegOf(r)) # Event("fail_open", LegOf(r))
    BY <1>6, <1>7, <1>8
  <2>5. Owes(r)
    BY <1>7, <2>1, <2>3, <2>4 DEF Owes
  <2> QED
    BY <1>1, <1>2, <2>3, <2>5
<1>13. CASE Succeed(r)
  <2>1. PICK closes \in BOOLEAN :
            /\ closes => request[r].breaker /\ circuit[AccountOn(r)] # "closed"
            /\ Ended(r, IF closes THEN {Event("closed", LegOf(r))} ELSE {},
                     TRUE, request[r].exhausted)
            /\ circuit' = IF closes THEN [circuit EXCEPT ![AccountOn(r)] = "closed"]
                          ELSE circuit
    BY <1>13 DEF Succeed
  <2>2. Answering(r)
    BY <1>13 DEF Succeed
  <2> DEFINE more == IF closes THEN {Event("closed", LegOf(r))} ELSE {}
             c == IF closes THEN "closed" ELSE circuit[AccountOn(r)]
  <2>3. more \in SUBSET Events /\ c \in Circuits
    BY <1>2, <1>3, <1>5, <1>6
  <2>4. circuit' = [circuit EXCEPT ![AccountOn(r)] = c]
    BY <1>4, <2>1
  <2>5. \E over \in BOOLEAN, exhausted \in SUBSET Accounts :
            Ended(r, more, over, exhausted)
    BY <1>3, <2>1
  <2> HIDE DEF more, c
  <2>6. /\ Frame(r) /\ Defers(r) /\ pending[r] = {} /\ pending'[r] = more
    BY <1>1, <2>2, <2>3, <2>4, <2>5, EndedFacts
  <2>7. \A e \in more : e.kind \notin OpenTraces
    BY <1>6, <1>8 DEF more, OpenTraces
  <2>8. Owes(r)
    BY <1>2, <1>3, <1>6, <2>1, <2>4, <2>6, <2>7 DEF Owes, more, c
  <2> QED
    BY <1>1, <1>2, <2>6, <2>8
<1>14. CASE RejectQuota(r)
  <2>1. PICK more \in {{}, {Event("opened", LegOf(r))}} :
            /\ circuit[AccountOn(r)] = "closed" => more # {}
            /\ Ended(r, more, FALSE, request[r].exhausted \cup {AccountOn(r)})
    BY <1>14 DEF RejectQuota
  <2>2. Answering(r) /\ circuit' = [circuit EXCEPT ![AccountOn(r)] = "open"]
    BY <1>14 DEF RejectQuota
  <2>3. more \in SUBSET Events /\ request[r].exhausted \cup {AccountOn(r)} \in SUBSET Accounts
    BY <1>2, <1>3, <1>6
  <2>4. /\ Frame(r) /\ Defers(r) /\ pending[r] = {} /\ pending'[r] = more
    BY <1>1, <1>3, <2>1, <2>2, <2>3, EndedFacts
  <2>5. /\ Event("closed", LegOf(r)) \notin more
        /\ \A e \in more : e.kind \notin OpenTraces
    BY <1>6, <1>8 DEF OpenTraces
  <2>6. Owes(r)
    BY <1>2, <1>3, <1>6, <2>1, <2>2, <2>4, <2>5 DEF Owes
  <2> QED
    BY <1>1, <1>2, <2>4, <2>6
<1>15. CASE Fail(r)
  <2>1. PICK more \in {{}, {Event("unrecognized_429", LegOf(r))}}, over \in BOOLEAN :
            Ended(r, more, over, request[r].exhausted)
    BY <1>15 DEF Fail
  <2> DEFINE c == IF request[r].probing /\ circuit[AccountOn(r)] = "half_open"
                  THEN "open" ELSE circuit[AccountOn(r)]
  <2>2. Answering(r) /\ circuit' = [circuit EXCEPT ![AccountOn(r)] = c]
    BY <1>4, <1>15 DEF Fail
  <2>3. more \in SUBSET Events /\ c \in Circuits
    BY <1>2, <1>3, <1>5, <1>7
  <2>4. circuit[AccountOn(r)] = "closed" => c = "closed"
    OBVIOUS
  <2> HIDE DEF c
  <2>5. /\ Frame(r) /\ Defers(r) /\ pending[r] = {} /\ pending'[r] = more
    <3>1. \E x \in BOOLEAN, exhausted \in SUBSET Accounts : Ended(r, more, x, exhausted)
      BY <1>3, <2>1
    <3> QED
      BY <1>1, <2>2, <2>3, <3>1, EndedFacts
  <2>6. /\ Event("closed", LegOf(r)) \notin more
        /\ \A e \in more : e.kind \notin OpenTraces
    BY <1>6, <1>7, <1>8 DEF OpenTraces
  <2>7. Owes(r)
    BY <1>2, <1>3, <1>7, <2>2, <2>4, <2>5, <2>6 DEF Owes
  <2> QED
    BY <1>1, <1>2, <2>5, <2>7
<1> QED
  BY <1>9, <1>10, <1>11, <1>12, <1>13, <1>14, <1>15 DEF LibraryStep

\* The hook takes the one event its request owes it.
LEMMA HookFacts ==
    ASSUME TypeOK, Shape, NEW r \in Requests, Hook(r)
    PROVE  \E e \in Events :
               /\ pending[r] = {e}
               /\ pending' = [pending EXCEPT ![r] = {}]
               /\ Record(e) /\ AccountOf[e.leg] \in Accounts
               /\ UNCHANGED <<liveVars, circuit, request, called, pageVars>>
<1>1. PICK e \in pending[r] :
          /\ pending' = [pending EXCEPT ![r] = @ \ {e}]
          /\ Record(e)
          /\ UNCHANGED <<liveVars, circuit, request, called, pageVars>>
  BY DEF Hook
<1>2. pending \in [Requests -> SUBSET Events]
  BY DEF TypeOK
<1>3. pending[r] = {e}
  BY <1>1 DEF Shape
<1>4. e \in Events /\ AccountOf[e.leg] \in Accounts
  BY <1>1, <1>2, RoutingAssumption DEF Events
<1>5. pending' = [pending EXCEPT ![r] = {}]
  BY <1>1, <1>3
<1> QED
  BY <1>1, <1>3, <1>4, <1>5

\* A step is one of these.
LEMMA Steps ==
    ASSUME [Next]_vars
    PROVE  \/ TurnSwitch
           \/ \E r \in Requests, chat \in BOOLEAN, chain \in Chains : Admit(r, chat, chain)
           \/ \E r \in Requests : LibraryStep(r)
           \/ \E r \in Requests : Hook(r)
           \/ Metrics
           \/ UNCHANGED vars
  BY DEF Next, Request, LibraryStep

\* The page the second read completes.
LEMMA PageFacts ==
    ASSUME TypeOK
    PROVE  /\ Completes <=> parts = 1
           /\ Page \in Pages
           /\ parts = 0 => Page = [draft EXCEPT !.state = circuit]
           /\ parts = 1 =>
                  /\ Page.state = draft.state /\ Page.seen = seen
                  /\ Page.opened = [a \in Accounts |-> transitions[a]["opened"]]
                  /\ Page.traced = {AccountOf[l] : l \in
                         {l \in Legs : \E k \in OpenTraces : legCounts[k][l] > 0}}
                  /\ Page.late = InHook("opened")
<1>1. /\ parts \in {0, 1} /\ draft \in Pages /\ circuit \in [Accounts -> Circuits]
      /\ seen \in SUBSET Accounts
      /\ transitions \in [Accounts -> [Transitions -> Nat]]
      /\ pending \in [Requests -> SUBSET Events]
  BY DEF TypeOK
<1>2. /\ Len(ReadOrder) = 2 /\ ReadOrder[1] = "circuits" /\ ReadOrder[2] = "counters"
  BY DEF ReadOrder
<1>3. Completes <=> parts = 1
  BY <1>1, <1>2 DEF Completes
<1>4. CASE parts = 0
  <2>1. Page = [draft EXCEPT !.state = circuit]
    BY <1>2, <1>4 DEF Page
  <2>2. Page \in Pages
    BY <1>1, <2>1 DEF Pages
  <2> QED
    BY <1>3, <1>4, <2>1, <2>2
<1>5. CASE parts = 1
  <2> DEFINE op == [a \in Accounts |-> transitions[a]["opened"]]
             tr == {AccountOf[l] : l \in
                      {l \in Legs : \E k \in OpenTraces : legCounts[k][l] > 0}}
  <2>1. Page = [draft EXCEPT !.seen = seen, !.opened = op, !.traced = tr,
                             !.late = InHook("opened")]
    BY <1>2, <1>5 DEF Page
  <2>2. op \in [Accounts -> Nat]
    BY <1>1 DEF Transitions
  <2>3. tr \in SUBSET Accounts
    BY RoutingAssumption
  <2>4. InHook("opened") \in SUBSET Accounts
    BY <1>1, RoutingAssumption DEF InHook, InHooks, Events
  <2> HIDE DEF op, tr
  <2>5. /\ Page \in Pages /\ Page.state = draft.state /\ Page.seen = seen
        /\ Page.opened = op /\ Page.traced = tr /\ Page.late = InHook("opened")
    BY <1>1, <2>1, <2>2, <2>3, <2>4 DEF Pages
  <2> QED
    BY <1>3, <1>5, <2>5 DEF op, tr
<1> QED
  BY <1>1, <1>4, <1>5

-----------------------------------------------------------------------------
(* Every part of the invariant is kept.                                    *)

\* The types.
LEMMA TypeStep == TypeOK /\ Shape /\ [Next]_vars => TypeOK'
<1> SUFFICES ASSUME TypeOK, Shape, [Next]_vars
             PROVE  TypeOK'
  OBVIOUS
<1> USE DEF TypeOK
<1>1. CASE TurnSwitch
  BY <1>1 DEF TurnSwitch, requestVars, hookVars, pageVars
<1>2. ASSUME NEW r \in Requests, NEW chat \in BOOLEAN, NEW chain \in Chains,
             Admit(r, chat, chain)
      PROVE  TypeOK'
  <2>1. chain \in Seq(Legs) /\ <<>> \in Seq(Legs)
    BY RoutingAssumption
  <2>2. [Fresh EXCEPT !.phase = "choosing", !.plain = disabled \/ ~ chat,
                      !.breaker = UsesBreaker(chat), !.todo = chain] \in RequestStates
    BY <2>1 DEF Fresh, RequestStates, UsesBreaker
  <2> QED
    BY <1>2, <2>2 DEF Admit, liveVars, hookVars, pageVars
<1>3. ASSUME NEW r \in Requests, LibraryStep(r)
      PROVE  TypeOK'
  <2>1. Frame(r)
    BY <1>3, LibraryFacts
  <2> QED
    BY <2>1 DEF Frame, liveVars, hookVars, pageVars
<1>4. ASSUME NEW r \in Requests, Hook(r)
      PROVE  TypeOK'
  <2>1. PICK e \in Events :
               /\ pending' = [pending EXCEPT ![r] = {}]
               /\ Record(e) /\ AccountOf[e.leg] \in Accounts
               /\ UNCHANGED <<liveVars, circuit, request, called, pageVars>>
    BY <1>4, HookFacts
  <2>2. e.leg \in Legs /\ e.kind \in Transitions \cup LegKinds
    BY DEF Events
  <2>3. transitions' \in [Accounts -> [Transitions -> Nat]]
    <3>1. CASE e.kind \in Transitions
      <4>1. [transitions[AccountOf[e.leg]] EXCEPT ![e.kind] = @ + 1] \in [Transitions -> Nat]
        BY <2>1, <3>1
      <4> QED
        BY <2>1, <3>1, <4>1 DEF Record
    <3>2. CASE e.kind \notin Transitions
      BY <2>1, <3>2 DEF Record
    <3> QED
      BY <3>1, <3>2
  <2>4. legCounts' \in [LegKinds -> [Legs -> Nat]]
    <3>1. CASE e.kind \in LegKinds
      <4>1. [legCounts[e.kind] EXCEPT ![e.leg] = @ + 1] \in [Legs -> Nat]
        BY <2>2, <3>1
      <4> QED
        BY <2>1, <3>1, <4>1 DEF Record
    <3>2. CASE e.kind \notin LegKinds
      BY <2>1, <3>2 DEF Record
    <3> QED
      BY <3>1, <3>2
  <2>5. seen' \in SUBSET Accounts
    BY <2>1 DEF Record
  <2> QED
    BY <2>1, <2>3, <2>4, <2>5 DEF liveVars, pageVars
<1>5. CASE Metrics
  <2>1. Page \in Pages /\ (Completes <=> parts = 1)
    BY PageFacts
  <2>2. NoPage \in Pages
    BY DEF NoPage, Pages, Circuits
  <2>3. Listed(Page) \in SUBSET Accounts
    BY <2>1 DEF Listed, Pages
  <2> QED
    BY <1>5, <2>1, <2>2, <2>3 DEF Metrics, liveVars, requestVars, hookVars
<1>6. CASE UNCHANGED vars
  BY <1>6 DEF vars, liveVars, requestVars, hookVars, pageVars
<1> QED
  BY <1>1, <1>2, <1>3, <1>4, <1>5, <1>6, Steps

\* The shape of the requests.
LEMMA ShapeStep == TypeOK /\ Shape /\ [Next]_vars => Shape'
<1> SUFFICES ASSUME TypeOK, Shape, [Next]_vars
             PROVE  Shape'
  OBVIOUS
<1>0. request \in [Requests -> RequestStates] /\ pending \in [Requests -> SUBSET Events]
  BY DEF TypeOK
<1>1. CASE TurnSwitch \/ Metrics \/ UNCHANGED vars
  BY <1>1 DEF TurnSwitch, Metrics, vars, requestVars, Shape
<1>2. ASSUME NEW r \in Requests, NEW chat \in BOOLEAN, NEW chain \in Chains,
             Admit(r, chat, chain)
      PROVE  Shape'
  <2>1. request'[r].phase = "choosing" /\ pending' = pending
    BY <1>0, <1>2 DEF Admit, Fresh
  <2>2. \A s \in Requests \ {r} : request'[s] = request[s]
    BY <1>0, <1>2 DEF Admit
  <2> QED
    BY <2>1, <2>2 DEF Shape
<1>3. ASSUME NEW r \in Requests, LibraryStep(r)
      PROVE  Shape'
  <2>1. Frame(r) /\ Owes(r) /\ Defers(r)
    BY <1>3, LibraryFacts
  <2>2. PICK k \in Transitions \cup LegKinds : pending'[r] \in {{}, {Event(k, LegOf(r))}}
    BY <2>1 DEF Owes
  <2>3. \A e1, e2 \in pending'[r] : e1 = e2
    BY <2>2
  <2>4. request'[r].phase = "calling" => request'[r].todo # <<>>
    BY <2>1 DEF Defers
  <2>5. \A s \in Requests \ {r} : request'[s] = request[s] /\ pending'[s] = pending[s]
    BY <2>1 DEF Frame
  <2> QED
    BY <2>3, <2>4, <2>5 DEF Shape
<1>4. ASSUME NEW r \in Requests, Hook(r)
      PROVE  Shape'
  <2>1. pending' = [pending EXCEPT ![r] = {}] /\ request' = request
    BY <1>4, HookFacts
  <2> QED
    BY <1>0, <2>1 DEF Shape
<1> QED
  BY <1>1, <1>2, <1>3, <1>4, Steps

\* Who owes an event after a step of the library.
LEMMA OwingAfterLibrary ==
    ASSUME TypeOK, NEW r \in Requests, Frame(r), Owes(r),
           NEW kind \in Transitions, NEW a \in Accounts
    PROVE  /\ r \notin Owing(kind, a)
           /\ Owing(kind, a)' =
                  IF Event(kind, LegOf(r)) \in pending'[r] /\ a = AccountOn(r)
                  THEN Owing(kind, a) \cup {r} ELSE Owing(kind, a)
<1>1. PICK k \in Transitions \cup LegKinds : pending'[r] \in {{}, {Event(k, LegOf(r))}}
  BY DEF Owes
<1>2. \A e \in pending'[r] : e = Event(e.kind, LegOf(r)) /\ AccountOf[e.leg] = AccountOn(r)
  BY <1>1 DEF Event, AccountOn
<1>3. \A s \in Requests \ {r} : pending'[s] = pending[s]
  BY DEF Frame
<1>4. r \notin Owing(kind, a)
  BY DEF Owing, Owes
<1>5. r \in Owing(kind, a)' <=> Event(kind, LegOf(r)) \in pending'[r] /\ a = AccountOn(r)
  <2>1. Event(kind, LegOf(r)).kind = kind /\ AccountOf[Event(kind, LegOf(r)).leg] = AccountOn(r)
    BY DEF Event, AccountOn
  <2> QED
    BY <1>2, <2>1 DEF Owing
<1>6. \A s \in Requests \ {r} : s \in Owing(kind, a)' <=> s \in Owing(kind, a)
  BY <1>3 DEF Owing
<1>7. Owing(kind, a) \subseteq Requests /\ Owing(kind, a)' \subseteq Requests
  BY DEF Owing
<1> QED
  BY <1>4, <1>5, <1>6, <1>7

\* Who owes an event after a hook.
LEMMA OwingAfterHook ==
    ASSUME TypeOK, NEW r \in Requests, NEW e \in Events,
           pending[r] = {e}, pending' = [pending EXCEPT ![r] = {}],
           NEW kind \in Transitions, NEW a \in Accounts
    PROVE  /\ r \in Owing(kind, a) <=> e.kind = kind /\ AccountOf[e.leg] = a
           /\ Owing(kind, a)' = Owing(kind, a) \ {r}
<1>1. pending \in [Requests -> SUBSET Events]
  BY DEF TypeOK
<1>2. /\ pending'[r] = {}
      /\ \A s \in Requests \ {r} : pending'[s] = pending[s]
  BY <1>1
<1>3. r \in Owing(kind, a) <=> e.kind = kind /\ AccountOf[e.leg] = a
  BY DEF Owing
<1>4. r \notin Owing(kind, a)'
  BY <1>2 DEF Owing
<1>5. \A s \in Requests \ {r} : s \in Owing(kind, a)' <=> s \in Owing(kind, a)
  BY <1>2 DEF Owing
<1>6. Owing(kind, a) \subseteq Requests /\ Owing(kind, a)' \subseteq Requests
  BY DEF Owing
<1> QED
  BY <1>3, <1>4, <1>5, <1>6

\* Of finitely many requests finitely many owe.
LEMMA OwingFinite ==
    ASSUME NEW kind, NEW a
    PROVE  IsFiniteSet(Owing(kind, a)) /\ Cardinality(Owing(kind, a)) \in Nat
<1>1. Owing(kind, a) \in SUBSET Requests
  BY DEF Owing
<1> QED
  BY <1>1, RoutingAssumption, FS_Subset, FS_CardinalityType

\* The counters keep up with the circuits.
LEMMA BalanceStep == TypeOK /\ Shape /\ Balance /\ [Next]_vars => Balance'
<1> SUFFICES ASSUME TypeOK, Shape, Balance, [Next]_vars, NEW a \in Accounts
             PROVE  transitions'[a]["opened"] + Cardinality(Owing("opened", a)')
                        >= transitions'[a]["closed"] + Cardinality(Owing("closed", a)')
                           + (IF circuit'[a] = "closed" THEN 0 ELSE 1)
  BY DEF Balance
<1>0. /\ "opened" \in Transitions /\ "closed" \in Transitions /\ "opened" # "closed"
      /\ circuit \in [Accounts -> Circuits]
      /\ transitions[a]["opened"] \in Nat /\ transitions[a]["closed"] \in Nat
      /\ transitions \in [Accounts -> [Transitions -> Nat]]
  BY DEF TypeOK, Transitions
<1> DEFINE O == Owing("opened", a)
           C == Owing("closed", a)
<1>1. /\ IsFiniteSet(O) /\ Cardinality(O) \in Nat
      /\ IsFiniteSet(C) /\ Cardinality(C) \in Nat
  BY OwingFinite
<1>2. transitions[a]["opened"] + Cardinality(O)
          >= transitions[a]["closed"] + Cardinality(C)
             + (IF circuit[a] = "closed" THEN 0 ELSE 1)
  BY DEF Balance
<1>3. ASSUME transitions' = transitions, pending' = pending, circuit' = circuit
      PROVE  /\ transitions'[a]["opened"] + Cardinality(O')
                    >= transitions'[a]["closed"] + Cardinality(C')
                       + (IF circuit'[a] = "closed" THEN 0 ELSE 1)
  <2>1. O' = O /\ C' = C
    BY <1>3 DEF Owing
  <2> QED
    BY <1>2, <1>3, <2>1
<1>4. CASE TurnSwitch \/ Metrics \/ UNCHANGED vars
  BY <1>3, <1>4 DEF TurnSwitch, Metrics, vars, requestVars, hookVars
<1>5. ASSUME NEW r \in Requests, NEW chat \in BOOLEAN, NEW chain \in Chains,
             Admit(r, chat, chain)
      PROVE  transitions' = transitions /\ pending' = pending /\ circuit' = circuit
  BY <1>5 DEF Admit, hookVars
<1>6. ASSUME NEW r \in Requests, LibraryStep(r)
      PROVE  transitions'[a]["opened"] + Cardinality(O')
                 >= transitions'[a]["closed"] + Cardinality(C')
                    + (IF circuit'[a] = "closed" THEN 0 ELSE 1)
  <2>1. /\ Frame(r) /\ Owes(r) /\ AccountOn(r) \in Accounts /\ LegOf(r) \in Legs
        /\ transitions' = transitions
    BY <1>6, LibraryFacts DEF Frame, hookVars
  <2>2. /\ r \notin O /\ r \notin C
        /\ O' = IF Event("opened", LegOf(r)) \in pending'[r] /\ a = AccountOn(r)
                THEN O \cup {r} ELSE O
        /\ C' = IF Event("closed", LegOf(r)) \in pending'[r] /\ a = AccountOn(r)
                THEN C \cup {r} ELSE C
    BY <1>0, <2>1, OwingAfterLibrary
  <2> HIDE DEF O, C
  <2>3. /\ Cardinality(O \cup {r}) = Cardinality(O) + 1
        /\ Cardinality(C \cup {r}) = Cardinality(C) + 1
    BY <1>1, <2>2, FS_AddElement
  <2>4. CASE a # AccountOn(r)
    BY <1>2, <2>1, <2>2, <2>4 DEF Frame
  <2>5. CASE a = AccountOn(r) /\ Event("opened", LegOf(r)) \in pending'[r]
    <3>1. Event("closed", LegOf(r)) # Event("opened", LegOf(r))
      BY DEF Event
    <3>2. Event("closed", LegOf(r)) \notin pending'[r]
      BY <2>1, <2>5, <3>1 DEF Owes
    <3> QED
      BY <1>0, <1>1, <1>2, <2>1, <2>2, <2>3, <2>5, <3>2
  <2>6. CASE a = AccountOn(r) /\ Event("opened", LegOf(r)) \notin pending'[r]
    <3>1. circuit[a] = "closed" => circuit'[a] = "closed"
      BY <2>1, <2>6 DEF Owes
    <3>2. Event("closed", LegOf(r)) \in pending'[r] =>
              circuit[a] # "closed" /\ circuit'[a] = "closed"
      BY <2>1, <2>6 DEF Owes
    <3> QED
      BY <1>0, <1>1, <1>2, <2>1, <2>2, <2>3, <2>6, <3>1, <3>2
  <2> QED
    BY <2>4, <2>5, <2>6
<1>7. ASSUME NEW r \in Requests, Hook(r)
      PROVE  transitions'[a]["opened"] + Cardinality(O')
                 >= transitions'[a]["closed"] + Cardinality(C')
                    + (IF circuit'[a] = "closed" THEN 0 ELSE 1)
  <2>1. PICK e \in Events :
               /\ pending[r] = {e} /\ pending' = [pending EXCEPT ![r] = {}]
               /\ Record(e) /\ AccountOf[e.leg] \in Accounts /\ circuit' = circuit
    BY <1>7, HookFacts
  <2>2. /\ r \in O <=> e.kind = "opened" /\ AccountOf[e.leg] = a
        /\ r \in C <=> e.kind = "closed" /\ AccountOf[e.leg] = a
        /\ O' = O \ {r} /\ C' = C \ {r}
    BY <1>0, <2>1, OwingAfterHook
  <2> HIDE DEF O, C
  <2>3. /\ Cardinality(O \ {r}) = IF r \in O THEN Cardinality(O) - 1 ELSE Cardinality(O)
        /\ Cardinality(C \ {r}) = IF r \in C THEN Cardinality(C) - 1 ELSE Cardinality(C)
    BY <1>1, FS_RemoveElement
  <2>4. /\ transitions'[a]["opened"] =
               IF e.kind = "opened" /\ AccountOf[e.leg] = a
               THEN transitions[a]["opened"] + 1 ELSE transitions[a]["opened"]
        /\ transitions'[a]["closed"] =
               IF e.kind = "closed" /\ AccountOf[e.leg] = a
               THEN transitions[a]["closed"] + 1 ELSE transitions[a]["closed"]
    BY <1>0, <2>1 DEF Record, Transitions
  <2>5. CASE e.kind = "opened" /\ AccountOf[e.leg] = a
    <3>1. Cardinality(O') = Cardinality(O) - 1 /\ Cardinality(C') = Cardinality(C)
      BY <2>2, <2>3, <2>5
    <3>2. /\ transitions'[a]["opened"] = transitions[a]["opened"] + 1
          /\ transitions'[a]["closed"] = transitions[a]["closed"]
      BY <2>4, <2>5
    <3> QED
      BY <1>0, <1>1, <1>2, <2>1, <3>1, <3>2
  <2>6. CASE e.kind = "closed" /\ AccountOf[e.leg] = a
    <3>1. Cardinality(C') = Cardinality(C) - 1 /\ Cardinality(O') = Cardinality(O)
      BY <2>2, <2>3, <2>6
    <3>2. /\ transitions'[a]["closed"] = transitions[a]["closed"] + 1
          /\ transitions'[a]["opened"] = transitions[a]["opened"]
      BY <2>4, <2>6
    <3> QED
      BY <1>0, <1>1, <1>2, <2>1, <3>1, <3>2
  <2>7. CASE ~ (e.kind \in {"opened", "closed"} /\ AccountOf[e.leg] = a)
    BY <1>2, <2>1, <2>2, <2>3, <2>4, <2>7
  <2> QED
    BY <2>5, <2>6, <2>7
<1> QED
  BY <1>3, <1>4, <1>5, <1>6, <1>7, Steps

\* An opening counted or owed stays so, and so does what was noticed.
LEMMA OpenedStays ==
    ASSUME TypeOK, Shape, [Next]_vars, NEW a \in Accounts
    PROVE  (Opened(a) => Opened(a)') /\ (Noticed(a) => Noticed(a)')
<1>0. /\ "opened" \in Transitions
      /\ transitions \in [Accounts -> [Transitions -> Nat]]
      /\ pending \in [Requests -> SUBSET Events]
  BY DEF TypeOK, Transitions
<1>1. ASSUME transitions' = transitions, seen' = seen, pending' = pending
      PROVE  (Opened(a) => Opened(a)') /\ (Noticed(a) => Noticed(a)')
  BY <1>1 DEF Opened, Noticed, Owing
<1>2. CASE TurnSwitch \/ Metrics \/ UNCHANGED vars
  BY <1>1, <1>2 DEF TurnSwitch, Metrics, vars, requestVars, hookVars
<1>3. ASSUME NEW r \in Requests, NEW chat \in BOOLEAN, NEW chain \in Chains,
             Admit(r, chat, chain)
      PROVE  (Opened(a) => Opened(a)') /\ (Noticed(a) => Noticed(a)')
  BY <1>1, <1>3 DEF Admit, hookVars
<1>4. ASSUME NEW r \in Requests, LibraryStep(r)
      PROVE  (Opened(a) => Opened(a)') /\ (Noticed(a) => Noticed(a)')
  <2>1. Frame(r) /\ Owes(r)
    BY <1>4, LibraryFacts
  <2>2. /\ transitions' = transitions /\ seen' = seen /\ pending[r] = {}
        /\ \A s \in Requests \ {r} : pending'[s] = pending[s]
    BY <2>1 DEF Frame, Owes, hookVars
  <2>3. Owing("opened", a) \subseteq Owing("opened", a)'
    BY <1>0, <2>1, OwingAfterLibrary
  <2>4. Noticed(a) => Noticed(a)'
    BY <2>2 DEF Noticed
  <2> QED
    BY <2>2, <2>3, <2>4 DEF Opened
<1>5. ASSUME NEW r \in Requests, Hook(r)
      PROVE  (Opened(a) => Opened(a)') /\ (Noticed(a) => Noticed(a)')
  <2>1. PICK e \in Events :
               /\ pending[r] = {e} /\ pending' = [pending EXCEPT ![r] = {}]
               /\ Record(e) /\ AccountOf[e.leg] \in Accounts
    BY <1>5, HookFacts
  <2>2. /\ r \in Owing("opened", a) <=> e.kind = "opened" /\ AccountOf[e.leg] = a
        /\ Owing("opened", a)' = Owing("opened", a) \ {r}
    BY <1>0, <2>1, OwingAfterHook
  <2>3. CASE e.kind = "opened" /\ AccountOf[e.leg] = a
    <3>1. transitions'[a]["opened"] = transitions[a]["opened"] + 1
      BY <1>0, <2>1, <2>3 DEF Record
    <3>2. transitions[a]["opened"] \in Nat
      BY <1>0
    <3>3. Opened(a)'
      BY <3>1, <3>2 DEF Opened
    <3>4. a \in seen'
      BY <2>1, <2>3 DEF Record
    <3> QED
      BY <3>3, <3>4 DEF Noticed
  <2>4. CASE ~ (e.kind = "opened" /\ AccountOf[e.leg] = a)
    <3>1. Owing("opened", a)' = Owing("opened", a)
      BY <2>2, <2>4
    <3>2. transitions'[a]["opened"] = transitions[a]["opened"]
      BY <1>0, <2>1, <2>4 DEF Record
    <3>3. Opened(a) => Opened(a)'
      BY <3>1, <3>2 DEF Opened
    <3>4. seen' = seen \cup {AccountOf[e.leg]}
      BY <2>1 DEF Record
    <3>5. \A s \in Requests \ {r} : pending'[s] = pending[s]
      BY <1>0, <2>1
    <3>6. Noticed(a) => Noticed(a)'
      BY <2>1, <3>4, <3>5 DEF Noticed
    <3> QED
      BY <3>3, <3>6
  <2> QED
    BY <2>3, <2>4
<1> QED
  BY <1>2, <1>3, <1>4, <1>5, Steps

\* Openings precede what only an open account can bring about.
LEMMA OpeningsStep == TypeOK /\ Shape /\ OpeningsFirst /\ [Next]_vars => OpeningsFirst'
<1> SUFFICES ASSUME TypeOK, Shape, OpeningsFirst, [Next]_vars
             PROVE  OpeningsFirst'
  OBVIOUS
<1>0. /\ \A a \in Accounts : Opened(a) => Opened(a)'
      /\ \A l \in Legs : AccountOf[l] \in Accounts
  BY OpenedStays, RoutingAssumption
<1>1. /\ circuit \in [Accounts -> Circuits]
      /\ request \in [Requests -> RequestStates]
      /\ pending \in [Requests -> SUBSET Events]
      /\ legCounts \in [LegKinds -> [Legs -> Nat]]
      /\ parts \in {0, 1} /\ draft \in Pages
  BY DEF TypeOK
<1>2. /\ OpenTraces \subseteq LegKinds
      /\ \A r \in Requests : \A e \in pending[r] : e.leg \in Legs
      /\ \A r \in Requests : LegsIn(request[r].deferred) \subseteq Legs
      /\ \A r \in Requests : LegsIn(request[r].todo) \subseteq Legs
  <2>1. OpenTraces \subseteq LegKinds
    BY DEF OpenTraces, LegKinds, SkipReasons
  <2>2. \A r \in Requests : request[r].deferred \in Seq(Legs) /\ request[r].todo \in Seq(Legs)
    BY <1>1 DEF RequestStates
  <2>3. \A s \in Seq(Legs) : LegsIn(s) \subseteq Legs
    BY ElementOfSeq, LenProperties DEF LegsIn
  <2>4. \A r \in Requests : \A e \in pending[r] : e.leg \in Legs
    BY <1>1 DEF Events
  <2> QED
    BY <2>1, <2>2, <2>3, <2>4
\* The four parts, each when what it speaks of is unchanged.
<1>3. circuit' = circuit => \A a \in Accounts : circuit'[a] # "closed" => Opened(a)'
  BY <1>0 DEF OpeningsFirst
<1>4. legCounts' = legCounts =>
          \A k \in OpenTraces, l \in Legs : legCounts'[k][l] > 0 => Opened(AccountOf[l])'
  BY <1>0 DEF OpeningsFirst
<1>5. ASSUME NEW s \in Requests, request'[s] = request[s], pending'[s] \subseteq pending[s]
      PROVE  /\ \A e \in pending'[s] : e.kind \in OpenTraces => Opened(AccountOf[e.leg])'
             /\ \A l \in LegsIn(request'[s].deferred) : Opened(AccountOf[l])'
             /\ request'[s].failOpen =>
                    \A l \in LegsIn(request'[s].todo) : Opened(AccountOf[l])'
  BY <1>0, <1>2, <1>5 DEF OpeningsFirst
<1>6. parts' = parts /\ draft' = draft =>
          (parts' = 1 => \A a \in Accounts : draft'.state[a] # "closed" => Opened(a)')
  BY <1>0 DEF OpeningsFirst
<1>7. CASE TurnSwitch \/ UNCHANGED vars
  <2>1. /\ circuit' = circuit /\ legCounts' = legCounts /\ request' = request
        /\ pending' = pending /\ parts' = parts /\ draft' = draft
    BY <1>7 DEF TurnSwitch, vars, requestVars, hookVars, pageVars
  <2> QED
    BY <1>3, <1>4, <1>5, <1>6, <2>1 DEF OpeningsFirst
<1>8. ASSUME NEW r \in Requests, NEW chat \in BOOLEAN, NEW chain \in Chains,
             Admit(r, chat, chain)
      PROVE  OpeningsFirst'
  <2>1. /\ circuit' = circuit /\ legCounts' = legCounts
        /\ pending' = pending /\ parts' = parts /\ draft' = draft
    BY <1>8 DEF Admit, hookVars, pageVars
  <2>2. /\ ~ request'[r].failOpen /\ request'[r].deferred = <<>>
        /\ \A s \in Requests \ {r} : request'[s] = request[s]
    BY <1>1, <1>8 DEF Admit, Fresh
  <2>3. /\ LegsIn(request'[r].deferred) = {}
        /\ \A e \in pending'[r] : e.kind \in OpenTraces => Opened(AccountOf[e.leg])'
    BY <1>0, <1>2, <2>1, <2>2 DEF LegsIn, OpeningsFirst
  <2> QED
    BY <1>3, <1>4, <1>5, <1>6, <2>1, <2>2, <2>3 DEF OpeningsFirst
<1>9. ASSUME NEW r \in Requests, LibraryStep(r)
      PROVE  OpeningsFirst'
  <2>1. /\ Frame(r) /\ Owes(r) /\ Defers(r)
        /\ LegOf(r) \in Legs /\ LegOf(r) \in LegsIn(request[r].todo)
        /\ AccountOn(r) \in Accounts
    BY <1>9, LibraryFacts
  <2>2. /\ legCounts' = legCounts /\ parts' = parts /\ draft' = draft
        /\ \A s \in Requests \ {r} : request'[s] = request[s] /\ pending'[s] = pending[s]
    BY <2>1 DEF Frame, hookVars, pageVars
  <2>3. Suspect(r) # {} => Opened(AccountOn(r))
    BY <2>1 DEF Suspect, OpeningsFirst
  <2>4. \A l \in Suspect(r) : l \in Legs /\ Opened(AccountOf[l])
    BY <2>1, <2>3 DEF Suspect, AccountOn
  <2>5. request[r].failOpen => Opened(AccountOn(r))
    BY <2>1 DEF OpeningsFirst, AccountOn
  <2>6. \A a \in Accounts : circuit'[a] # "closed" => Opened(a)'
    <3>1. ASSUME NEW a \in Accounts, circuit'[a] # "closed", circuit[a] = "closed"
          PROVE  Opened(a)'
      <4>1. a = AccountOn(r)
        BY <2>1, <3>1 DEF Frame
      <4>2. Event("opened", LegOf(r)) \in pending'[r]
        BY <2>1, <3>1, <4>1 DEF Owes
      <4>3. r \in Owing("opened", a)'
        BY <2>1, <4>1, <4>2, OwingAfterLibrary DEF Transitions
      <4> QED
        BY <4>3 DEF Opened
    <3> QED
      BY <1>0, <3>1 DEF OpeningsFirst
  <2>7. \A e \in pending'[r] : e.kind \in OpenTraces => Opened(AccountOf[e.leg])'
    <3>1. PICK k \in Transitions \cup LegKinds : pending'[r] \in {{}, {Event(k, LegOf(r))}}
      BY <2>1 DEF Owes
    <3>2. \A e \in pending'[r] : AccountOf[e.leg] = AccountOn(r)
      BY <3>1 DEF Event, AccountOn
    <3>3. \A e \in pending'[r] : e.kind \in OpenTraces => Opened(AccountOn(r))
      BY <2>1, <2>3, <2>5 DEF Owes
    <3> QED
      BY <1>0, <2>1, <3>2, <3>3
  <2>8. /\ \A l \in LegsIn(request'[r].deferred) : Opened(AccountOf[l])'
        /\ request'[r].failOpen =>
               \A l \in LegsIn(request'[r].todo) : Opened(AccountOf[l])'
    <3>1. \A l \in LegsIn(request[r].deferred) \cup Suspect(r) : Opened(AccountOf[l])'
      BY <1>0, <1>2, <2>4 DEF OpeningsFirst
    <3>2. request[r].failOpen => \A l \in LegsIn(request[r].todo) : Opened(AccountOf[l])'
      BY <1>0, <1>2 DEF OpeningsFirst
    <3> QED
      BY <2>1, <3>1, <3>2 DEF Defers
  <2> QED
    BY <1>4, <1>5, <1>6, <2>2, <2>6, <2>7, <2>8 DEF OpeningsFirst
<1>10. ASSUME NEW r \in Requests, Hook(r)
       PROVE  OpeningsFirst'
  <2>1. PICK e \in Events :
               /\ pending[r] = {e} /\ pending' = [pending EXCEPT ![r] = {}]
               /\ Record(e) /\ AccountOf[e.leg] \in Accounts
               /\ UNCHANGED <<liveVars, circuit, request, called, pageVars>>
    BY <1>10, HookFacts
  <2>2. /\ circuit' = circuit /\ request' = request /\ parts' = parts /\ draft' = draft
    BY <2>1 DEF pageVars
  <2>3. \A s \in Requests : pending'[s] \subseteq pending[s]
    BY <1>1, <2>1
  <2>4. \A k \in OpenTraces, l \in Legs : legCounts'[k][l] > 0 => Opened(AccountOf[l])'
    <3>1. ASSUME NEW k \in OpenTraces, NEW l \in Legs, legCounts'[k][l] > 0,
                 ~ (e.kind = k /\ e.leg = l)
          PROVE  Opened(AccountOf[l])'
      <4>1. legCounts'[k][l] = legCounts[k][l]
        BY <1>1, <1>2, <2>1, <3>1 DEF Record
      <4> QED
        BY <1>0, <3>1, <4>1 DEF OpeningsFirst
    <3>2. ASSUME NEW k \in OpenTraces, NEW l \in Legs, e.kind = k, e.leg = l
          PROVE  Opened(AccountOf[l])'
      BY <1>0, <2>1, <3>2 DEF OpeningsFirst
    <3> QED
      BY <3>1, <3>2
  <2> QED
    BY <1>3, <1>5, <1>6, <2>2, <2>3, <2>4 DEF OpeningsFirst
<1>11. CASE Metrics
  <2>1. /\ circuit' = circuit /\ legCounts' = legCounts /\ request' = request
        /\ pending' = pending
        /\ parts' = (IF Completes THEN 0 ELSE parts + 1)
        /\ draft' = (IF Completes THEN NoPage ELSE Page)
    BY <1>11 DEF Metrics, requestVars, hookVars
  <2>2. (Completes <=> parts = 1) /\ (parts = 0 => Page = [draft EXCEPT !.state = circuit])
    BY PageFacts
  <2>3. parts' = 1 => \A a \in Accounts : draft'.state[a] # "closed" => Opened(a)'
    <3>1. CASE parts = 1
      BY <2>1, <2>2, <3>1
    <3>2. CASE parts = 0
      <4>1. draft'.state = circuit
        BY <1>1, <2>1, <2>2, <3>2 DEF Pages
      <4> QED
        BY <1>0, <4>1 DEF OpeningsFirst
    <3> QED
      BY <1>1, <3>1, <3>2
  <2> QED
    BY <1>3, <1>4, <1>5, <2>1, <2>3 DEF OpeningsFirst
<1> QED
  BY <1>7, <1>8, <1>9, <1>10, <1>11, Steps

\* Whatever is counted or listed was noticed.
LEMMA NoticesStep ==
    TypeOK /\ Shape /\ OpeningsFirst /\ Notices /\ [Next]_vars => Notices'
<1> SUFFICES ASSUME TypeOK, Shape, OpeningsFirst, Notices, [Next]_vars
             PROVE  Notices'
  OBVIOUS
<1>0. \A a \in Accounts : Noticed(a) => Noticed(a)'
  BY OpenedStays
<1>1. \A a \in listed : a \in Accounts
  BY DEF TypeOK
<1>2. listed' = listed => \A a \in listed' : Noticed(a)'
  BY <1>0, <1>1 DEF Notices
<1>3. transitions' = transitions /\ seen' = seen =>
          \A a \in Accounts : transitions'[a]["opened"] > 0 => a \in seen'
  BY DEF Notices
<1>4. CASE TurnSwitch \/ UNCHANGED vars
  BY <1>2, <1>3, <1>4 DEF TurnSwitch, vars, hookVars, pageVars, Notices
<1>5. ASSUME NEW r \in Requests, NEW chat \in BOOLEAN, NEW chain \in Chains,
             Admit(r, chat, chain)
      PROVE  Notices'
  BY <1>2, <1>3, <1>5 DEF Admit, hookVars, pageVars, Notices
<1>6. ASSUME NEW r \in Requests, LibraryStep(r)
      PROVE  Notices'
  <2>1. UNCHANGED <<liveVars, hookVars, pageVars>>
    BY <1>6, LibraryFacts DEF Frame
  <2> QED
    BY <1>2, <1>3, <2>1 DEF hookVars, pageVars, Notices
<1>7. ASSUME NEW r \in Requests, Hook(r)
      PROVE  Notices'
  <2>1. PICK e \in Events : Record(e) /\ AccountOf[e.leg] \in Accounts /\ listed' = listed
    BY <1>7, HookFacts DEF pageVars
  <2>2. transitions \in [Accounts -> [Transitions -> Nat]]
    BY DEF TypeOK
  <2>3. ASSUME NEW a \in Accounts, transitions'[a]["opened"] > 0, a # AccountOf[e.leg]
        PROVE  a \in seen'
    <3>1. transitions'[a] = transitions[a] /\ seen \subseteq seen'
      BY <2>1, <2>2, <2>3 DEF Record
    <3> QED
      BY <2>3, <3>1 DEF Notices
  <2>4. AccountOf[e.leg] \in seen'
    BY <2>1 DEF Record
  <2> QED
    BY <1>2, <2>1, <2>3, <2>4 DEF Notices
<1>8. CASE Metrics
  <2>1. /\ transitions' = transitions /\ seen' = seen /\ pending' = pending
        /\ listed' = (IF Completes THEN Listed(Page) ELSE listed)
    BY <1>8 DEF Metrics, requestVars, hookVars
  <2>2. ASSUME Completes, NEW a \in Listed(Page)
        PROVE  Noticed(a)
    <3>1. parts = 1 /\ Page.seen = seen /\ Page.state = draft.state
      BY <2>2, PageFacts
    <3>2. CASE a \in seen
      BY <3>2 DEF Noticed
    <3>3. CASE a \notin seen
      <4>1. a \in Accounts /\ draft.state[a] # "closed"
        BY <2>2, <3>1, <3>3 DEF Listed
      <4>2. Owing("opened", a) # {}
        BY <3>1, <3>3, <4>1 DEF OpeningsFirst, Opened, Notices
      <4> QED
        BY <4>2 DEF Owing, Noticed
    <3> QED
      BY <3>2, <3>3
  <2>3. ASSUME NEW a \in listed'
        PROVE  Noticed(a)'
    <3>1. Noticed(a)
      BY <2>1, <2>2, <2>3 DEF Notices
    <3> QED
      BY <2>1, <3>1 DEF Noticed
  <2> QED
    BY <1>3, <2>1, <2>3 DEF Notices
<1> QED
  BY <1>4, <1>5, <1>6, <1>7, <1>8, Steps

\* What a plain request has called and what is ahead of it.
Way(r) ==
    called[r] \o (IF request[r].phase = "calling" THEN Tail(request[r].todo)
                  ELSE request[r].todo)

\* A plain request has kept to its chain, and the breaker has no part in it.
OnItsWay(r) ==
    request[r].plain =>
        /\ Way(r) \in Chains
        /\ ~ request[r].breaker /\ ~ request[r].failOpen
        /\ request[r].deferred = <<>> /\ pending[r] = {}
        /\ request[r].phase \in {"choosing", "calling"}

\* A new request has called nothing.
Untouched(r) == request[r].phase = "new" => called[r] = <<>> /\ pending[r] = {}

\* A step of the library keeps a plain request on its way.
LEMMA LibraryWalks ==
    ASSUME TypeOK, Shape, NEW r \in Requests, OnItsWay(r), LibraryStep(r)
    PROVE  OnItsWay(r)'
<1>1. /\ request[r].todo # <<>> /\ request[r] \in RequestStates /\ LegOf(r) \in Legs
      /\ request \in [Requests -> RequestStates]
      /\ pending \in [Requests -> SUBSET Events]
      /\ called \in [Requests -> Seq(Legs)]
      /\ request[r].todo \in Seq(Legs) /\ called[r] \in Seq(Legs)
  BY LibraryFacts DEF TypeOK, RequestStates
<1>2. request[r].plain => ~ Exhausted(r) /\ ~ Barred(r)
  BY DEF OnItsWay, Exhausted, Barred
<1>3. CASE Skip(r)
  <2>1. PICK next \in RequestStates :
            next.plain = request[r].plain /\ request'[r] = Onward(next)
    <3> DEFINE reason == IF Exhausted(r) THEN "exhausted_in_request" ELSE "circuit_open"
               next == [request[r] EXCEPT
                           !.todo = Tail(@),
                           !.deferred = IF reason = "circuit_open"
                                        THEN Append(@, LegOf(r)) ELSE @]
    <3>1. request'[r] = Onward(next)
      BY <1>1, <1>3 DEF Skip
    <3>2. /\ Tail(request[r].todo) \in Seq(Legs)
          /\ Append(request[r].deferred, LegOf(r)) \in Seq(Legs)
      BY <1>1, TailLegs, AppendLegs DEF RequestStates
    <3>3. next \in RequestStates /\ next.plain = request[r].plain
      BY <1>1, <3>2 DEF RequestStates
    <3> QED
      BY <3>1, <3>3
  <2>2. ~ request'[r].plain
    BY <1>2, <1>3, <2>1, OnwardFacts DEF Skip
  <2> QED
    BY <2>2 DEF OnItsWay
<1>4. CASE CallLeg(r)
  <2>1. /\ request' = [request EXCEPT ![r] = [@ EXCEPT !.phase = "calling", !.probing = FALSE]]
        /\ called' = [called EXCEPT ![r] = Append(@, LegOf(r))]
        /\ pending' = [pending EXCEPT ![r] = {}]
        /\ request[r].phase = "choosing"
    BY <1>4 DEF CallLeg, Calling, Deciding
  <2>2. /\ request'[r].plain = request[r].plain /\ request'[r].breaker = request[r].breaker
        /\ request'[r].failOpen = request[r].failOpen
        /\ request'[r].deferred = request[r].deferred
        /\ request'[r].todo = request[r].todo /\ request'[r].phase = "calling"
        /\ called'[r] = Append(called[r], Head(request[r].todo)) /\ pending'[r] = {}
    BY <1>1, <2>1 DEF RequestStates, LegOf
  <2>3. Way(r)' = Way(r)
    BY <1>1, <2>1, <2>2, CalledAhead DEF Way
  <2> QED
    BY <2>2, <2>3 DEF OnItsWay
<1>5. CASE Probe(r)
  <2>1. request'[r].plain = request[r].plain /\ Barred(r)
    BY <1>1, <1>5 DEF Probe, Calling, RequestStates
  <2> QED
    BY <1>2, <2>1 DEF OnItsWay
<1>6. CASE CallAnyway(r)
  <2>1. request'[r].plain = request[r].plain /\ request[r].failOpen
    BY <1>1, <1>6 DEF CallAnyway, Calling, RequestStates
  <2> QED
    BY <2>1 DEF OnItsWay
<1>7. ASSUME NEW more \in SUBSET Events, NEW over \in BOOLEAN, NEW exhausted \in SUBSET Accounts,
             Ended(r, more, over, exhausted), Answering(r),
             over \/ (request[r].plain => more = {})
      PROVE  OnItsWay(r)'
  <2> DEFINE next == [request[r] EXCEPT !.phase = "choosing", !.probing = FALSE,
                                        !.todo = Tail(@), !.exhausted = exhausted]
  <2>1. /\ request'[r] = (IF over THEN Over ELSE Onward(next))
        /\ called' = (IF over \/ Onward(next) = Over
                      THEN [called EXCEPT ![r] = <<>>] ELSE called)
        /\ pending'[r] = more
    BY <1>1, <1>7 DEF Ended
  <2>2. /\ next \in RequestStates /\ next.phase = "choosing"
        /\ next.todo = Tail(request[r].todo) /\ next.deferred = request[r].deferred
        /\ next.plain = request[r].plain /\ next.breaker = request[r].breaker
        /\ next.failOpen = request[r].failOpen
    BY <1>1, TailLegs DEF RequestStates
  <2> HIDE DEF next
  <2>3. /\ ~ Over.plain /\ (Onward(next).plain => next.plain)
        /\ next.deferred = <<>> => Onward(next) \in {next, Over}
    BY <2>2, OnwardFacts
  <2>4. ASSUME request'[r].plain
        PROVE  request[r].plain /\ request'[r] = next /\ called' = called /\ more = {}
    <3>1. ~ over /\ Onward(next).plain
      BY <2>1, <2>3, <2>4
    <3>2. next.plain /\ next.deferred = <<>>
      BY <2>2, <2>3, <3>1 DEF OnItsWay
    <3>3. Onward(next) = next /\ Onward(next) # Over
      BY <2>3, <3>1, <3>2
    <3> QED
      BY <1>7, <2>1, <2>2, <3>1, <3>2, <3>3
  <2>5. request'[r].plain => Way(r)' = Way(r)
    BY <1>7, <2>2, <2>4 DEF Way, Answering
  <2> QED
    BY <2>1, <2>2, <2>4, <2>5 DEF OnItsWay
<1>8. CASE Succeed(r)
  <2>1. PICK closes \in BOOLEAN :
            Ended(r, IF closes THEN {Event("closed", LegOf(r))} ELSE {},
                  TRUE, request[r].exhausted)
    BY <1>8 DEF Succeed
  <2>2. request'[r] = Over
    BY <1>1, <2>1 DEF Ended
  <2> QED
    BY <2>2 DEF OnItsWay, Over, Fresh
<1>9. CASE RejectQuota(r)
  <2>1. ~ request[r].plain
    BY <1>9 DEF RejectQuota, OnItsWay
  <2>2. PICK more \in {{}, {Event("opened", LegOf(r))}} :
            Ended(r, more, FALSE, request[r].exhausted \cup {AccountOn(r)})
    BY <1>9 DEF RejectQuota
  <2>3. /\ more \in SUBSET Events
        /\ request[r].exhausted \cup {AccountOn(r)} \in SUBSET Accounts
    BY <1>1, LegFacts DEF RequestStates, Transitions
  <2> QED
    BY <1>7, <1>9, <2>1, <2>2, <2>3 DEF RejectQuota
<1>10. CASE Fail(r)
  <2>1. PICK more \in {{}, {Event("unrecognized_429", LegOf(r))}}, over \in BOOLEAN :
            /\ ~ request[r].breaker => more = {}
            /\ Ended(r, more, over, request[r].exhausted)
    BY <1>10 DEF Fail
  <2>2. more \in SUBSET Events /\ request[r].exhausted \in SUBSET Accounts
    BY <1>1, LegFacts DEF RequestStates, LegKinds
  <2>3. request[r].plain => more = {}
    BY <2>1 DEF OnItsWay
  <2> QED
    BY <1>7, <1>10, <2>1, <2>2, <2>3 DEF Fail
<1> QED
  BY <1>3, <1>4, <1>5, <1>6, <1>8, <1>9, <1>10 DEF LibraryStep

\* Plain requests stay on their chains.
LEMMA WalksStep ==
    TypeOK /\ Shape /\ PlainFallback /\ Walks /\ [Next]_vars => (PlainFallback /\ Walks)'
<1> SUFFICES ASSUME TypeOK, Shape, PlainFallback, Walks, [Next]_vars,
                    NEW s \in Requests
             PROVE  OnItsWay(s)' /\ Untouched(s)'
  BY DEF PlainFallback, Walks, OnItsWay, Way, Untouched
<1>w. \A r \in Requests : OnItsWay(r) /\ Untouched(r)
  BY DEF PlainFallback, Walks, OnItsWay, Way, Untouched
<1>0. /\ request \in [Requests -> RequestStates]
      /\ pending \in [Requests -> SUBSET Events]
      /\ called \in [Requests -> Seq(Legs)]
  BY DEF TypeOK
<1>1. request'[s] = request[s] /\ pending'[s] = pending[s] /\ called'[s] = called[s]
          => OnItsWay(s)' /\ Untouched(s)'
  BY <1>w DEF OnItsWay, Way, Untouched
<1>2. CASE TurnSwitch \/ Metrics \/ UNCHANGED vars
  BY <1>1, <1>2 DEF TurnSwitch, Metrics, vars, requestVars
<1>3. ASSUME NEW r \in Requests, NEW chat \in BOOLEAN, NEW chain \in Chains,
             Admit(r, chat, chain)
      PROVE  OnItsWay(s)' /\ Untouched(s)'
  <2>1. CASE s = r
    <3>1. /\ request'[s].todo = chain /\ request'[s].phase = "choosing"
          /\ request'[s].plain = (disabled \/ ~ chat)
          /\ request'[s].breaker = UsesBreaker(chat)
          /\ ~ request'[s].failOpen /\ request'[s].deferred = <<>>
          /\ pending'[s] = pending[s] /\ called'[s] = called[s]
      BY <1>0, <1>3, <2>1 DEF Admit, Fresh
    <3>2. called[s] = <<>> /\ pending[s] = {}
      BY <1>w, <1>3, <2>1 DEF Admit, Untouched
    <3>3. chain \in Seq(Legs) /\ <<>> \o chain = chain
      BY RoutingAssumption, ConcatEmptySeq
    <3>4. Way(s)' = chain
      BY <3>1, <3>2, <3>3 DEF Way
    <3> QED
      BY <3>1, <3>2, <3>4 DEF OnItsWay, Untouched, UsesBreaker
  <2>2. CASE s # r
    BY <1>0, <1>1, <1>3, <2>2 DEF Admit
  <2> QED
    BY <2>1, <2>2
<1>4. ASSUME NEW r \in Requests, LibraryStep(r)
      PROVE  OnItsWay(s)' /\ Untouched(s)'
  <2>1. CASE s = r
    BY <1>w, <1>4, <2>1, LibraryWalks, LibraryFacts DEF Defers, Untouched
  <2>2. CASE s # r
    BY <1>1, <1>4, <2>2, LibraryFacts DEF Frame
  <2> QED
    BY <2>1, <2>2
<1>5. ASSUME NEW r \in Requests, Hook(r)
      PROVE  OnItsWay(s)' /\ Untouched(s)'
  <2>1. /\ pending[r] # {} /\ pending' = [pending EXCEPT ![r] = {}]
        /\ request' = request /\ called' = called
    BY <1>5, HookFacts
  <2> QED
    BY <1>w, <1>0, <2>1 DEF OnItsWay, Way, Untouched
<1> QED
  BY <1>2, <1>3, <1>4, <1>5, Steps

-----------------------------------------------------------------------------
(* The theorems.                                                           *)

\* Before any request nothing is opened, counted or listed.
LEMMA InitIInv == Init => IInv
<1> SUFFICES ASSUME Init
             PROVE  IInv
  OBVIOUS
<1> USE DEF Init
<1>1. <<>> \in Seq(Legs)
  OBVIOUS
<1>2. Fresh \in RequestStates
  BY <1>1 DEF Fresh, RequestStates
<1>3. TypeOK
  BY <1>1, <1>2, RoutingAssumption
     DEF TypeOK, Circuits, NoLegCounts, NoPage, Pages
<1>4. Shape /\ PlainFallback /\ Walks
  BY DEF Shape, PlainFallback, Walks, Fresh
<1>5. Balance
  <2> SUFFICES ASSUME NEW a \in Accounts
               PROVE  transitions[a]["opened"] + Cardinality(Owing("opened", a))
                          >= transitions[a]["closed"] + Cardinality(Owing("closed", a))
                             + (IF circuit[a] = "closed" THEN 0 ELSE 1)
    BY DEF Balance
  <2>1. Owing("opened", a) = {} /\ Owing("closed", a) = {}
    BY DEF Owing
  <2>2. Cardinality(Owing("opened", a)) = 0 /\ Cardinality(Owing("closed", a)) = 0
    BY <2>1, FS_EmptySet
  <2>3. /\ transitions[a]["opened"] = 0 /\ transitions[a]["closed"] = 0
        /\ circuit[a] = "closed"
    BY DEF Transitions
  <2> QED
    BY <2>2, <2>3
<1>6. OpeningsFirst /\ Notices
  <2>1. \A k \in OpenTraces, l \in Legs : legCounts[k][l] = 0
    BY DEF NoLegCounts, OpenTraces, LegKinds, SkipReasons
  <2>2. \A r \in Requests : LegsIn(request[r].deferred) = {} /\ ~ request[r].failOpen
    BY DEF Fresh, LegsIn
  <2> QED
    BY <2>1, <2>2 DEF OpeningsFirst, Notices, Transitions
<1> QED
  BY <1>3, <1>4, <1>5, <1>6 DEF IInv

\* Every step keeps the invariant.
LEMMA StepIInv == IInv /\ [Next]_vars => IInv'
  BY TypeStep, ShapeStep, BalanceStep, OpeningsStep, NoticesStep, WalksStep DEF IInv

\* The invariant holds throughout.
LEMMA SpecIInv == Spec => []IInv
  BY InitIInv, StepIInv, PTL DEF Spec

\* Counters, pages and requests stay in their ranges (accountMetrics).
THEOREM RoutingTypes == Spec => []TypeOK
<1>1. IInv => TypeOK
  BY DEF IInv
<1> QED
  BY <1>1, SpecIInv, PTL

\* Once the hooks have returned, the transition counters tell the circuit of
\* an account, whatever the order of the hooks (accountMetrics.record).
THEOREM CountersTellCircuits == Spec => []CountsFollowCircuits
<1>1. ASSUME IInv, NEW a \in Accounts,
             a \notin InHook("opened") \cup InHook("closed")
      PROVE  LET t == transitions[a]
             IN  IF circuit[a] = "closed" THEN t["opened"] >= t["closed"]
                 ELSE t["opened"] > t["closed"]
  <2>1. Owing("opened", a) = {} /\ Owing("closed", a) = {}
    BY <1>1 DEF Owing, InHook, InHooks
  <2>2. Cardinality({}) = 0
    BY FS_EmptySet
  <2>3. transitions[a]["opened"] \in Nat /\ transitions[a]["closed"] \in Nat
    BY <1>1 DEF IInv, TypeOK, Transitions
  <2> QED
    BY <1>1, <2>1, <2>2, <2>3 DEF IInv, Balance
<1>2. IInv => CountsFollowCircuits
  BY <1>1 DEF CountsFollowCircuits
<1> QED
  BY <1>2, SpecIInv, PTL

\* Without the breaker, a request is the plain fallback along its chain (chat,
\* embeddings).
THEOREM PlainRequestsFallBack == Spec => []PlainFallback
<1>1. IInv => PlainFallback
  BY DEF IInv
<1> QED
  BY <1>1, SpecIInv, PTL

\* A page that shows an account open, or a trace of it, shows the opening
\* (metrics, accountMetrics.write).
THEOREM PagesShowOpenings == Spec => OpeningIsShown
<1>1. ASSUME IInv, Metrics, Completes, NEW a \in Accounts,
             Page.state[a] # "closed" \/ a \in Page.traced
      PROVE  Page.opened[a] > 0 \/ a \in Page.late
  <2>1. /\ parts = 1 /\ Page.state = draft.state
        /\ Page.opened[a] = transitions[a]["opened"]
        /\ Page.traced = {AccountOf[l] : l \in
               {l \in Legs : \E k \in OpenTraces : legCounts[k][l] > 0}}
        /\ Page.late = InHook("opened")
    BY <1>1, PageFacts DEF IInv
  <2>2. Opened(a)
    BY <1>1, <2>1 DEF IInv, OpeningsFirst
  <2> QED
    BY <2>1, <2>2 DEF Opened, Owing, InHook, InHooks
<1>2. IInv => [Metrics /\ Completes =>
        \A a \in Accounts :
            Page.state[a] # "closed" \/ a \in Page.traced =>
                Page.opened[a] > 0 \/ a \in Page.late]_vars
  BY <1>1
<1> QED
  BY <1>2, SpecIInv, PTL DEF OpeningIsShown

\* No account is lost from the gauge but for events still owed
\* (accountMetrics.seen, write).
THEOREM GaugeKeepsAccounts == Spec => AccountsStayListed
<1>1. ASSUME IInv, [Next]_vars, NEW a \in listed \ listed'
      PROVE  \E e \in InHooks : AccountOf[e.leg] = a
  <2>1. Noticed(a)
    BY <1>1 DEF IInv, Notices
  <2>2. CASE Metrics
    <3>1. Completes /\ listed' = Listed(Page)
      BY <1>1, <2>2 DEF Metrics
    <3>2. Page.seen = seen
      BY <1>1, <3>1, PageFacts DEF IInv
    <3>3. a \notin seen
      BY <1>1, <3>1, <3>2 DEF Listed
    <3> QED
      BY <2>1, <3>3 DEF Noticed, InHooks
  <2>3. CASE ~ Metrics
    <3>1. \A r \in Requests : LibraryStep(r) => listed' = listed
      BY <1>1, LibraryFacts DEF IInv, Frame, pageVars
    <3>2. listed' = listed
      BY <1>1, <2>3, <3>1, Steps DEF TurnSwitch, Admit, Hook, vars, pageVars
    <3> QED
      BY <1>1, <3>2
  <2> QED
    BY <2>2, <2>3
<1>2. IInv /\ [Next]_vars =>
          [\A a \in listed \ listed' : \E e \in InHooks : AccountOf[e.leg] = a]_vars
  BY <1>1
<1> QED
  BY <1>2, SpecIInv, PTL DEF AccountsStayListed, Spec
=============================================================================
