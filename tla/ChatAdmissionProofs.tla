-------------------------- MODULE ChatAdmissionProofs --------------------------
(***************************************************************************)
(* For any contents, edits, reloaders and requests, overlapping reloads    *)
(* included: a handler only ever reads configurations that Validate        *)
(* accepts, and a call for an alias whose chain and budget are of one file *)
(* fits the clients' patience.  As long as no two reloads have run at      *)
(* once, the store only moves forward.                                     *)
(***************************************************************************)
EXTENDS ChatAdmission, TLAPS

\* Two contents that differ at most in the key an override may have replaced.
SameSettings(c, d) ==
    c.legs = d.legs /\ c.budget = d.budget /\ c.limit = d.limit

\* The reloads that have loaded a snapshot.
Loading == {w \in Reloaders : reload[w].at \in {"swap", "level"}}

\* Every snapshot somebody holds.
Held ==
    {file, live} \cup {reload[w].new : w \in Loading}
        \cup {request[q].chain : q \in Clients}
        \cup {request[q].budget : q \in Clients}

\* Snapshots of one edit agree, and no edit is still to come for any.
HeldAgree ==
    /\ \A a \in Held : a.gen <= edits
    /\ \A a, b \in Held : a.gen = b.gen => SameSettings(a.content, b.content)

\* What is about to be swapped in, or just was, has been validated.
SwapValidated ==
    \A w \in Reloaders :
        reload[w].at \in {"swap", "level"} => Validate(reload[w].new.content)

\* What a request applies has been.
CallsValidated ==
    \A q \in Clients :
        request[q].at = "called" => Validate(request[q].budget.content)

\* An alias resolves to the chain of the snapshot it is resolved in.
AliasChain(r) ==
    r.at \in {"resolved", "timed", "called"} /\ ~r.raw =>
        r.legs = r.chain.content.legs

AliasChains == \A q \in Clients : AliasChain(request[q])

IInv ==
    /\ StoreTypeOK
    /\ AdmissionTypeOK
    /\ LiveConfigValid
    /\ SwapValidated
    /\ CallsValidated
    /\ AliasChains
    /\ HeldAgree

-----------------------------------------------------------------------------
(* Helpers.                                                                *)

\* applyEnvOverrides leaves alone every setting but the access key.
LEMMA OverridesKeepSettings ==
    ASSUME NEW c \in ContentType, NEW k \in EnvFiles \cup {NoKey}
    PROVE  /\ WithOverrides(c, k) \in ContentType
           /\ WithOverrides(c, k).level = c.level
           /\ SameSettings(WithOverrides(c, k), c)
  BY DEF WithOverrides, ContentType, SameSettings, Keys

\* Every snapshot that reloads and requests hold is in its range.
LEMMA HeldSnapshots ==
    ASSUME StoreTypeOK, AdmissionTypeOK
    PROVE  Held \subseteq Snapshots
<1>1. \A w \in Loading : reload[w].new \in Snapshots
  BY DEF Loading, StoreTypeOK, ReloadStates
<1>2. \A q \in Clients :
          request[q].chain \in Snapshots /\ request[q].budget \in Snapshots
  BY DEF AdmissionTypeOK, Requested
<1> QED
  BY <1>1, <1>2 DEF Held, StoreTypeOK

\* A step that hands snapshots around, or loads the file, keeps HeldAgree.
LEMMA HeldStep ==
    ASSUME IInv, edits' = edits,
           NEW d \in ContentType, SameSettings(d, file.content),
           Held' \subseteq Held \cup {[content |-> d, gen |-> file.gen]}
    PROVE  HeldAgree'
<1> DEFINE new == [content |-> d, gen |-> file.gen]
<1>1. file \in Held /\ Held \subseteq Snapshots
  BY HeldSnapshots DEF IInv, Held
<1>2. ASSUME NEW a \in Held' PROVE a.gen <= edits'
  BY <1>1, <1>2 DEF IInv, HeldAgree
<1>3. ASSUME NEW a \in Held', NEW b \in Held', a.gen = b.gen
      PROVE  SameSettings(a.content, b.content)
  <2>1. PICK x \in Held : x.gen = a.gen /\ SameSettings(x.content, a.content)
    BY <1>1 DEF SameSettings
  <2>2. PICK y \in Held : y.gen = b.gen /\ SameSettings(y.content, b.content)
    BY <1>1 DEF SameSettings
  <2>3. SameSettings(x.content, y.content)
    BY <1>3, <2>1, <2>2 DEF IInv, HeldAgree
  <2> QED
    BY <2>1, <2>2, <2>3 DEF SameSettings
<1> QED
  BY <1>2, <1>3 DEF HeldAgree

-----------------------------------------------------------------------------

\* At start-up the live snapshot has passed Validate and nobody holds
\* another.
LEMMA InitIInv == AdmissionInit => IInv
<1> SUFFICES ASSUME AdmissionInit PROVE IInv
  OBVIOUS
<1>1. PICK c \in Contents, k \in EnvFiles :
        /\ Validate(WithOverrides(c, k))
        /\ file = [content |-> c, gen |-> 0]
        /\ live = [content |-> WithOverrides(c, k), gen |-> 0]
        /\ level = c.level
  BY DEF AdmissionInit, Init
<1> DEFINE d == WithOverrides(c, k)
<1>2. /\ reload = [w \in Reloaders |-> [at |-> "idle"]]
      /\ request = [q \in Clients |-> [at |-> "arrived", raw |-> FALSE, legs |-> 0,
                                        chain |-> live, budget |-> live]]
  BY DEF AdmissionInit, Init
<1>3. c \in ContentType /\ d \in ContentType /\ SameSettings(d, c) /\ d.level = c.level
  BY ConfigAssumption, OverridesKeepSettings
<1>4. Validate(d) /\ live = [content |-> d, gen |-> 0]
  BY <1>1
<1> HIDE DEF d
<1>5. file \in Snapshots /\ live \in Snapshots
  BY <1>1, <1>3, <1>4, ConfigAssumption DEF Snapshots
<1>6. StoreTypeOK
  <2>1. /\ watching = FALSE /\ events = 0 /\ timer = FALSE /\ edits = 0
        /\ unseen = FALSE /\ overlapped = FALSE
        /\ envFile \in EnvFiles /\ env \in EnvFiles
    BY DEF AdmissionInit, Init
  <2>2. 0 \in 0..MaxEdits /\ level \in Levels
    BY <1>1, <1>3, <1>4, ConfigAssumption DEF Validate
  <2>3. reload \in [Reloaders -> ReloadStates]
    BY <1>2 DEF ReloadStates
  <2> QED
    BY <1>5, <2>1, <2>2, <2>3 DEF StoreTypeOK
<1>7. AdmissionTypeOK
  BY <1>2, <1>5 DEF AdmissionTypeOK, Requested, Steps
<1>8. Held = {file, live} \/ Held = {file, live} \cup {live}
  BY <1>2 DEF Held, Loading
<1>9. HeldAgree
  <2>1. edits = 0 /\ \A a \in Held : a = file \/ a = live
    BY <1>8 DEF AdmissionInit, Init
  <2> QED
    BY <1>1, <1>3, <1>4, <2>1 DEF HeldAgree, SameSettings
<1>10. LiveConfigValid /\ SwapValidated /\ CallsValidated /\ AliasChains
  BY <1>2, <1>4
  DEF LiveConfigValid, SwapValidated, CallsValidated, AliasChains, AliasChain
<1> QED
  BY <1>6, <1>7, <1>9, <1>10 DEF IInv

\* The operator and the watcher touch no snapshot but the file.
LEMMA EditStep ==
    ASSUME IInv, Edit, UNCHANGED request
    PROVE  IInv'
<1>1. PICK c \in Contents : file' = [content |-> c, gen |-> edits']
  BY DEF Edit
<1>2. edits' = edits + 1 /\ edits' \in 0..MaxEdits
  BY ConfigAssumption DEF IInv, StoreTypeOK, Edit
<1>3. UNCHANGED <<envFile, env, live, level, watching, timer, reload, overlapped,
                  request>>
  BY DEF Edit
<1>4. file' \in Snapshots
  BY <1>1, <1>2, ConfigAssumption DEF Snapshots
<1>5. events' \in Nat /\ unseen' \in BOOLEAN
  BY DEF IInv, StoreTypeOK, Edit
<1>6. StoreTypeOK' /\ AdmissionTypeOK'
  BY <1>2, <1>3, <1>4, <1>5 DEF IInv, StoreTypeOK, AdmissionTypeOK
<1>7. Held' \subseteq (Held \cup {file'})
  BY <1>3 DEF Held, Loading
<1>8. \A a \in Held : a.gen \in 0..MaxEdits /\ a.gen <= edits
  BY HeldSnapshots DEF IInv, HeldAgree, Snapshots
<1>9. file'.gen = edits + 1 /\ edits \in Nat
  BY <1>1, <1>2 DEF IInv, StoreTypeOK
<1>10. \A a \in Held' : a.gen <= edits'
  BY <1>2, <1>7, <1>8, <1>9
<1>11. ASSUME NEW a \in Held', NEW b \in Held', a.gen = b.gen
       PROVE  SameSettings(a.content, b.content)
  <2>1. CASE a \in Held /\ b \in Held
    BY <1>11, <2>1 DEF IInv, HeldAgree
  <2>2. CASE a = file' /\ b = file'
    BY <2>2 DEF SameSettings
  <2>3. ~(a \in Held /\ b = file') /\ ~(b \in Held /\ a = file')
    BY <1>8, <1>9, <1>11
  <2> QED
    BY <1>7, <2>1, <2>2, <2>3
<1>12. LiveConfigValid' /\ SwapValidated' /\ CallsValidated' /\ AliasChains'
  BY <1>3 DEF IInv, LiveConfigValid, SwapValidated, CallsValidated, AliasChains,
     AliasChain, Validate, Fits
<1> QED
  BY <1>6, <1>10, <1>11, <1>12 DEF IInv, HeldAgree

\* The watcher and its timer hand no snapshot around.
LEMMA WatchStep ==
    ASSUME IInv, UNCHANGED request, EditEnvFile \/ Watch \/ TakeEvent
    PROVE  IInv'
<1> USE DEF watchVars, fileVars
<1>1. UNCHANGED <<file, env, live, level, reload, request>>
  BY DEF EditEnvFile, Watch, TakeEvent
<1>2. edits' \in 0..MaxEdits /\ edits' >= edits /\ edits \in 0..MaxEdits
  BY ConfigAssumption DEF IInv, StoreTypeOK, EditEnvFile, Watch, TakeEvent
<1>3. events' \in Nat
  BY DEF IInv, StoreTypeOK, EditEnvFile, Watch, TakeEvent
<1>4. /\ watching' \in BOOLEAN /\ timer' \in BOOLEAN /\ unseen' \in BOOLEAN
      /\ envFile' \in EnvFiles /\ overlapped' \in BOOLEAN
  BY DEF IInv, StoreTypeOK, EditEnvFile, Watch, TakeEvent
<1>5. StoreTypeOK' /\ AdmissionTypeOK'
  BY <1>1, <1>2, <1>3, <1>4 DEF IInv, StoreTypeOK, AdmissionTypeOK
<1>6. Held' = Held
  BY <1>1 DEF Held, Loading
<1>7. \A a \in Held : a.gen \in 0..MaxEdits /\ a.gen <= edits
  BY HeldSnapshots DEF IInv, HeldAgree, Snapshots
<1>8. \A a \in Held' : a.gen <= edits'
  BY <1>2, <1>6, <1>7
<1>9. HeldAgree'
  BY <1>6, <1>8 DEF IInv, HeldAgree, SameSettings
<1>10. LiveConfigValid' /\ SwapValidated' /\ CallsValidated' /\ AliasChains'
  BY <1>1 DEF IInv, LiveConfigValid, SwapValidated, CallsValidated, AliasChains,
     AliasChain, Validate, Fits
<1> QED
  BY <1>5, <1>9, <1>10 DEF IInv

\* A step of a reloader that takes no new snapshot.
LEMMA ReloadStep ==
    ASSUME IInv, UNCHANGED request, NEW w \in Reloaders,
           Fire(w) \/ Swap(w) \/ SetLevel(w) \/ SourceEnv(w)
    PROVE  IInv'
<1> USE DEF watchVars, fileVars
<1>1. UNCHANGED <<file, envFile, watching, events, edits, unseen, request>>
  BY DEF Fire, Swap, SetLevel, SourceEnv
<1>2. reload[w] \in ReloadStates /\ live \in Snapshots /\ level \in Levels
  BY DEF IInv, StoreTypeOK
<1>3. live.content.level \in Levels
  BY DEF IInv, LiveConfigValid, Validate
<1>4. ASSUME w \in Loading
      PROVE  reload[w].new \in Snapshots /\ reload[w].new.content.level \in Levels
  BY <1>2, <1>4 DEF Loading, ReloadStates, IInv, SwapValidated, Validate
<1>5. \E r \in ReloadStates :
        /\ reload' = [reload EXCEPT ![w] = r]
        /\ r.at \in {"swap", "level"} =>
              r.at = "level" /\ reload[w].at = "swap" /\ r.new = reload[w].new
  <2>1. CASE Fire(w)
    <3> DEFINE r == [at |-> "load"]
    <3>1. r \in ReloadStates /\ reload' = [reload EXCEPT ![w] = r]
      BY <2>1 DEF Fire, ReloadStates
    <3> QED
      BY <3>1
  <2>2. CASE Swap(w)
    <3> DEFINE r == [at |-> "level", new |-> reload[w].new,
                     oldLevel |-> live.content.level]
    <3>1. w \in Loading /\ reload[w].at = "swap"
      BY <2>2 DEF Swap, Loading
    <3>2. r \in ReloadStates
      BY <1>3, <1>4, <3>1 DEF ReloadStates
    <3>3. reload' = [reload EXCEPT ![w] = r]
      BY <2>2 DEF Swap
    <3> QED
      BY <3>1, <3>2, <3>3
  <2>3. CASE SetLevel(w)
    <3> DEFINE r == [at |-> "env"]
    <3>1. r \in ReloadStates /\ reload' = [reload EXCEPT ![w] = r]
      BY <2>3 DEF SetLevel, ReloadStates
    <3> QED
      BY <3>1
  <2>4. CASE SourceEnv(w)
    <3> DEFINE r == [at |-> "idle"]
    <3>1. r \in ReloadStates /\ reload' = [reload EXCEPT ![w] = r]
      BY <2>4 DEF SourceEnv, ReloadStates
    <3> QED
      BY <3>1
  <2> QED
    BY <2>1, <2>2, <2>3, <2>4
<1>6. reload' \in [Reloaders -> ReloadStates]
  BY <1>5 DEF IInv, StoreTypeOK
<1>7. live' = live \/ (Swap(w) /\ live' = reload[w].new)
  BY DEF Fire, Swap, SetLevel, SourceEnv
<1>8. live' \in Snapshots
  BY <1>2, <1>4, <1>7 DEF Swap, Loading
<1>9. level' \in Levels
  <2>1. CASE SetLevel(w)
    BY <1>2, <1>4, <2>1 DEF SetLevel, Loading
  <2>2. CASE ~SetLevel(w)
    BY <1>2, <2>2 DEF Fire, Swap, SourceEnv
  <2> QED
    BY <2>1, <2>2
<1>10. timer' \in BOOLEAN /\ env' \in EnvFiles \cup {NoKey} /\ overlapped' \in BOOLEAN
  BY DEF IInv, StoreTypeOK, Fire, Swap, SetLevel, SourceEnv
<1>11. StoreTypeOK' /\ AdmissionTypeOK'
  BY <1>1, <1>6, <1>8, <1>9, <1>10 DEF IInv, StoreTypeOK, AdmissionTypeOK
<1>12. \A v \in Reloaders :
          /\ v # w => reload'[v] = reload[v]
          /\ reload'[w].at \in {"swap", "level"} =>
                /\ reload'[w].at = "level" /\ reload[w].at = "swap"
                /\ reload'[w].new = reload[w].new
  BY <1>5 DEF IInv, StoreTypeOK
<1>13. Held' \subseteq Held
  <2>1. \A v \in Loading' : v \in Loading /\ reload'[v].new = reload[v].new
    BY <1>12 DEF Loading
  <2>2. live' = live \/ live' \in {reload[v].new : v \in Loading}
    BY <1>7 DEF Swap, Loading
  <2> QED
    BY <1>1, <2>1, <2>2 DEF Held
<1>14. HeldAgree'
  <2>1. file.content \in ContentType
    BY DEF IInv, StoreTypeOK, Snapshots
  <2> QED
    BY <1>1, <1>13, <2>1, HeldStep DEF SameSettings
<1>15. LiveConfigValid'
  <2>1. CASE live' = live
    BY <2>1 DEF IInv, LiveConfigValid, Validate, Fits
  <2>2. CASE Swap(w) /\ live' = reload[w].new
    BY <2>2 DEF Swap, IInv, SwapValidated, LiveConfigValid, Validate, Fits
  <2> QED
    BY <1>7, <2>1, <2>2
<1>16. SwapValidated'
  BY <1>12 DEF IInv, SwapValidated, Validate, Fits
<1>17. CallsValidated' /\ AliasChains'
  BY <1>1 DEF IInv, CallsValidated, AliasChains, AliasChain, Validate, Fits
<1> QED
  BY <1>11, <1>14, <1>15, <1>16, <1>17 DEF IInv

\* Load hands out what it has validated.
LEMMA LoadStep ==
    ASSUME IInv, UNCHANGED request, NEW w \in Reloaders, LoadFile(w)
    PROVE  IInv'
<1> USE DEF watchVars, fileVars
<1> DEFINE d == WithOverrides(file.content, env)
<1>1. UNCHANGED <<file, envFile, env, live, level, watching, events, timer, edits,
                  unseen, overlapped, request>>
  BY DEF LoadFile
<1>2. file \in Snapshots /\ env \in EnvFiles \cup {NoKey}
  BY DEF IInv, StoreTypeOK
<1>3. d \in ContentType /\ SameSettings(d, file.content)
  BY <1>2, OverridesKeepSettings DEF Snapshots
<1>4. Loaded = [content |-> d, gen |-> file.gen] /\ Loaded \in Snapshots
  BY <1>2, <1>3 DEF Loaded, Snapshots
<1>5. Loads(file.content) => Validate(d)
  BY DEF Loads
<1> HIDE DEF d
<1>6. \E r \in ReloadStates :
        /\ reload' = [reload EXCEPT ![w] = r]
        /\ \/ r.at = "idle"
           \/ r.at = "swap" /\ r.new = Loaded /\ Validate(d)
  <2>1. CASE Loads(file.content)
    <3> DEFINE r == [at |-> "swap", new |-> Loaded]
    <3>1. r \in ReloadStates
      BY <1>4 DEF ReloadStates
    <3>2. reload' = [reload EXCEPT ![w] = r]
      BY <2>1 DEF LoadFile
    <3> QED
      BY <1>5, <2>1, <3>1, <3>2
  <2>2. CASE ~Loads(file.content)
    <3> DEFINE r == [at |-> "idle"]
    <3>1. r \in ReloadStates /\ reload' = [reload EXCEPT ![w] = r]
      BY <2>2 DEF LoadFile, ReloadStates
    <3> QED
      BY <3>1
  <2> QED
    BY <2>1, <2>2
<1>7. reload' \in [Reloaders -> ReloadStates]
  BY <1>6 DEF IInv, StoreTypeOK
<1>8. StoreTypeOK' /\ AdmissionTypeOK'
  BY <1>1, <1>7 DEF IInv, StoreTypeOK, AdmissionTypeOK
<1>9. \A v \in Reloaders : v # w => reload'[v] = reload[v]
  BY <1>6 DEF IInv, StoreTypeOK
<1>10. \/ reload'[w].at = "idle"
       \/ reload'[w].at = "swap" /\ reload'[w].new = Loaded /\ Validate(d)
  BY <1>6 DEF IInv, StoreTypeOK
<1>11. Held' \subseteq Held \cup {Loaded}
  <2>1. \A v \in Loading' :
            \/ v \in Loading /\ reload'[v].new = reload[v].new
            \/ reload'[v].new = Loaded
    BY <1>9, <1>10 DEF Loading
  <2> QED
    BY <1>1, <2>1 DEF Held
<1>12. HeldAgree'
  BY <1>1, <1>3, <1>4, <1>11, HeldStep
<1>13. SwapValidated'
  <2>1. Validate(d) => Validate(Loaded.content)
    BY <1>4
  <2>2. ASSUME NEW v \in Reloaders, reload'[v].at \in {"swap", "level"}
        PROVE  Validate(reload'[v].new.content)
    BY <1>9, <1>10, <2>1, <2>2 DEF IInv, SwapValidated
  <2> QED
    BY <2>2 DEF SwapValidated, Validate, Fits
<1>14. LiveConfigValid' /\ CallsValidated' /\ AliasChains'
  BY <1>1 DEF IInv, LiveConfigValid, CallsValidated, AliasChains, AliasChain, Validate, Fits
<1> QED
  BY <1>8, <1>12, <1>13, <1>14 DEF IInv

\* A request applies only what was live, hence valid, when it read it.
LEMMA AdmissionStep ==
    ASSUME IInv, NEW q \in Clients, Admission(q)
    PROVE  IInv'
<1>1. UNCHANGED storeVars
  BY DEF Admission, Authorize, Resolve, ReadTimeout, ReadBudget
<1>2. request[q] \in Requested /\ live \in Snapshots
  BY DEF IInv, StoreTypeOK, AdmissionTypeOK
<1>3. \E r \in Requested :
        /\ request' = [request EXCEPT ![q] = r]
        /\ r.chain \in {request[q].chain, live}
        /\ r.budget \in {request[q].budget, live}
        /\ r.at = "called" => r.budget = live
        /\ AliasChain(r)
  <2>1. CASE Authorize(q)
    <3>1. PICK to \in {"authorized", "refused"} :
              request' = [request EXCEPT ![q].at = to]
      BY <2>1 DEF Authorize
    <3> DEFINE r == [request[q] EXCEPT !.at = to]
    <3>2. r \in Requested /\ r.at \in {"authorized", "refused"}
          /\ r.chain = request[q].chain /\ r.budget = request[q].budget
      BY <1>2 DEF Requested, Steps
    <3>3. request' = [request EXCEPT ![q] = r]
      BY <3>1
    <3> QED
      BY <3>2, <3>3 DEF AliasChain
  <2>2. CASE Resolve(q)
    <3>1. PICK raw \in BOOLEAN, n \in RawLegs :
              request' = [request EXCEPT
                  ![q].at = "resolved", ![q].chain = live, ![q].raw = raw,
                  ![q].legs = IF raw THEN n ELSE live.content.legs]
      BY <2>2 DEF Resolve
    <3> DEFINE legs == IF raw THEN n ELSE live.content.legs
               r == [request[q] EXCEPT !.at = "resolved", !.chain = live, !.raw = raw,
                                       !.legs = legs]
    <3>2. legs \in Nat /\ (~raw => legs = live.content.legs)
      BY <1>2, RawAssumption DEF Snapshots, ContentType
    <3>3. request' = [request EXCEPT ![q] = r]
      BY <3>1
    <3> HIDE DEF legs
    <3>4. r \in Requested /\ r.at = "resolved" /\ r.raw = raw /\ r.legs = legs
          /\ r.chain = live /\ r.budget = request[q].budget
      BY <1>2, <3>2 DEF Requested, Steps
    <3> QED
      BY <3>2, <3>3, <3>4 DEF AliasChain
  <2>3. CASE ReadTimeout(q)
    <3> DEFINE r == [request[q] EXCEPT !.at = "timed"]
    <3>1. r \in Requested /\ r.at = "timed" /\ r.raw = request[q].raw
          /\ r.legs = request[q].legs
          /\ r.chain = request[q].chain /\ r.budget = request[q].budget
      BY <1>2 DEF Requested, Steps
    <3>2. request' = [request EXCEPT ![q] = r] /\ request[q].at = "resolved"
      BY <2>3 DEF ReadTimeout
    <3> QED
      BY <3>1, <3>2 DEF AliasChain, IInv, AliasChains
  <2>4. CASE ReadBudget(q)
    <3> DEFINE r == [request[q] EXCEPT !.at = "called", !.budget = live]
    <3>1. r \in Requested /\ r.at = "called" /\ r.raw = request[q].raw
          /\ r.legs = request[q].legs
          /\ r.chain = request[q].chain /\ r.budget = live
      BY <1>2 DEF Requested, Steps
    <3>2. request' = [request EXCEPT ![q] = r] /\ request[q].at = "timed"
      BY <2>4 DEF ReadBudget
    <3> QED
      BY <3>1, <3>2 DEF AliasChain, IInv, AliasChains
  <2> QED
    BY <2>1, <2>2, <2>3, <2>4 DEF Admission
<1>4. StoreTypeOK' /\ AdmissionTypeOK'
  BY <1>1, <1>3 DEF IInv, StoreTypeOK, AdmissionTypeOK, storeVars
<1>5. /\ \A p \in Clients : p # q => request'[p] = request[p]
      /\ request'[q].chain \in {request[q].chain, live}
      /\ request'[q].budget \in {request[q].budget, live}
      /\ request'[q].at = "called" => request'[q].budget = live
      /\ AliasChain(request'[q])
  BY <1>3 DEF IInv, AdmissionTypeOK
<1>6. UNCHANGED <<file, live, reload, edits>>
  BY <1>1 DEF storeVars
<1>7. Held' \subseteq Held
  BY <1>5, <1>6 DEF Held, Loading
<1>8. HeldAgree'
  <2>1. file.content \in ContentType
    BY DEF IInv, StoreTypeOK, Snapshots
  <2> QED
    BY <1>6, <1>7, <2>1, HeldStep DEF SameSettings
<1>9. LiveConfigValid' /\ SwapValidated'
  BY <1>6 DEF IInv, LiveConfigValid, SwapValidated, Validate, Fits
<1>10. CallsValidated'
  BY <1>5 DEF IInv, LiveConfigValid, CallsValidated, Validate, Fits
<1>11. AliasChains'
  <2>1. ASSUME NEW p \in Clients PROVE AliasChain(request'[p])
    BY <1>5 DEF IInv, AliasChains
  <2> QED
    BY <2>1 DEF AliasChains, AliasChain
<1> QED
  BY <1>4, <1>8, <1>9, <1>10, <1>11 DEF IInv

\* Every step of operator, watcher, reloads and requests keeps the invariant.
LEMMA NextIInv == IInv /\ [AdmissionNext]_vars => IInv'
<1> SUFFICES ASSUME IInv, [AdmissionNext]_vars PROVE IInv'
  OBVIOUS
<1>1. CASE StoreNext /\ UNCHANGED request
  BY <1>1, EditStep, WatchStep, ReloadStep, LoadStep DEF StoreNext, DoReload
<1>2. CASE \E q \in Clients : Admission(q)
  BY <1>2, AdmissionStep
<1>3. CASE UNCHANGED vars
  BY <1>3 DEF vars, storeVars, IInv, StoreTypeOK, AdmissionTypeOK, LiveConfigValid,
       SwapValidated, CallsValidated, AliasChains, AliasChain, HeldAgree, Held, Loading,
       SameSettings, Validate, Fits
<1> QED
  BY <1>1, <1>2, <1>3 DEF AdmissionNext

\* The inductive invariant of the store and its requests.
THEOREM SpecIInv == AdmissionSpec => []IInv
  BY InitIInv, NextIInv, PTL DEF AdmissionSpec

-----------------------------------------------------------------------------
(* What follows from IInv, overlapping reloads included.                   *)

\* Files, snapshots, watcher and reloaders stay in their ranges: in particular
\* the log level is always one that parseLevel knows.
THEOREM StoreTypeCorrect == AdmissionSpec => []StoreTypeOK
<1>1. IInv => StoreTypeOK
  BY DEF IInv
<1> QED
  BY SpecIInv, <1>1, PTL

\* Whatever is saved to the file and however reloads overlap, the pointer the
\* handlers read is to a configuration Validate accepts.
THEOREM HandlersReadValidConfig == AdmissionSpec => []LiveConfigValid
<1>1. IInv => LiveConfigValid
  BY DEF IInv
<1> QED
  BY SpecIInv, <1>1, PTL

\* Two separate reads of the store are safe for an alias as long as they are of
\* one file, though an environment override may have changed between its loads.
THEOREM SameFileCallsFit == AdmissionSpec => []UntornCallsFit
<1>1. ASSUME IInv, NEW q \in Clients, CalledForAlias(q),
             request[q].chain.gen = request[q].budget.gen
      PROVE  WorstCase(q) <= Patience(q)
  <2>1. request[q].chain \in Held /\ request[q].budget \in Held
    BY DEF Held
  <2>2. SameSettings(request[q].chain.content, request[q].budget.content)
    BY <1>1, <2>1 DEF IInv, HeldAgree
  <2>3. Fits(request[q].budget.content) /\ request[q].budget.content.budget # 0
    BY <1>1 DEF IInv, CallsValidated, CalledForAlias, Validate
  <2>4. request[q].legs = request[q].chain.content.legs
    BY <1>1 DEF IInv, AliasChains, AliasChain, CalledForAlias
  <2> QED
    BY <2>2, <2>3, <2>4 DEF Fits, SameSettings, WorstCase, Patience
<1>2. IInv => UntornCallsFit
  BY <1>1 DEF UntornCallsFit
<1> QED
  BY SpecIInv, <1>2, PTL

-----------------------------------------------------------------------------
(* What holds as long as no two reloads have run at once.                  *)

\* At most one doReload runs.
OneReload ==
    \A v, w \in Reloaders : Idle(v) \/ Idle(w) \/ v = w

\* What a reload holds lies between the live snapshot and the file.
ReloadForward ==
    /\ live.gen <= file.gen
    /\ \A w \in Reloaders : reload[w].at = "swap" =>
          live.gen <= reload[w].new.gen /\ reload[w].new.gen <= file.gen

\* The level is the live one, or the one about to be replaced.
LevelPending ==
    IF \E w \in Reloaders : reload[w].at = "level"
    THEN \E w \in Reloaders :
           /\ reload[w].at = "level"
           /\ live = reload[w].new
           /\ level = reload[w].oldLevel
    ELSE level = live.content.level

\* A request has read nothing newer than the live snapshot.
RequestsBehind ==
    \A q \in Clients :
        /\ request[q].chain.gen <= live.gen
        /\ request[q].at = "called" =>
              request[q].chain.gen <= request[q].budget.gen

InOrder == OneReload /\ ReloadForward /\ LevelPending /\ RequestsBehind

OrderInv == ~overlapped => InOrder

\* The facts about types that the steps below need.
GenTypes ==
    /\ file.gen \in Int /\ live.gen \in Int /\ edits \in Int
    /\ file.gen <= edits
    /\ \A w \in Loading : reload[w].new.gen \in Int
    /\ \A q \in Clients : request[q].chain.gen \in Int /\ request[q].budget.gen \in Int
    /\ reload \in [Reloaders -> ReloadStates]
    /\ request \in [Clients -> Requested]

\* The part of the invariant that says what every generation number is.
LEMMA IInvGenTypes == IInv => GenTypes
<1> SUFFICES ASSUME IInv PROVE GenTypes
  OBVIOUS
<1>1. \A a \in Held : a.gen \in Int /\ a.gen <= edits
  BY HeldSnapshots DEF IInv, HeldAgree, Snapshots
<1>2. edits \in Int /\ reload \in [Reloaders -> ReloadStates]
      /\ request \in [Clients -> Requested]
  BY DEF IInv, StoreTypeOK, AdmissionTypeOK
<1> QED
  BY <1>1, <1>2 DEF GenTypes, Held

\* At start-up no reload is under way and none has stored.
LEMMA InitOrder == AdmissionInit => InOrder
<1> SUFFICES ASSUME AdmissionInit PROVE InOrder
  OBVIOUS
<1>1. PICK c \in Contents, k \in EnvFiles :
        /\ file = [content |-> c, gen |-> 0]
        /\ live = [content |-> WithOverrides(c, k), gen |-> 0]
        /\ level = c.level
        /\ reload = [w \in Reloaders |-> [at |-> "idle"]]
  BY DEF AdmissionInit, Init
<1>2. \A q \in Clients : request[q].at = "arrived" /\ request[q].chain = live
  BY DEF AdmissionInit
<1>3. live.content.level = c.level
  BY <1>1, ConfigAssumption, OverridesKeepSettings
<1>4. OneReload /\ ReloadForward /\ LevelPending
  BY <1>1, <1>3 DEF OneReload, ReloadForward, LevelPending, Idle
<1>5. RequestsBehind
  BY <1>1, <1>2 DEF RequestsBehind
<1> QED
  BY <1>4, <1>5 DEF InOrder

\* One step, as long as it starts no second reload.
LEMMA NextOrder ==
    ASSUME IInv, InOrder, ~overlapped', [AdmissionNext]_vars
    PROVE  InOrder'
<1> USE DEF watchVars, fileVars
<1>1. GenTypes
  BY IInvGenTypes
<1>2. CASE Edit /\ UNCHANGED request
  <2>1. UNCHANGED <<live, level, reload, request>> /\ file'.gen = edits + 1
    BY <1>2 DEF Edit
  <2>2. OneReload' /\ LevelPending' /\ RequestsBehind'
    BY <2>1 DEF InOrder, OneReload, LevelPending, RequestsBehind, Idle
  <2>3. ReloadForward'
    BY <1>1, <2>1 DEF InOrder, ReloadForward, GenTypes, Loading
  <2> QED
    BY <1>1, <2>1, <2>2, <2>3 DEF InOrder, GenTypes
<1>3. ASSUME UNCHANGED <<file, live, level, reload, request>>
      PROVE  InOrder'
  BY <1>1, <1>3 DEF InOrder, OneReload, ReloadForward, LevelPending, RequestsBehind,
     Idle, GenTypes
<1>4. ASSUME NEW w \in Reloaders, Fire(w), UNCHANGED request
      PROVE  InOrder'
  <2>1. /\ \A v \in Reloaders : reload[v].at = "idle"
        /\ UNCHANGED <<file, live, level, request>>
    BY <1>4 DEF Fire, Idle
  <2>2. \A v \in Reloaders : reload'[v].at = IF v = w THEN "load" ELSE "idle"
    BY <1>1, <1>4, <2>1 DEF Fire, GenTypes
  <2>3. OneReload' /\ ReloadForward'
    BY <2>1, <2>2 DEF InOrder, OneReload, ReloadForward, Idle
  <2>4. LevelPending' /\ RequestsBehind'
    BY <2>1, <2>2 DEF InOrder, LevelPending, RequestsBehind
  <2> QED
    BY <1>1, <2>1, <2>3, <2>4 DEF InOrder, GenTypes
<1>5. ASSUME NEW w \in Reloaders, reload[w].at # "idle"
      PROVE  \A v \in Reloaders : v # w => reload[v].at = "idle"
  BY <1>5 DEF InOrder, OneReload, Idle
<1>6. ASSUME NEW w \in Reloaders, LoadFile(w), UNCHANGED request
      PROVE  InOrder'
  <2>1. /\ \A v \in Reloaders : v # w => reload[v].at = "idle"
        /\ reload[w].at = "load"
        /\ UNCHANGED <<file, live, level, request>>
    BY <1>5, <1>6 DEF LoadFile
  <2>2. /\ \A v \in Reloaders : v # w => reload'[v] = reload[v]
        /\ \/ reload'[w].at = "idle"
           \/ reload'[w].at = "swap" /\ reload'[w].new.gen = file.gen
    BY <1>1, <1>6 DEF LoadFile, GenTypes, Loaded
  <2>3. OneReload'
    BY <2>1, <2>2 DEF OneReload, Idle
  <2>4. ReloadForward'
    BY <1>1, <2>1, <2>2 DEF InOrder, ReloadForward, GenTypes
  <2>5. LevelPending' /\ RequestsBehind'
    BY <2>1, <2>2 DEF InOrder, LevelPending, RequestsBehind
  <2> QED
    BY <1>1, <2>1, <2>3, <2>4, <2>5 DEF InOrder, GenTypes
<1>7. ASSUME NEW w \in Reloaders, Swap(w), UNCHANGED request
      PROVE  InOrder'
  <2>1. /\ \A v \in Reloaders : v # w => reload[v].at = "idle"
        /\ reload[w].at = "swap"
        /\ UNCHANGED <<file, level, request>>
        /\ live' = reload[w].new
    BY <1>5, <1>7 DEF Swap
  <2>2. /\ \A v \in Reloaders : v # w => reload'[v] = reload[v]
        /\ reload'[w].at = "level"
        /\ reload'[w].new = reload[w].new
        /\ reload'[w].oldLevel = live.content.level
    BY <1>1, <1>7 DEF Swap, GenTypes, ReloadStates
  <2>3. live.gen <= live'.gen /\ live'.gen <= file'.gen
    BY <2>1 DEF InOrder, ReloadForward
  <2>4. OneReload' /\ ReloadForward'
    BY <2>1, <2>2, <2>3 DEF OneReload, Idle, ReloadForward
  <2>5. level = live.content.level
    BY <2>1 DEF InOrder, LevelPending
  <2>6. LevelPending'
    BY <2>1, <2>2, <2>5 DEF LevelPending
  <2>7. live'.gen \in Int
    BY <1>1, <2>1 DEF GenTypes, Loading
  <2>8. RequestsBehind'
    BY <1>1, <2>1, <2>3, <2>7 DEF InOrder, RequestsBehind, GenTypes
  <2> QED
    BY <1>1, <2>3, <2>4, <2>6, <2>7, <2>8 DEF InOrder, GenTypes
<1>8. ASSUME NEW w \in Reloaders, SetLevel(w), UNCHANGED request
      PROVE  InOrder'
  <2>1. /\ \A v \in Reloaders : v # w => reload[v].at = "idle"
        /\ reload[w].at = "level"
        /\ UNCHANGED <<file, live, request>>
    BY <1>5, <1>8 DEF SetLevel
  <2>2. /\ \A v \in Reloaders : v # w => reload'[v] = reload[v]
        /\ reload'[w].at = "env"
    BY <1>1, <1>8 DEF SetLevel, GenTypes, ReloadStates
  <2>3. live = reload[w].new /\ level = reload[w].oldLevel
    BY <2>1 DEF InOrder, LevelPending
  <2>4. level' = live.content.level
    BY <1>8, <2>3 DEF SetLevel
  <2>5. LevelPending'
    BY <2>1, <2>2, <2>4 DEF LevelPending
  <2>6. OneReload' /\ ReloadForward' /\ RequestsBehind'
    BY <2>1, <2>2 DEF InOrder, OneReload, Idle, ReloadForward, RequestsBehind
  <2> QED
    BY <1>1, <2>1, <2>5, <2>6 DEF InOrder, GenTypes
<1>9. ASSUME NEW w \in Reloaders, SourceEnv(w), UNCHANGED request
      PROVE  InOrder'
  <2>1. /\ \A v \in Reloaders : v # w => reload[v].at = "idle"
        /\ reload[w].at = "env"
        /\ UNCHANGED <<file, live, level, request>>
    BY <1>5, <1>9 DEF SourceEnv
  <2>2. /\ \A v \in Reloaders : v # w => reload'[v] = reload[v]
        /\ reload'[w].at = "idle"
    BY <1>1, <1>9 DEF SourceEnv, GenTypes, ReloadStates
  <2>3. OneReload' /\ ReloadForward' /\ LevelPending' /\ RequestsBehind'
    BY <2>1, <2>2 DEF InOrder, OneReload, Idle, ReloadForward, LevelPending,
       RequestsBehind
  <2> QED
    BY <1>1, <2>1, <2>3 DEF InOrder, GenTypes
<1>10. ASSUME NEW q \in Clients, Admission(q)
       PROVE  InOrder'
  <2>1. UNCHANGED <<file, live, level, reload>>
    BY <1>10 DEF Admission, Authorize, Resolve, ReadTimeout, ReadBudget, storeVars
  <2>2. /\ \A p \in Clients : p # q => request'[p] = request[p]
        /\ request'[q].chain.gen <= live.gen
        /\ request'[q].at = "called" => request'[q].chain.gen <= request'[q].budget.gen
    <3>1. request[q] \in Requested /\ request[q].chain.gen <= live.gen
      BY <1>1 DEF GenTypes, InOrder, RequestsBehind
    <3>2. CASE Authorize(q)
      BY <1>1, <3>1, <3>2 DEF Authorize, GenTypes, Requested
    <3>3. CASE Resolve(q)
      BY <1>1, <3>1, <3>3 DEF Resolve, GenTypes, Requested
    <3>4. CASE ReadTimeout(q)
      BY <1>1, <3>1, <3>4 DEF ReadTimeout, GenTypes, Requested
    <3>5. CASE ReadBudget(q)
      BY <1>1, <3>1, <3>5 DEF ReadBudget, GenTypes, Requested
    <3> QED
      BY <1>10, <3>2, <3>3, <3>4, <3>5 DEF Admission
  <2>3. RequestsBehind'
    BY <2>1, <2>2 DEF InOrder, RequestsBehind
  <2>4. OneReload' /\ ReloadForward' /\ LevelPending'
    BY <2>1 DEF InOrder, OneReload, Idle, ReloadForward, LevelPending
  <2> QED
    BY <1>1, <2>1, <2>3, <2>4 DEF InOrder, GenTypes
<1>11. CASE StoreNext /\ UNCHANGED request
  <2>1. CASE EditEnvFile \/ Watch \/ TakeEvent
    BY <1>3, <1>11, <2>1 DEF EditEnvFile, Watch, TakeEvent
  <2> QED
    BY <1>2, <1>4, <1>6, <1>7, <1>8, <1>9, <1>11, <2>1 DEF StoreNext, DoReload
<1>12. CASE UNCHANGED vars
  BY <1>3, <1>12 DEF vars, storeVars
<1> QED
  BY <1>10, <1>11, <1>12 DEF AdmissionNext

\* As long as no two reloads have been under way at once, the order holds.
LEMMA SpecOrder == AdmissionSpec => []OrderInv
<1>1. IInv /\ OrderInv /\ [AdmissionNext]_vars => OrderInv'
  <2> SUFFICES ASSUME IInv, OrderInv, [AdmissionNext]_vars, ~overlapped'
               PROVE  InOrder'
    BY DEF OrderInv
  <2>1. ~overlapped
    BY DEF AdmissionNext, StoreNext, Edit, EditEnvFile, Watch, TakeEvent, Fire, DoReload,
       LoadFile, Swap, SetLevel, SourceEnv, Admission, Authorize, Resolve, ReadTimeout,
       ReadBudget, vars, storeVars
  <2> QED
    BY <2>1, NextOrder DEF OrderInv
<1>2. AdmissionInit => OrderInv
  BY InitOrder DEF OrderInv
<1> QED
  BY <1>1, <1>2, SpecIInv, PTL DEF AdmissionSpec

\* As long as no two reloads have run at once, the budget a request applies is
\* never older than the chain it resolved.
THEOREM ReadsMoveForward == AdmissionSpec => []SettingsReadInOrder
<1>1. OrderInv => SettingsReadInOrder
  BY DEF OrderInv, InOrder, RequestsBehind, SettingsReadInOrder
<1> QED
  BY SpecOrder, <1>1, PTL

\* As long as no two reloads have run at once, comparing with the swapped-out
\* snapshot is enough to keep the level right.
THEOREM LevelIsLive == AdmissionSpec => []LevelFollowsLive
<1>1. OrderInv => LevelFollowsLive
  BY DEF OrderInv, InOrder, LevelPending, LevelFollowsLive, Idle
<1> QED
  BY SpecOrder, <1>1, PTL
=============================================================================
