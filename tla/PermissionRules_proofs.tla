------------------------ MODULE PermissionRules_proofs ------------------------
(***************************************************************************)
(* Theorems about the rule store, for every number of threads, sessions,   *)
(* keys and jobs, any retention time and any caps: a stored rule is a      *)
(* grant in force, a grant in force is stored, the store stays within its  *)
(* caps, and nothing is allowed without a person but by a grant in force.  *)
(*                                                                         *)
(* The argument is that of the lock: what its holder has read is the store *)
(* as it still is, without what was out of date when it was read.          *)
(***************************************************************************)
EXTENDS PermissionRules, FiniteSetTheorems, TLAPS

Rules == [Spaces -> [Grants -> Nat]]
Requests == {job \in Checks : job.op = "relaxed" => job.eligible} \cup Saves \cup Resets
Allowed == [op |-> "allow"]

TypeOK ==
    /\ clock \in Nat /\ clock > 0
    /\ file \in Rules
    /\ holder \subseteq Threads
    /\ task \in [Threads -> Requests \cup {Idle, Allowed}]
    /\ loaded \in [Threads -> Rules]
    /\ at \in [Threads -> Nat]
    /\ lastUse \in Rules

\* What the holder of the lock has read, and when.
HolderReadsTheStore ==
    /\ \A t, u \in holder : t = u
    /\ \A t \in holder :
        /\ task[t] \in Requests
        /\ at[t] > 0 /\ at[t] <= clock
        /\ loaded[t] = IF task[t].op \in {"disable", "reset"} THEN file ELSE Prune(file, at[t])

Held(rules) == {x \in Spaces \X Grants : Has(rules[x[1]], x[2])}
HeldBy(own) == {k \in Grants : Has(own, k)}

StoreIsFinite == IsFiniteSet(Held(file))

IInv ==
    /\ TypeOK
    /\ HolderReadsTheStore
    /\ NoGrantReturns
    /\ NoGrantIsLost
    /\ StoreWithinCaps
    /\ StoreIsFinite
-----------------------------------------------------------------------------
(***************************************************************************)
(* The operators on rules                                                  *)
(***************************************************************************)

\* What marking rules does to each of them.
LEMMA MarkRules ==
    ASSUME NEW rules \in Rules, NEW s \in Spaces, NEW ks, NEW m \in Nat
    PROVE  /\ Mark(rules, s, ks, m) \in Rules
           /\ \A r \in Spaces, k \in Grants :
                Mark(rules, s, ks, m)[r][k] = IF r = s /\ k \in ks THEN m ELSE rules[r][k]
  BY DEF Mark, Rules

\* What pruning does to each rule.
LEMMA PruneRules ==
    ASSUME NEW rules \in Rules, NEW m \in Nat
    PROVE  /\ Prune(rules, m) \in Rules
           /\ \A r \in Spaces, k \in Grants :
                Prune(rules, m)[r][k] = IF m - rules[r][k] <= RuleTtl THEN rules[r][k] ELSE 0
  BY DEF Prune, Rules

\* A namespace of a finite store holds finitely many rules.
LEMMA NamespaceIsFinite ==
    ASSUME NEW rules, IsFiniteSet(Held(rules)), NEW s \in Spaces
    PROVE  IsFiniteSet(HeldBy(rules[s]))
  <1> DEFINE f == [k \in HeldBy(rules[s]) |-> <<s, k>>]
  <1>1. f \in Injection(HeldBy(rules[s]), Held(rules))
    BY DEF Injection, Held, HeldBy, IsInjective
  <1>2. QED
    BY <1>1, FS_Injection

\* A store with no rule that another lacks is finite and no larger.
LEMMA FewerRules ==
    ASSUME NEW rules \in Rules, NEW new \in Rules, IsFiniteSet(Held(rules)),
           \A s \in Spaces, k \in Grants : Has(new[s], k) => Has(rules[s], k)
    PROVE  /\ IsFiniteSet(Held(new))
           /\ Total(new) <= Total(rules)
           /\ \A s \in Spaces : Count(new[s]) <= Count(rules[s])
  <1>1. Held(new) \in SUBSET Held(rules)
    BY DEF Held
  <1>2. IsFiniteSet(Held(new)) /\ Total(new) <= Total(rules)
    BY <1>1, FS_Subset DEF Total, Held
  <1>3. ASSUME NEW s \in Spaces
        PROVE  Count(new[s]) <= Count(rules[s])
    <2>1. HeldBy(new[s]) \in SUBSET HeldBy(rules[s])
      BY DEF HeldBy
    <2>2. IsFiniteSet(HeldBy(rules[s]))
      BY NamespaceIsFinite
    <2>3. QED
      BY <2>1, <2>2, FS_Subset DEF Count, HeldBy
  <1>4. QED
    BY <1>2, <1>3

\* Finitely many marked rules add no more than their number.
LEMMA MoreRules ==
    ASSUME NEW rules \in Rules, IsFiniteSet(Held(rules)), NEW s \in Spaces,
           NEW ks \in SUBSET Grants, IsFiniteSet(ks), NEW m \in Nat
    PROVE  LET new == Mark(rules, s, ks, m) IN
           /\ IsFiniteSet(Held(new))
           /\ Total(new) <= Total(rules) + Cardinality(ks)
           /\ Count(new[s]) <= Count(rules[s]) + Cardinality(ks)
           /\ \A r \in Spaces \ {s} : Count(new[r]) <= Count(rules[r])
  <1>1. PICK new : new = Mark(rules, s, ks, m)
    OBVIOUS
  <1>2. /\ new \in Rules
        /\ \A r \in Spaces, k \in Grants :
             new[r][k] = IF r = s /\ k \in ks THEN m ELSE rules[r][k]
    BY <1>1, MarkRules
  <1>3. /\ IsFiniteSet({s} \X ks)
        /\ Cardinality({s} \X ks) = Cardinality(ks)
        /\ Cardinality(ks) \in Nat
    <2>1. IsFiniteSet({s}) /\ Cardinality({s}) = 1
      BY FS_Singleton
    <2>2. Cardinality(ks) \in Nat
      BY FS_CardinalityType
    <2>3. IsFiniteSet({s} \X ks) /\ Cardinality({s} \X ks) = 1 * Cardinality(ks)
      BY <2>1, FS_Product
    <2>4. QED
      BY <2>2, <2>3
  <1>4. IsFiniteSet(Held(new)) /\ Total(new) <= Total(rules) + Cardinality(ks)
    <2>1. Held(new) \in SUBSET (Held(rules) \cup ({s} \X ks))
      BY <1>2 DEF Held, Has
    <2>2. /\ IsFiniteSet(Held(rules) \cup ({s} \X ks))
          /\ Cardinality(Held(rules) \cup ({s} \X ks))
               = Cardinality(Held(rules)) + Cardinality(ks)
                   - Cardinality(Held(rules) \cap ({s} \X ks))
      BY <1>3, FS_Union
    <2>3. IsFiniteSet(Held(rules) \cap ({s} \X ks))
      BY FS_Intersection
    <2>4. /\ Cardinality(Held(rules) \cap ({s} \X ks)) \in Nat
          /\ Cardinality(Held(rules)) \in Nat
      BY <2>3, FS_CardinalityType
    <2>5. IsFiniteSet(Held(new)) /\ Cardinality(Held(new)) \in Nat
          /\ Cardinality(Held(new)) <= Cardinality(Held(rules) \cup ({s} \X ks))
      BY <2>1, <2>2, FS_Subset, FS_CardinalityType
    <2>6. QED
      BY <2>2, <2>4, <2>5, <1>3 DEF Total, Held
  <1>5. Count(new[s]) <= Count(rules[s]) + Cardinality(ks)
    <2>1. HeldBy(new[s]) \in SUBSET (HeldBy(rules[s]) \cup ks)
      BY <1>2 DEF HeldBy, Has
    <2>2. IsFiniteSet(HeldBy(rules[s]))
      BY NamespaceIsFinite
    <2>3. /\ IsFiniteSet(HeldBy(rules[s]) \cup ks)
          /\ Cardinality(HeldBy(rules[s]) \cup ks)
               = Cardinality(HeldBy(rules[s])) + Cardinality(ks)
                   - Cardinality(HeldBy(rules[s]) \cap ks)
      BY <2>2, FS_Union
    <2>4. IsFiniteSet(HeldBy(rules[s]) \cap ks)
      BY <2>2, FS_Intersection
    <2>5. /\ Cardinality(HeldBy(rules[s]) \cap ks) \in Nat
          /\ Cardinality(HeldBy(rules[s])) \in Nat
      BY <2>2, <2>4, FS_CardinalityType
    <2>6. /\ Cardinality(HeldBy(new[s])) \in Nat
          /\ Cardinality(HeldBy(new[s])) <= Cardinality(HeldBy(rules[s]) \cup ks)
      BY <2>1, <2>3, FS_Subset, FS_CardinalityType
    <2>7. QED
      BY <2>3, <2>5, <2>6, <1>3 DEF Count, HeldBy
  <1>6. ASSUME NEW r \in Spaces \ {s}
        PROVE  Count(new[r]) <= Count(rules[r])
    <2>1. HeldBy(new[r]) \in SUBSET HeldBy(rules[r])
      BY <1>2 DEF HeldBy, Has
    <2>2. IsFiniteSet(HeldBy(rules[r]))
      BY NamespaceIsFinite
    <2>3. QED
      BY <2>1, <2>2, FS_Subset DEF Count, HeldBy
  <1>7. QED
    BY <1>1, <1>4, <1>5, <1>6

-----------------------------------------------------------------------------
(***************************************************************************)
(* The invariant                                                           *)
(***************************************************************************)

\* No rule is stored at first.
LEMMA InitEstablishesInvariant ==
    ASSUME RulesInit
    PROVE  IInv
  <1>1. Nothing \in Rules /\ \A s \in Spaces, k \in Grants : Nothing[s][k] = 0
    BY DEF Nothing, Rules
  <1>2. Held(file) = {} /\ \A s \in Spaces : HeldBy(file[s]) = {}
    BY <1>1 DEF RulesInit, Held, HeldBy, Has
  <1>3. StoreWithinCaps /\ StoreIsFinite
    <2>1. Total(file) = 0 /\ \A s \in Spaces : Count(file[s]) = 0
      BY <1>2, FS_EmptySet DEF Total, Count, Held, HeldBy
    <2>2. QED
      BY <1>2, <2>1, FS_EmptySet, RulesAssumption DEF StoreWithinCaps, StoreIsFinite, Spaces
  <1>4. TypeOK /\ HolderReadsTheStore
    BY <1>1 DEF RulesInit, TypeOK, HolderReadsTheStore
  <1>5. NoGrantReturns /\ NoGrantIsLost
    BY <1>1 DEF RulesInit, NoGrantReturns, NoGrantIsLost, Has
  <1>6. QED
    BY <1>3, <1>4, <1>5 DEF IInv

\* What the holder of the lock has read of a rule: the rule, or nothing when it is out
\* of date and the operation prunes.
LEMMA HolderReads ==
    ASSUME IInv, NEW t \in holder, NEW s \in Spaces, NEW k \in Grants
    PROVE  /\ loaded[t] \in Rules /\ loaded[t][s][k] \in Nat /\ file[s][k] \in Nat
           /\ at[t] \in Nat /\ at[t] > 0 /\ at[t] <= clock
           /\ Has(loaded[t][s], k) => loaded[t][s][k] = file[s][k]
           /\ at[t] - file[s][k] <= RuleTtl => loaded[t][s][k] = file[s][k]
           /\ task[t].op \notin {"disable", "reset"} /\ Has(loaded[t][s], k)
                => at[t] - file[s][k] <= RuleTtl
  <1>1. /\ loaded[t] \in Rules /\ file \in Rules /\ at[t] \in Nat /\ clock \in Nat
        /\ at[t] > 0 /\ at[t] <= clock
        /\ loaded[t] = IF task[t].op \in {"disable", "reset"} THEN file ELSE Prune(file, at[t])
    BY DEF IInv, TypeOK, HolderReadsTheStore
  <1>2. loaded[t][s][k] \in Nat /\ file[s][k] \in Nat
    BY <1>1 DEF Rules
  <1>3. Prune(file, at[t])[s][k] = IF at[t] - file[s][k] <= RuleTtl THEN file[s][k] ELSE 0
    BY <1>1, PruneRules
  <1>4. QED
    BY <1>1, <1>2, <1>3 DEF Has

\* The holder of the lock is alone, so nobody holds it when it is dropped.
LEMMA UnlockFrees ==
    ASSUME IInv, NEW t \in holder, NEW next \in Requests \cup {Idle, Allowed}, Unlock(t, next)
    PROVE  /\ holder' = {} /\ clock' = clock
           /\ task' \in [Threads -> Requests \cup {Idle, Allowed}]
           /\ loaded' \in [Threads -> Rules]
           /\ at' \in [Threads -> Nat]
  <1>1. Nothing \in Rules
    BY DEF Nothing, Rules
  <1>2. holder' = {}
    BY DEF Unlock, IInv, HolderReadsTheStore
  <1>3. QED
    BY <1>1, <1>2 DEF Unlock, IInv, TypeOK

\* What the holder of the lock writes is right when it adds what there is room for: it
\* marks rules that were there, or new ones within the caps, or takes rules away.
LEMMA StoreKeepsInvariant ==
    ASSUME IInv, NEW t \in holder, NEW next \in Requests \cup {Idle, Allowed}, Unlock(t, next),
           NEW s \in Spaces, NEW ks \in SUBSET Grants, NEW m \in {0, at[t]},
           Store(t, s, ks, m),
           \/ m = 0
           \/ \A k \in ks : Has(loaded[t][s], k)
           \/ IsFiniteSet(ks) /\ Room(loaded[t], s, Cardinality(ks))
    PROVE  IInv'
  <1>1. /\ holder' = {} /\ clock' = clock
        /\ task' \in [Threads -> Requests \cup {Idle, Allowed}]
        /\ loaded' \in [Threads -> Rules]
        /\ at' \in [Threads -> Nat]
    BY UnlockFrees
  <1>2. /\ clock \in Nat /\ clock > 0 /\ file \in Rules /\ lastUse \in Rules
        /\ m \in Nat
    BY HolderReads DEF IInv, TypeOK
  <1>3. CASE file' = file /\ lastUse' = lastUse
    <2>1. TypeOK' /\ HolderReadsTheStore'
      BY <1>1, <1>2, <1>3 DEF TypeOK, HolderReadsTheStore
    <2>2. NoGrantReturns' /\ NoGrantIsLost'
      BY <1>1, <1>3 DEF IInv, NoGrantReturns, NoGrantIsLost
    <2>3. StoreWithinCaps' /\ StoreIsFinite'
      BY <1>3 DEF IInv, StoreWithinCaps, StoreIsFinite, Total, Held
    <2>4. QED
      BY <2>1, <2>2, <2>3 DEF IInv
  <1>4. CASE file' = Mark(loaded[t], s, ks, m) /\ lastUse' = Mark(lastUse, s, ks, m)
    <2>1. /\ loaded[t] \in Rules
          /\ \A r \in Spaces, k \in Grants :
               /\ loaded[t][r][k] \in Nat /\ file[r][k] \in Nat /\ lastUse[r][k] \in Nat
               /\ Has(loaded[t][r], k) => loaded[t][r][k] = file[r][k]
               /\ at[t] - file[r][k] <= RuleTtl => loaded[t][r][k] = file[r][k]
               /\ at[t] \in Nat /\ at[t] <= clock
      <3>1. loaded[t] \in Rules
        BY DEF IInv, TypeOK
      <3>2. QED
        BY <1>2, <3>1, HolderReads DEF Rules
    <2>2. /\ file' \in Rules /\ lastUse' \in Rules
          /\ \A r \in Spaces, k \in Grants :
               /\ file'[r][k] = IF r = s /\ k \in ks THEN m ELSE loaded[t][r][k]
               /\ lastUse'[r][k] = IF r = s /\ k \in ks THEN m ELSE lastUse[r][k]
      BY <1>2, <1>4, <2>1, MarkRules
    <2>3. TypeOK' /\ HolderReadsTheStore'
      BY <1>1, <1>2, <2>2 DEF TypeOK, HolderReadsTheStore
    <2>4. NoGrantReturns'
      BY <1>2, <2>1, <2>2 DEF IInv, NoGrantReturns, Has
    <2>5. NoGrantIsLost'
      <3>1. SUFFICES ASSUME NEW r \in Spaces, NEW k \in Grants,
                            lastUse'[r][k] > 0, clock - lastUse'[r][k] <= RuleTtl
                     PROVE  file'[r][k] > 0
        BY <1>1 DEF NoGrantIsLost, Has
      <3>2. CASE r = s /\ k \in ks
        BY <2>2, <3>1, <3>2
      <3>3. CASE ~(r = s /\ k \in ks)
        <4>1. lastUse[r][k] > 0 /\ clock - lastUse[r][k] <= RuleTtl
          BY <2>2, <3>1, <3>3
        <4>2. file[r][k] > 0 /\ file[r][k] = lastUse[r][k]
          BY <4>1 DEF IInv, NoGrantIsLost, NoGrantReturns, Has
        <4>3. at[t] - file[r][k] <= RuleTtl
          BY <1>2, <2>1, <4>1, <4>2, RulesAssumption
        <4>4. QED
          BY <2>1, <2>2, <3>3, <4>2, <4>3
      <3>4. QED
        BY <3>2, <3>3
    <2>6. StoreWithinCaps' /\ StoreIsFinite'
      <3>1. /\ IsFiniteSet(Held(loaded[t]))
            /\ Total(loaded[t]) <= Total(file)
            /\ \A r \in Spaces : Count(loaded[t][r]) <= Count(file[r])
        <4>1. \A r \in Spaces, k \in Grants : Has(loaded[t][r], k) => Has(file[r], k)
          BY <2>1 DEF Has
        <4>2. QED
          BY <1>2, <2>1, <4>1, FewerRules DEF IInv, StoreIsFinite
      <3>2. /\ Total(file) \in Nat /\ Total(loaded[t]) \in Nat
            /\ \A r \in Spaces : Count(loaded[t][r]) \in Nat /\ Count(file[r]) \in Nat
        BY <3>1, NamespaceIsFinite, FS_CardinalityType
           DEF IInv, StoreIsFinite, Total, Held, Count, HeldBy
      <3>3. Total(file) <= StoreCap /\ \A r \in Owners : Count(file[r]) <= SessionCap
        BY DEF IInv, StoreWithinCaps
      <3>4. CASE m = 0 \/ \A k \in ks : Has(loaded[t][s], k)
        <4>1. \A r \in Spaces, k \in Grants : Has(file'[r], k) => Has(loaded[t][r], k)
          BY <2>2, <3>4 DEF Has
        <4>2. PICK new : new = file'
          OBVIOUS
        <4>3. /\ IsFiniteSet(Held(new))
              /\ Total(new) <= Total(loaded[t])
              /\ \A r \in Spaces : Count(new[r]) <= Count(loaded[t][r])
          BY <2>1, <2>2, <3>1, <4>1, <4>2, FewerRules
        <4>4. /\ Total(new) \in Nat
              /\ \A r \in Spaces : Count(new[r]) \in Nat
          BY <4>3, NamespaceIsFinite, FS_CardinalityType DEF Total, Held, Count, HeldBy
        <4>5. Total(new) <= StoreCap /\ \A r \in Owners : Count(new[r]) <= SessionCap
          BY <3>1, <3>2, <3>3, <4>3, <4>4, RulesAssumption DEF Spaces
        <4>6. QED
          BY <4>2, <4>3, <4>5 DEF StoreWithinCaps, StoreIsFinite, Total, Held
      <3>5. CASE IsFiniteSet(ks) /\ Room(loaded[t], s, Cardinality(ks))
        <4>1. PICK new : new = file'
          OBVIOUS
        <4>2. /\ IsFiniteSet(Held(new))
              /\ Total(new) <= Total(loaded[t]) + Cardinality(ks)
              /\ Count(new[s]) <= Count(loaded[t][s]) + Cardinality(ks)
              /\ \A r \in Spaces \ {s} : Count(new[r]) <= Count(loaded[t][r])
          BY <1>2, <1>4, <2>1, <3>1, <3>5, <4>1, MoreRules
        <4>3. /\ Total(new) \in Nat /\ Cardinality(ks) \in Nat
              /\ \A r \in Spaces : Count(new[r]) \in Nat
          BY <3>5, <4>2, NamespaceIsFinite, FS_CardinalityType DEF Total, Held, Count, HeldBy
        <4>4. /\ s # Global => Count(loaded[t][s]) + Cardinality(ks) <= SessionCap
              /\ Total(loaded[t]) + Cardinality(ks) <= StoreCap
          BY <3>5 DEF Room
        <4>5. Total(new) <= StoreCap
          BY <3>2, <4>2, <4>3, <4>4, RulesAssumption
        <4>6. ASSUME NEW r \in Owners
              PROVE  Count(new[r]) <= SessionCap
          <5>1. r \in Spaces /\ r # Global
            BY RulesAssumption DEF Spaces
          <5>2. CASE r = s
            BY <3>2, <4>2, <4>3, <4>4, <5>1, <5>2, RulesAssumption
          <5>3. CASE r # s
            BY <3>1, <3>2, <3>3, <4>2, <4>3, <5>1, <5>3, RulesAssumption
          <5>4. QED
            BY <5>2, <5>3
        <4>7. QED
          BY <4>1, <4>2, <4>5, <4>6 DEF StoreWithinCaps, StoreIsFinite, Total, Held
      <3>6. QED
        BY <3>4, <3>5
    <2>7. QED
      BY <2>3, <2>4, <2>5, <2>6 DEF IInv
  <1>5. QED
    BY <1>3, <1>4 DEF Store

\* An operation that ends without a write.
LEMMA UnlockKeepsInvariant ==
    ASSUME IInv, NEW t \in holder, NEW next \in Requests \cup {Idle, Allowed}, Unlock(t, next),
           UNCHANGED <<file, lastUse>>
    PROVE  IInv'
  <1>1. /\ holder' = {} /\ clock' = clock
        /\ task' \in [Threads -> Requests \cup {Idle, Allowed}]
        /\ loaded' \in [Threads -> Rules]
        /\ at' \in [Threads -> Nat]
    BY UnlockFrees
  <1>2. TypeOK' /\ HolderReadsTheStore'
    BY <1>1 DEF IInv, TypeOK, HolderReadsTheStore
  <1>3. NoGrantReturns' /\ NoGrantIsLost'
    BY <1>1 DEF IInv, NoGrantReturns, NoGrantIsLost
  <1>4. StoreWithinCaps' /\ StoreIsFinite'
    BY DEF IInv, StoreWithinCaps, StoreIsFinite, Total, Held
  <1>5. QED
    BY <1>2, <1>3, <1>4 DEF IInv

\* What a request is, by what it asks for.
LEMMA RequestFields ==
    ASSUME NEW job \in Requests
    PROVE  /\ job.op \notin {"idle", "allow"}
           /\ job.op \in {"check", "relaxed", "yolo"} =>
                job \in Checks /\ (job.op = "relaxed" => job.eligible)
           /\ job.op = "save" => job \in Saves
           /\ job.op \in {"disable", "reset"} => job \in Resets
  <1>1. CASE job \in Checks /\ (job.op = "relaxed" => job.eligible)
    BY <1>1 DEF Checks
  <1>2. CASE job \in Saves
    BY <1>2 DEF Saves
  <1>3. CASE job \in Resets
    BY <1>3 DEF Resets
  <1>4. QED
    BY <1>1, <1>2, <1>3 DEF Requests

\* The rules that a check finds are rules it read, and they cover all that is asked for.
LEMMA HitsCover ==
    ASSUME NEW own, NEW things, NEW hits \in Hits(own, things)
    PROVE  /\ hits \subseteq Keys
           /\ \A k \in hits : Has(own, k)
           /\ \A x \in things : \E k \in hits : x \in Covers[k]
  <1>1. PICK pick \in [things -> Keys] :
          /\ \A x \in things : pick[x] \in Covering(own, x)
          /\ hits = {pick[x] : x \in things}
    BY DEF Hits
  <1>2. \A x \in things : Has(own, pick[x]) /\ x \in Covers[pick[x]]
    BY <1>1 DEF Covering
  <1>3. QED
    BY <1>1, <1>2

\* The check of the rules keeps the invariant, whichever way it goes.
LEMMA CheckKeepsInvariant ==
    ASSUME IInv, NEW t \in Threads, Check(t)
    PROVE  IInv'
  <1>1. t \in holder /\ task[t] \in Checks /\ task[t].op = "check" /\ at[t] \in Nat
    BY RequestFields DEF Check, IInv, TypeOK, HolderReadsTheStore
  <1>2. task[t].space \in Spaces /\ Global \in Spaces
    BY <1>1 DEF Checks, Spaces
  <1>3. ASSUME NEW s \in Spaces, NEW hits \in Hits(loaded[t][s], task[t].things), Allow(t, s, hits)
        PROVE  IInv'
    <2>1. hits \in SUBSET Grants /\ \A k \in hits : Has(loaded[t][s], k)
      BY <1>3, HitsCover DEF Grants
    <2>2. Allowed \in Requests \cup {Idle, Allowed}
      OBVIOUS
    <2>3. Unlock(t, Allowed) /\ Store(t, s, hits, at[t])
      BY <1>3 DEF Allow, Allowed
    <2>4. QED
      BY <1>1, <1>3, <2>1, <2>2, <2>3, StoreKeepsInvariant
  <1>4. ASSUME NEW o \in {"relaxed", "yolo"}, o = "relaxed" => task[t].eligible,
               Miss(t, [task[t] EXCEPT !.op = o])
        PROVE  IInv'
    <2>1. [task[t] EXCEPT !.op = o] \in Requests
      BY <1>1, <1>4 DEF Requests, Checks
    <2>2. {} \in SUBSET Grants
      OBVIOUS
    <2>3. PICK next \in Requests : next = [task[t] EXCEPT !.op = o]
      BY <2>1
    <2>4. Unlock(t, next) /\ Store(t, task[t].space, {}, 0)
      BY <1>4, <2>3 DEF Miss
    <2>5. QED
      BY <1>1, <1>2, <2>2, <2>4, StoreKeepsInvariant
  <1>5. PICK o \in {"relaxed", "yolo"} : o = IF task[t].eligible THEN "relaxed" ELSE "yolo"
    OBVIOUS
  <1>6. CASE Miss(t, [task[t] EXCEPT !.op = o])
    BY <1>4, <1>5, <1>6
  <1>7. CASE ~Miss(t, [task[t] EXCEPT !.op = o])
    BY <1>2, <1>3, <1>5, <1>7 DEF Check
  <1>8. QED
    BY <1>6, <1>7

\* So does the check of a mode.
LEMMA CheckFlagKeepsInvariant ==
    ASSUME IInv, NEW t \in Threads, CheckFlag(t)
    PROVE  IInv'
  <1>1. t \in holder /\ task[t] \in Checks /\ task[t].op \in {"relaxed", "yolo"} /\ at[t] \in Nat
    BY RequestFields DEF CheckFlag, IInv, TypeOK, HolderReadsTheStore
  <1>2. task[t].space \in Spaces
    BY <1>1 DEF Checks, Spaces
  <1>3. ASSUME NEW mode \in Modes, Has(loaded[t][task[t].space], mode),
               Allow(t, task[t].space, {mode})
        PROVE  IInv'
    <2>1. {mode} \in SUBSET Grants /\ \A k \in {mode} : Has(loaded[t][task[t].space], k)
      BY <1>3 DEF Grants
    <2>2. Allowed \in Requests \cup {Idle, Allowed}
      OBVIOUS
    <2>3. Unlock(t, Allowed) /\ Store(t, task[t].space, {mode}, at[t])
      BY <1>3 DEF Allow, Allowed
    <2>4. QED
      BY <1>1, <1>2, <2>1, <2>2, <2>3, StoreKeepsInvariant
  <1>4. ASSUME NEW next \in Requests \cup {Idle}, Miss(t, next)
        PROVE  IInv'
    <2>1. {} \in SUBSET Grants
      OBVIOUS
    <2>2. Unlock(t, next) /\ Store(t, task[t].space, {}, 0)
      BY <1>4 DEF Miss
    <2>3. QED
      BY <1>1, <1>2, <1>4, <2>1, <2>2, StoreKeepsInvariant
  <1>5. [task[t] EXCEPT !.op = "yolo"] \in Requests
    BY <1>1 DEF Requests, Checks
  <1>6. QED
    BY <1>3, <1>4, <1>5 DEF CheckFlag, Modes

\* A save adds its new rules when there is room for all of them.
LEMMA SaveKeepsInvariant ==
    ASSUME IInv, NEW t \in Threads, Save(t)
    PROVE  IInv'
  <1>1. t \in holder /\ task[t] \in Saves /\ at[t] \in Nat
    BY RequestFields DEF Save, IInv, TypeOK, HolderReadsTheStore
  <1>2. PICK new : new = {k \in task[t].keys : ~Has(loaded[t][task[t].space], k)}
    OBVIOUS
  <1>3. task[t].space \in Spaces /\ new \in SUBSET Grants /\ IsFiniteSet(new)
    BY <1>1, <1>2, FS_Subset DEF Saves
  <1>4. Unlock(t, Idle)
    BY DEF Save
  <1>5. CASE Room(loaded[t], task[t].space, Cardinality(new)) /\ Store(t, task[t].space, new, at[t])
    BY <1>1, <1>3, <1>4, <1>5, StoreKeepsInvariant
  <1>6. CASE UNCHANGED <<file, lastUse>>
    BY <1>1, <1>4, <1>6, UnlockKeepsInvariant
  <1>7. QED
    BY <1>2, <1>5, <1>6 DEF Save

\* A withdrawal only takes rules away.
LEMMA WithdrawKeepsInvariant ==
    ASSUME IInv, NEW t \in Threads, Withdraw(t)
    PROVE  IInv'
  <1>1. t \in holder /\ task[t] \in Resets /\ at[t] \in Nat
    BY RequestFields DEF Withdraw, IInv, TypeOK, HolderReadsTheStore
  <1>2. task[t].space \in Spaces
    BY <1>1 DEF Resets, Spaces
  <1>3. PICK goes \in SUBSET Grants : goes = IF task[t].op = "disable" THEN {Yolo} ELSE Grants
    BY DEF Grants, Modes
  <1>4. Unlock(t, Idle)
    BY DEF Withdraw
  <1>5. CASE Store(t, task[t].space, goes, 0)
    BY <1>1, <1>2, <1>4, <1>5, StoreKeepsInvariant
  <1>6. CASE UNCHANGED <<file, lastUse>>
    BY <1>1, <1>4, <1>6, UnlockKeepsInvariant
  <1>7. QED
    BY <1>3, <1>5, <1>6 DEF Withdraw

\* The lock is taken when nobody holds it.
LEMMA LockKeepsInvariant ==
    ASSUME IInv, NEW t \in Threads, Lock(t)
    PROVE  IInv'
  <1>1. holder' = {t} /\ UNCHANGED <<clock, file, task, lastUse>>
    BY DEF Lock, Load
  <1>2. task[t] \in Requests
    BY DEF Lock, IInv, TypeOK, Idle, Allowed
  <1>3. /\ clock \in Nat /\ clock > 0 /\ file \in Rules
        /\ loaded \in [Threads -> Rules] /\ at \in [Threads -> Nat]
    BY DEF IInv, TypeOK
  <1>4. PICK read \in Rules :
          read = IF task[t].op \in {"disable", "reset"} THEN file ELSE Prune(file, clock)
    BY <1>3, PruneRules
  <1>5. loaded' = [loaded EXCEPT ![t] = read] /\ at' = [at EXCEPT ![t] = clock]
    BY <1>4 DEF Lock, Load
  <1>6. TypeOK'
    BY <1>1, <1>3, <1>5 DEF IInv, TypeOK
  <1>7. HolderReadsTheStore'
    <2>1. loaded'[t] = read /\ at'[t] = clock
      BY <1>3, <1>5
    <2>2. QED
      BY <1>1, <1>2, <1>3, <1>4, <2>1 DEF HolderReadsTheStore
  <1>8. NoGrantReturns' /\ NoGrantIsLost'
    BY <1>1 DEF IInv, NoGrantReturns, NoGrantIsLost
  <1>9. StoreWithinCaps' /\ StoreIsFinite'
    BY <1>1 DEF IInv, StoreWithinCaps, StoreIsFinite, Total, Held
  <1>10. QED
    BY <1>6, <1>7, <1>8, <1>9 DEF IInv

\* What the daemon does without the lock leaves the store as it is.
LEMMA OtherStepsKeepInvariant ==
    ASSUME IInv,
           \/ \E t \in Threads : Reply(t) \/ \E job \in Jobs : Start(t, job)
           \/ Kill \/ Day \/ UNCHANGED rulesVars
    PROVE  IInv'
  <1>1. file' = file /\ lastUse' = lastUse /\ clock' \in Nat /\ clock' >= clock
    BY DEF Reply, Start, Kill, Day, rulesVars, IInv, TypeOK
  <1>2. StoreWithinCaps' /\ StoreIsFinite'
    BY <1>1 DEF IInv, StoreWithinCaps, StoreIsFinite, Total, Held
  <1>3. NoGrantReturns'
    BY <1>1 DEF IInv, NoGrantReturns
  <1>4. NoGrantIsLost'
    <2>1. \A s \in Spaces, k \in Grants : lastUse[s][k] \in Nat
      BY DEF IInv, TypeOK, Rules
    <2>2. clock \in Nat /\ RuleTtl \in Nat
      BY RulesAssumption DEF IInv, TypeOK
    <2>3. \A s \in Spaces, k \in Grants :
            clock' - lastUse[s][k] <= RuleTtl => clock - lastUse[s][k] <= RuleTtl
      BY <1>1, <2>1, <2>2
    <2>4. QED
      BY <1>1, <2>3 DEF IInv, NoGrantIsLost
  <1>5. Jobs \subseteq Requests /\ Nothing \in Rules
    BY RulesAssumption DEF Requests, Nothing, Rules
  <1>6. TypeOK'
    <2>1. task' \in [Threads -> Requests \cup {Idle, Allowed}] /\ holder' \subseteq Threads
      BY <1>5 DEF Reply, Start, Kill, Day, rulesVars, IInv, TypeOK
    <2>2. loaded' \in [Threads -> Rules] /\ at' \in [Threads -> Nat]
      BY <1>5 DEF Reply, Start, Kill, Day, rulesVars, IInv, TypeOK
    <2>3. QED
      BY <1>1, <2>1, <2>2 DEF IInv, TypeOK
  <1>7. HolderReadsTheStore'
    <2>1. CASE Kill
      BY <2>1 DEF Kill, HolderReadsTheStore
    <2>2. CASE ~Kill
      <3>1. UNCHANGED <<holder, loaded, at>>
        BY <2>2 DEF Reply, Start, Day, rulesVars
      <3>2. \A t \in holder : task[t] \in Requests /\ task[t].op \notin {"idle", "allow"}
        BY RequestFields DEF IInv, HolderReadsTheStore
      <3>3. \A t \in holder : task'[t] = task[t]
        BY <2>2, <3>2 DEF Reply, Start, Day, rulesVars, Idle, IInv, TypeOK
      <3>4. QED
        BY <1>1, <3>1, <3>3 DEF IInv, TypeOK, HolderReadsTheStore
    <2>3. QED
      BY <2>1, <2>2
  <1>8. QED
    BY <1>2, <1>3, <1>4, <1>6, <1>7 DEF IInv

\* Every step keeps the invariant.
LEMMA StepKeepsInvariant ==
    ASSUME IInv, [RulesNext]_rulesVars
    PROVE  IInv'
  BY CheckKeepsInvariant, CheckFlagKeepsInvariant, SaveKeepsInvariant, WithdrawKeepsInvariant,
     LockKeepsInvariant, OtherStepsKeepInvariant DEF RulesNext
-----------------------------------------------------------------------------
(***************************************************************************)
(* Theorems                                                                *)
(***************************************************************************)

\* The invariant holds in every reachable state.
THEOREM InvariantHolds == RulesSpec => []IInv
  <1>1. RulesInit => IInv
    BY InitEstablishesInvariant
  <1>2. IInv /\ [RulesNext]_rulesVars => IInv'
    BY StepKeepsInvariant
  <1>3. QED
    BY <1>1, <1>2, PTL DEF RulesSpec

\* permission_rules.rs: whatever checks, saves and resets overlap, fail or are cut off by
\* the daemon's end, a rule in the store is a grant that was not withdrawn.
THEOREM StoredRulesAreInForce == RulesSpec => []NoGrantReturns
  <1>1. IInv => NoGrantReturns
    BY DEF IInv
  <1>2. QED
    BY <1>1, InvariantHolds, PTL

\* permission_rules.rs: a grant within its retention time is in the store until a reset
\* takes it.
THEOREM GrantsAreStored == RulesSpec => []NoGrantIsLost
  <1>1. IInv => NoGrantIsLost
    BY DEF IInv
  <1>2. QED
    BY <1>1, InvariantHolds, PTL

\* save_rules_at: no order of saves takes a session or the store over its cap.
THEOREM CapsHold == RulesSpec => []StoreWithinCaps
  <1>1. IInv => StoreWithinCaps
    BY DEF IInv
  <1>2. QED
    BY <1>1, InvariantHolds, PTL

\* A rule that a check has read and found is a grant that was in force when it was read.
LEMMA ReadRulesAreInForce ==
    ASSUME IInv, NEW t \in holder, task[t].op \in {"check", "relaxed", "yolo"},
           NEW s \in Spaces, NEW k \in Grants, Has(loaded[t][s], k)
    PROVE  InForce(s, k, t)
  <1>1. loaded[t][s][k] = file[s][k] /\ at[t] - file[s][k] <= RuleTtl /\ file[s][k] > 0
    BY HolderReads DEF Has
  <1>2. QED
    BY <1>1 DEF InForce, IInv, NoGrantReturns, Has

\* handle_submit_confirm: a request is allowed without a person by grants in force when
\* the store was read, and by no others.
THEOREM AllowedOnlyByGrants == RulesSpec => AllowedByGrants
  <1>1. ASSUME IInv, NEW t \in Threads, RulesNext,
               task[t].op \in {"check", "relaxed", "yolo"}, task'[t].op = "allow"
        PROVE  Granted(task[t], t)
    <2>1. task[t] \in Checks /\ (task[t].op = "relaxed" => task[t].eligible)
      BY <1>1, RequestFields DEF IInv, TypeOK, Idle, Allowed
    <2>2. task[t].space \in Spaces /\ Global \in Spaces
      BY <2>1 DEF Checks, Spaces
    <2>3. task'[t] # task[t]
      BY <1>1
    <2>4. CASE Check(t)
      <3>1. t \in holder
        BY <2>4 DEF Check
      <3>2. PICK s \in Spaces, hits \in SUBSET Keys :
              /\ hits \in Hits(loaded[t][s], task[t].things)
              /\ s = task[t].space \/ (s = Global /\ task[t].things \subseteq Tools)
        <4>1. task[t].op = "check"
          BY <2>4 DEF Check
        <4>2. CASE \E o : Miss(t, [task[t] EXCEPT !.op = o]) /\ o \in {"relaxed", "yolo"}
          BY <1>1, <2>1, <4>2 DEF Miss, Unlock, Checks, IInv, TypeOK
        <4>3. QED
          BY <2>2, <2>4, <4>2, HitsCover DEF Check
      <3>3. \A k \in hits : InForce(s, k, t)
        BY <1>1, <3>1, <3>2, HitsCover, ReadRulesAreInForce DEF Grants
      <3>4. QED
        BY <3>2, <3>3, HitsCover DEF Granted
    <2>5. CASE CheckFlag(t)
      <3>1. t \in holder
        BY <2>5 DEF CheckFlag
      <3>2. PICK mode \in Modes : mode = IF task[t].op = "relaxed" THEN Relaxed ELSE Yolo
        BY DEF Modes
      <3>3. Has(loaded[t][task[t].space], mode)
        <4>1. ASSUME NEW next, Miss(t, next)
              PROVE  task' = [task EXCEPT ![t] = next]
          BY <4>1 DEF Miss, Unlock
        <4>2. PICK next : next = IF task[t].op = "relaxed" THEN [task[t] EXCEPT !.op = "yolo"] ELSE Idle
          OBVIOUS
        <4>3. next.op # "allow"
          BY <2>1, <4>2 DEF Checks, Idle
        <4>4. ~Miss(t, next)
          BY <1>1, <4>1, <4>3 DEF IInv, TypeOK
        <4>5. QED
          BY <2>5, <3>2, <4>2, <4>4 DEF CheckFlag
      <3>4. InForce(task[t].space, mode, t)
        BY <1>1, <2>2, <3>1, <3>3, ReadRulesAreInForce DEF Grants
      <3>5. QED
        BY <2>1, <3>2, <3>4, <1>1, RulesAssumption DEF Granted, Checks
    <2>6. CASE ~Check(t) /\ ~CheckFlag(t)
      <3>1. task'[t] = task[t] \/ task'[t] \in Jobs \cup {Idle}
        <4>1. CASE \E u \in Threads : u # t /\ (Check(u) \/ CheckFlag(u))
          <5>1. PICK u \in Threads : u # t /\ \E next : task' = [task EXCEPT ![u] = next]
            BY <4>1 DEF Check, CheckFlag, Allow, Miss, Unlock
          <5>2. QED
            BY <5>1 DEF IInv, TypeOK
        <4>2. CASE ~\E u \in Threads : Check(u) \/ CheckFlag(u)
          BY <1>1, <4>2 DEF RulesNext, IInv, TypeOK, Start, Lock, Load, Reply, Save, Withdraw,
             Unlock, Kill, Day
        <4>3. QED
          BY <2>6, <4>1, <4>2
      <3>2. \A job \in Jobs \cup {Idle} : job.op # "allow"
        BY RulesAssumption DEF Checks, Saves, Resets, Idle
      <3>3. QED
        BY <1>1, <2>3, <3>1, <3>2
    <2>7. QED
      BY <2>4, <2>5, <2>6
  <1>2. IInv /\ [RulesNext]_rulesVars =>
          [\A t \in Threads : task[t].op \in {"check", "relaxed", "yolo"} /\ task'[t].op = "allow" =>
             Granted(task[t], t)]_rulesVars
    BY <1>1
  <1>3. QED
    BY <1>2, InvariantHolds, PTL DEF RulesSpec, AllowedByGrants

=============================================================================
