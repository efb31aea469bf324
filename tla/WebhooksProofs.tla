---------------------------- MODULE WebhooksProofs ----------------------------
(***************************************************************************)
(* Proofs about Webhooks, for every set of deliveries and events, every    *)
(* kind, subscription and cycle of an event, and any number of faults.     *)
(***************************************************************************)
EXTENDS Webhooks, FiniteSetTheorems, TLAPS

-----------------------------------------------------------------------------
(* Lemmas about the sum of the package records' counters *)

\* Induction over the natural numbers, for a set instead of a predicate.
LEMMA NatSetInduction ==
  ASSUME NEW S, 0 \in S, \A n \in Nat : n \in S => n + 1 \in S
  PROVE  Nat \subseteq S
<1> SUFFICES ASSUME Nat \ S # {} PROVE FALSE
  OBVIOUS
<1>1. PICK n \in Nat \ S : \A m \in Nat \ S : ~ (<<m, n>> \in OpToRel(<, Nat))
  <2> DEFINE R == OpToRel(<, Nat)
             T == Nat \ S
  <2>1. IsWellFoundedOn(R, Nat) /\ T \subseteq Nat /\ T # {}
    BY NatLessThanWellFounded
  <2> HIDE DEF R, T
  <2>2. \E x \in T : \A y \in T : ~ (<<y, x>> \in R)
    BY <2>1, WFMin
  <2> QED BY <2>2 DEF R, T
<1>2. \A m \in Nat \ S : ~ (m < n)
  BY <1>1 DEF OpToRel
<1>3. n # 0 /\ n - 1 \in Nat /\ n - 1 < n /\ (n - 1) + 1 = n
  OBVIOUS
<1> QED BY <1>2, <1>3

\* The recursion by which FoldFunction computes a sum, on the sets in D.
Pick(s) == CHOOSE x \in s : TRUE

SumsUp(u, D, it) ==
  it = [s \in D |-> IF s = {} THEN 0 ELSE u[Pick(s)] + it[s \ {Pick(s)}]]

\* The sets the first n steps of the recursion reach.
Small(S, n) == {s \in SUBSET S : Cardinality(s) <= n}

\* What the library's fold is defined as.
LEMMA SumUnfolds ==
  ASSUME NEW u, NEW S, DOMAIN u = S
  PROVE FoldFunction(+, 0, u) = (CHOOSE it : SumsUp(u, SUBSET S, it))[S]
BY DEF FoldFunction, FoldFunctionOnSet, MapThenFoldSet, SumsUp, Pick

\* A set without its chosen element is reached one step earlier.
LEMMA SmallRest ==
  ASSUME NEW S, IsFiniteSet(S), NEW n \in Nat, NEW s \in Small(S, n), s # {}
  PROVE  /\ Pick(s) \in s /\ n > 0
         /\ s \ {Pick(s)} \in Small(S, n - 1)
<1>1. Pick(s) \in s
  BY DEF Pick
<1>2. IsFiniteSet(s) /\ Cardinality(s) \in Nat
  BY FS_Subset, FS_CardinalityType DEF Small
<1>3. Cardinality(s \ {Pick(s)}) = Cardinality(s) - 1
  BY <1>1, <1>2, FS_RemoveElement
<1>4. Cardinality(s) # 0
  BY <1>2, FS_EmptySet
<1> QED BY <1>1, <1>2, <1>3, <1>4 DEF Small

\* A function that satisfies the recursion exists: the fold is well defined.
LEMMA SumExists ==
  ASSUME NEW S, IsFiniteSet(S), NEW u
  PROVE  \E it : SumsUp(u, SUBSET S, it)
<1> DEFINE G == {n \in Nat : \E it : SumsUp(u, Small(S, n), it)}
<1>1. 0 \in G
  <2> DEFINE it == [s \in Small(S, 0) |-> 0]
  <2>1. ASSUME NEW s \in Small(S, 0), s # {} PROVE FALSE
    <3>1. 0 > 0
      BY <2>1, SmallRest
    <3> QED BY <3>1
  <2>2. SumsUp(u, Small(S, 0), it)
    BY <2>1 DEF SumsUp
  <2> QED BY <2>2
<1>2. ASSUME NEW n \in Nat, n \in G PROVE n + 1 \in G
  <2>1. PICK f : SumsUp(u, Small(S, n), f)
    BY <1>2
  <2> DEFINE g == [s \in Small(S, n + 1) |-> IF s = {} THEN 0 ELSE u[Pick(s)] + f[s \ {Pick(s)}]]
  <2>2. ASSUME NEW s \in Small(S, n + 1), s # {}
        PROVE  g[s \ {Pick(s)}] = f[s \ {Pick(s)}]
    <3> DEFINE t == s \ {Pick(s)}
    <3>1. t \in Small(S, n) 
      BY <2>2, SmallRest
    <3>2. t \in Small(S, n + 1)
      <4>1. IsFiniteSet(t) /\ Cardinality(t) \in Nat
        BY <3>1, FS_Subset, FS_CardinalityType DEF Small
      <4> QED BY <3>1, <4>1 DEF Small
    <3> HIDE DEF t
    <3>3. g[t] = IF t = {} THEN 0 ELSE u[Pick(t)] + f[t \ {Pick(t)}]
      BY <3>2
    <3>4. f[t] = IF t = {} THEN 0 ELSE u[Pick(t)] + f[t \ {Pick(t)}]
      BY <2>1, <3>1 DEF SumsUp
    <3> QED BY <3>3, <3>4 DEF t
  <2>3. SumsUp(u, Small(S, n + 1), g)
    BY <2>2 DEF SumsUp
  <2> QED BY <2>3
<1>3. Nat \subseteq G
  <2> HIDE DEF G
  <2> QED BY <1>1, <1>2, NatSetInduction
<1>4. Cardinality(S) \in G
  BY <1>3, FS_CardinalityType
<1>5. Small(S, Cardinality(S)) = SUBSET S
  BY FS_Subset DEF Small
<1> QED BY <1>4, <1>5

\* What the recursion gives is what the fold returns.
LEMMA SumIsFold ==
  ASSUME NEW S, IsFiniteSet(S), NEW u, DOMAIN u = S
  PROVE  \E it : SumsUp(u, SUBSET S, it) /\ FoldFunction(+, 0, u) = it[S]
<1> DEFINE it == CHOOSE it : SumsUp(u, SUBSET S, it)
<1>1. SumsUp(u, SUBSET S, it)
  BY SumExists
<1>2. FoldFunction(+, 0, u) = it[S]
  BY SumUnfolds
<1> HIDE DEF it
<1> QED BY <1>1, <1>2

\* In the end the recursion has reached the whole set.
LEMMA SmallIsAll ==
  ASSUME NEW S, IsFiniteSet(S)
  PROVE  /\ \A n \in Nat : Small(S, n) \subseteq SUBSET S
         /\ Cardinality(S) \in Nat /\ S \in Small(S, Cardinality(S))
BY FS_CardinalityType DEF Small

\* Counters that are all zero add up to zero, as in Init.
LEMMA SumOfZeros ==
  ASSUME NEW S, IsFiniteSet(S)
  PROVE  FoldFunction(+, 0, [c \in S |-> 0]) = 0
<1> DEFINE u == [c \in S |-> 0]
<1>1. PICK it : SumsUp(u, SUBSET S, it) /\ FoldFunction(+, 0, u) = it[S]
  BY SumIsFold
<1> DEFINE G == {n \in Nat : \A s \in Small(S, n) : it[s] = 0}
<1>2. ASSUME NEW s \in SUBSET S
      PROVE  it[s] = IF s = {} THEN 0 ELSE u[Pick(s)] + it[s \ {Pick(s)}]
  BY <1>1 DEF SumsUp
<1>3. 0 \in G
  <2> SUFFICES ASSUME NEW s \in Small(S, 0), it[s] # 0 PROVE FALSE
    OBVIOUS
  <2>1. s # {}
    BY <1>2, SmallIsAll
  <2>2. 0 > 0
    BY <2>1, SmallRest
  <2> QED BY <2>2
<1>4. ASSUME NEW n \in Nat, n \in G PROVE n + 1 \in G
  <2> SUFFICES ASSUME NEW s \in Small(S, n + 1), s # {} PROVE it[s] = 0
    <3>1. it[{}] = 0
      BY <1>2
    <3> QED BY <3>1
  <2>1. Pick(s) \in s /\ s \ {Pick(s)} \in Small(S, (n + 1) - 1)
    BY SmallRest
  <2>2. it[s \ {Pick(s)}] = 0 /\ s \in SUBSET S
    BY <1>4, <2>1 DEF Small
  <2>3. u[Pick(s)] = 0
    BY <2>1, <2>2
  <2> QED BY <1>2, <2>2, <2>3
<1>5. Nat \subseteq G
  <2> HIDE DEF G
  <2> QED BY <1>3, <1>4, NatSetInduction
<1> QED BY <1>1, <1>5, SmallIsAll

\* A counter that grows by one makes the sum grow by one, as Feature does.
LEMMA SumAddsOne ==
  ASSUME NEW S, IsFiniteSet(S), NEW u \in [S -> Nat], NEW c \in S
  PROVE  /\ FoldFunction(+, 0, u) \in Nat
         /\ FoldFunction(+, 0, [u EXCEPT ![c] = @ + 1]) = FoldFunction(+, 0, u) + 1
<1> DEFINE w == [u EXCEPT ![c] = @ + 1]
<1>1. PICK f : SumsUp(u, SUBSET S, f) /\ FoldFunction(+, 0, u) = f[S]
  BY SumIsFold
<1>w. \A x \in S : w[x] = u[x] + (IF x = c THEN 1 ELSE 0)
  OBVIOUS
<1>d. DOMAIN w = S
  OBVIOUS
<1> HIDE DEF w
<1>2. PICK g : SumsUp(w, SUBSET S, g) /\ FoldFunction(+, 0, w) = g[S]
  BY <1>d, SumIsFold
<1> DEFINE One(s) == IF c \in s THEN 1 ELSE 0
           Ok(s)  == f[s] \in Nat /\ g[s] = f[s] + One(s)
           G      == {n \in Nat : \A s \in Small(S, n) : Ok(s)}
<1>3. ASSUME NEW s \in SUBSET S
      PROVE  /\ f[s] = IF s = {} THEN 0 ELSE u[Pick(s)] + f[s \ {Pick(s)}]
             /\ g[s] = IF s = {} THEN 0 ELSE w[Pick(s)] + g[s \ {Pick(s)}]
  BY <1>1, <1>2 DEF SumsUp
<1>4. Ok({})
  <2>1. {} \in SUBSET S /\ One({}) = 0
    OBVIOUS
  <2>2. f[{}] = 0 /\ g[{}] = 0
    BY <2>1, <1>3
  <2> QED BY <2>1, <2>2
<1>5. 0 \in G
  <2> SUFFICES ASSUME NEW s \in Small(S, 0), s # {} PROVE FALSE
    BY <1>4
  <2>1. 0 > 0
    BY SmallRest
  <2> QED BY <2>1
<1>6. ASSUME NEW n \in Nat, n \in G PROVE n + 1 \in G
  <2> SUFFICES ASSUME NEW s \in Small(S, n + 1), s # {} PROVE Ok(s)
    <3> HIDE DEF Ok
    <3> QED BY <1>4
  <2>1. Pick(s) \in s /\ s \ {Pick(s)} \in Small(S, (n + 1) - 1) /\ s \in SUBSET S
    BY SmallRest DEF Small
  <2>2. Ok(s \ {Pick(s)})
    BY <1>6, <2>1
  <2>3. One(s) = One(s \ {Pick(s)}) + (IF Pick(s) = c THEN 1 ELSE 0)
    BY <2>1
  <2>4. u[Pick(s)] \in Nat /\ w[Pick(s)] = u[Pick(s)] + (IF Pick(s) = c THEN 1 ELSE 0)
    BY <2>1, <1>w
  <2>5. f[s] = u[Pick(s)] + f[s \ {Pick(s)}] /\ g[s] = w[Pick(s)] + g[s \ {Pick(s)}]
    BY <1>3, <2>1
  <2> QED BY <2>2, <2>3, <2>4, <2>5
<1>7. Nat \subseteq G
  <2> HIDE DEF G
  <2> QED BY <1>5, <1>6, NatSetInduction
<1>8. Ok(S) /\ One(S) = 1
  BY <1>7, SmallIsAll
<1> QED BY <1>1, <1>2, <1>8 DEF w

USE WebhookAssumption

-----------------------------------------------------------------------------
(* Types *)

LEMMA InitType == Init => TypeOK
BY DEF Init, TypeOK, Subscription, SubscriptionStatus, PropertyStatus, Labels, WebhookEvent

\* Every step keeps the types.
LEMMA TypeStep == TypeOK /\ [Next]_vars => TypeOK'
<1> SUFFICES ASSUME TypeOK, [Next]_vars PROVE TypeOK'
  OBVIOUS
<1> USE DEF TypeOK, books, progress, Goto, Labels, Handling, WebhookEvent
<1>1. ASSUME NEW d \in Deliveries, Deliver(d) PROVE TypeOK'
  BY <1>1 DEF Deliver
<1>2. ASSUME NEW d \in Deliveries, NEW e \in Events, ReadKey(d, e) PROVE TypeOK'
  BY <1>2 DEF ReadKey, At
<1>3. ASSUME NEW d \in Deliveries, NEW e \in Events, Store(d, e) PROVE TypeOK'
  BY <1>3 DEF Store, At
<1>4. ASSUME NEW d \in Deliveries, NEW e \in Events, Dispatch(d, e) PROVE TypeOK'
  <2>1. pc' \in [Deliveries -> Labels]
    BY <1>4 DEF Dispatch
  <2>2. seen' \in [Deliveries -> Subscription]
    BY <1>4 DEF Dispatch
  <2> QED BY <1>4, <2>1, <2>2 DEF Dispatch
<1>5. ASSUME NEW d \in Deliveries, NEW e \in Events, SetKey(d, e) PROVE TypeOK'
  BY <1>5 DEF SetKey, At
<1>6. ASSUME NEW d \in Deliveries, NEW e \in Events, MarkProcessed(d, e) PROVE TypeOK'
  BY <1>6 DEF MarkProcessed, At
<1>7. ASSUME NEW d \in Deliveries, NEW e \in Events, MarkFailed(d, e) PROVE TypeOK'
  BY <1>7 DEF MarkFailed, At
<1>8. ASSUME NEW d \in Deliveries, NEW e \in Events, Throw(d, e) PROVE TypeOK'
  BY <1>8 DEF Throw, At
<1>9. ASSUME NEW d \in Deliveries, NEW e \in Events, Die(d, e) PROVE TypeOK'
  BY <1>9 DEF Die, At
<1>10. ASSUME NEW d \in Deliveries, NEW e \in Events, Activate(d, e) PROVE TypeOK'
  <2>1. subscription' \in Subscription 
    BY <1>10 DEF Activate, Subscription, SubscriptionStatus
  <2>2. effects' \in [Events -> Nat]
    BY <1>10 DEF Activate, Counted
  <2> QED BY <1>10, <2>1, <2>2 DEF Activate, At
<1>11. ASSUME NEW d \in Deliveries, NEW e \in Events, CreatePackage(d, e) PROVE TypeOK'
  BY <1>11 DEF CreatePackage, At
<1>12. ASSUME NEW d \in Deliveries, NEW e \in Events, RecordPayment(d, e) PROVE TypeOK'
  BY <1>12 DEF RecordPayment, At
<1>13. ASSUME NEW d \in Deliveries, NEW e \in Events, Reactivate(d, e) PROVE TypeOK'
  BY <1>13 DEF Reactivate, At, PropertyStatus
<1>14. ASSUME NEW d \in Deliveries, NEW e \in Events, Dun(d, e) PROVE TypeOK'
  <2>1. subscription' \in Subscription 
    BY <1>14 DEF Dun, Subscription, SubscriptionStatus
  <2>2. effects' \in [Events -> Nat]
    BY <1>14 DEF Dun, Counted
  <2> QED BY <1>14, <2>1, <2>2 DEF Dun, At
<1>15. ASSUME NEW d \in Deliveries, NEW e \in Events, RecordFailure(d, e) PROVE TypeOK'
  BY <1>15 DEF RecordFailure, At, Counted
<1>16. ASSUME NEW d \in Deliveries, NEW e \in Events, Sync(d, e) PROVE TypeOK'
  <2>1. subscription' \in Subscription 
    BY <1>16 DEF Sync, Subscription, SubscriptionStatus
  <2>2. effects' \in [Events -> Nat]
    BY <1>16 DEF Sync, Counted
  <2> QED BY <1>16, <2>1, <2>2 DEF Sync, At
<1>17. ASSUME NEW d \in Deliveries, NEW e \in Events, StartGrace(d, e) PROVE TypeOK'
  <2>1. subscription' \in Subscription 
    BY <1>17 DEF StartGrace, Subscription, SubscriptionStatus
  <2>2. effects' \in [Events -> Nat]
    BY <1>17 DEF StartGrace, Counted
  <2> QED BY <1>17, <2>1, <2>2 DEF StartGrace, At
<1>18. ASSUME NEW d \in Deliveries, NEW e \in Events, AddGraceJob(d, e) PROVE TypeOK'
  BY <1>18 DEF AddGraceJob, At, JobNames
<1>19. ASSUME NEW d \in Deliveries, NEW e \in Events, Cancel(d, e) PROVE TypeOK'
  <2>1. subscription' \in Subscription 
    BY <1>19 DEF Cancel, Subscription, SubscriptionStatus
  <2>2. effects' \in [Events -> Nat]
    BY <1>19 DEF Cancel, Counted
  <2> QED BY <1>19, <2>1, <2>2 DEF Cancel, At
<1>20. ASSUME NEW d \in Deliveries, NEW e \in Events, Feature(d, e) PROVE TypeOK'
  <2>1. subscription.cycle \in Cycles
    BY DEF Subscription
  <2>2. usage' \in [Cycles -> Nat] /\ featured' \in [Events -> Nat] /\ payments' \subseteq Events
    BY <1>20, <2>1 DEF Feature
  <2>3. pc' \in [Deliveries -> Labels] /\ effects' \in [Events -> Nat]
    BY <1>20 DEF Feature, Counted
  <2> QED BY <1>20, <2>2, <2>3 DEF Feature
<1>21. ASSUME NEW e \in Events, ExpireKey(e) PROVE TypeOK'
  BY <1>21 DEF ExpireKey
<1>22. ASSUME NEW d \in Deliveries, NEW e \in Events, Notify(d, e) PROVE TypeOK'
  BY <1>22 DEF Notify, At
<1>23. ASSUME NEW d \in Deliveries, NEW e \in Events, AddExpiryJob(d, e) PROVE TypeOK'
  BY <1>23 DEF AddExpiryJob, At, JobNames
<1>24. ASSUME NEW d \in Deliveries, NEW e \in Events, RecordFeaturedFailure(d, e) PROVE TypeOK'
  BY <1>24 DEF RecordFeaturedFailure, At, Counted
<1>25. ASSUME NEW n \in JobNames, RunJob(n) PROVE TypeOK'
  BY <1>25 DEF RunJob
<1>26. CASE UNCHANGED vars
  BY <1>26 DEF vars
<1> QED
  BY <1>1, <1>2, <1>3, <1>4, <1>5, <1>6, <1>7, <1>8, <1>9, <1>10, <1>11, <1>12,
     <1>13, <1>14, <1>15, <1>16, <1>17, <1>18, <1>19, <1>20, <1>21, <1>22, <1>23, <1>24,
     <1>25, <1>26
  DEF Next, Process, Handle

\* Every variable of the books and of the pipeline keeps its type, whatever
\* Stripe delivers, in whatever order and however often.
THEOREM TypeCorrect == Spec => []TypeOK
BY InitType, TypeStep, PTL DEF Spec
-----------------------------------------------------------------------------
(* Where a delivery is *)

\* The label of a delivery tells the kind of its event, and that the
\* subscription it is about was found.
LabelOK(d) ==
  /\ pc[d] # "idle" => event[d] \in Events
  /\ pc[d] \in {"activate", "package", "pay", "reactivate"} => Kind[event[d]] = "paid"
  /\ pc[d] = "dun" => Kind[event[d]] = "paymentFailed"
  /\ pc[d] = "recordFailure" => Kind[event[d]] = "paymentFailed"
  /\ pc[d] = "featureFailure" => Kind[event[d]] = "featuredFailed"
  /\ pc[d] \in {"grace", "graceJob"} => Kind[event[d]] = "cancelledUnpaid"
  /\ pc[d] = "cancel" => Kind[event[d]] \in {"cancelled", "cancelledUnpaid"}
  /\ pc[d] = "sync" => Kind[event[d]] = "updated"
  /\ pc[d] \in {"feature", "expiryJob"} => Kind[event[d]] = "featured"
  /\ pc[d] \in {"activate", "package", "pay", "reactivate", "dun", "grace",
                "graceJob", "cancel", "sync"}
       => Known(event[d]) /\ seen[d].status # "NONE"

LabelInv == \A d \in Deliveries : LabelOK(d)

\* No handler makes the subscription another one, or none.
SameSubscription ==
  /\ subscription'.stripe = subscription.stripe
  /\ subscription'.status = "NONE" <=> subscription.status = "NONE"

\* No handler makes the subscription row that of another subscription.
LEMMA SubscriptionStays == TypeOK /\ LabelInv /\ [Next]_vars => SameSubscription
<1> SUFFICES ASSUME TypeOK, LabelInv, [Next]_vars PROVE SameSubscription
  OBVIOUS
<1> USE DEF SameSubscription, books, progress
<1>1. ASSUME NEW d \in Deliveries, Deliver(d) PROVE SameSubscription
  BY <1>1 DEF Deliver
<1>2. ASSUME NEW d \in Deliveries, NEW e \in Events, ReadKey(d, e) PROVE SameSubscription
  BY <1>2 DEF ReadKey, At
<1>3. ASSUME NEW d \in Deliveries, NEW e \in Events, Store(d, e) PROVE SameSubscription
  BY <1>3 DEF Store, At
<1>4. ASSUME NEW d \in Deliveries, NEW e \in Events, Dispatch(d, e) PROVE SameSubscription
  BY <1>4 DEF Dispatch, At
<1>5. ASSUME NEW d \in Deliveries, NEW e \in Events, SetKey(d, e) PROVE SameSubscription
  BY <1>5 DEF SetKey, At
<1>6. ASSUME NEW d \in Deliveries, NEW e \in Events, MarkProcessed(d, e) PROVE SameSubscription
  BY <1>6 DEF MarkProcessed, At
<1>7. ASSUME NEW d \in Deliveries, NEW e \in Events, MarkFailed(d, e) PROVE SameSubscription
  BY <1>7 DEF MarkFailed, At
<1>8. ASSUME NEW d \in Deliveries, NEW e \in Events, Throw(d, e) PROVE SameSubscription
  BY <1>8 DEF Throw, At
<1>9. ASSUME NEW d \in Deliveries, NEW e \in Events, Die(d, e) PROVE SameSubscription
  BY <1>9 DEF Die, At
<1>10. ASSUME NEW d \in Deliveries, NEW e \in Events, Activate(d, e) PROVE SameSubscription
  <2>1. LabelOK(d) /\ subscription \in Subscription /\ seen[d] \in Subscription
    BY DEF LabelInv, TypeOK
  <2> QED BY <1>10, <2>1 DEF Activate, At, LabelOK, Known, Subscription, SubscriptionStatus
<1>11. ASSUME NEW d \in Deliveries, NEW e \in Events, CreatePackage(d, e) PROVE SameSubscription
  BY <1>11 DEF CreatePackage, At
<1>12. ASSUME NEW d \in Deliveries, NEW e \in Events, RecordPayment(d, e) PROVE SameSubscription
  BY <1>12 DEF RecordPayment, At
<1>13. ASSUME NEW d \in Deliveries, NEW e \in Events, Reactivate(d, e) PROVE SameSubscription
  BY <1>13 DEF Reactivate, At
<1>14. ASSUME NEW d \in Deliveries, NEW e \in Events, Dun(d, e) PROVE SameSubscription
  <2>1. LabelOK(d) /\ subscription \in Subscription /\ seen[d] \in Subscription
    BY DEF LabelInv, TypeOK
  <2> QED BY <1>14, <2>1 DEF Dun, At, LabelOK, Known, Subscription, SubscriptionStatus
<1>15. ASSUME NEW d \in Deliveries, NEW e \in Events, RecordFailure(d, e) PROVE SameSubscription
  BY <1>15 DEF RecordFailure, At
<1>16. ASSUME NEW d \in Deliveries, NEW e \in Events, Sync(d, e) PROVE SameSubscription
  <2>1. LabelOK(d) /\ subscription \in Subscription /\ seen[d] \in Subscription
    BY DEF LabelInv, TypeOK
  <2> QED BY <1>16, <2>1 DEF Sync, At, LabelOK, Known, Subscription, SubscriptionStatus
<1>17. ASSUME NEW d \in Deliveries, NEW e \in Events, StartGrace(d, e) PROVE SameSubscription
  <2>1. LabelOK(d) /\ subscription \in Subscription /\ seen[d] \in Subscription
    BY DEF LabelInv, TypeOK
  <2> QED BY <1>17, <2>1 DEF StartGrace, At, LabelOK, Known, Subscription, SubscriptionStatus
<1>18. ASSUME NEW d \in Deliveries, NEW e \in Events, AddGraceJob(d, e) PROVE SameSubscription
  BY <1>18 DEF AddGraceJob, At
<1>19. ASSUME NEW d \in Deliveries, NEW e \in Events, Cancel(d, e) PROVE SameSubscription
  <2>1. LabelOK(d) /\ subscription \in Subscription /\ seen[d] \in Subscription
    BY DEF LabelInv, TypeOK
  <2> QED BY <1>19, <2>1 DEF Cancel, At, LabelOK, Known, Subscription, SubscriptionStatus
<1>20. ASSUME NEW d \in Deliveries, NEW e \in Events, Feature(d, e) PROVE SameSubscription
  BY <1>20 DEF Feature, At
<1>21. ASSUME NEW e \in Events, ExpireKey(e) PROVE SameSubscription
  BY <1>21 DEF ExpireKey
<1>22. ASSUME NEW d \in Deliveries, NEW e \in Events, Notify(d, e) PROVE SameSubscription
  BY <1>22 DEF Notify, At
<1>23. ASSUME NEW d \in Deliveries, NEW e \in Events, AddExpiryJob(d, e) PROVE SameSubscription
  BY <1>23 DEF AddExpiryJob, At
<1>24. ASSUME NEW d \in Deliveries, NEW e \in Events, RecordFeaturedFailure(d, e)
      PROVE  SameSubscription
  BY <1>24 DEF RecordFeaturedFailure, At
<1>25. ASSUME NEW n \in JobNames, RunJob(n) PROVE SameSubscription
  BY <1>25 DEF RunJob
<1>26. CASE UNCHANGED vars
  BY <1>26 DEF vars
<1> QED
  BY <1>1, <1>2, <1>3, <1>4, <1>5, <1>6, <1>7, <1>8, <1>9, <1>10, <1>11, <1>12,
     <1>13, <1>14, <1>15, <1>16, <1>17, <1>18, <1>19, <1>20, <1>21, <1>22, <1>23, <1>24,
     <1>25, <1>26
  DEF Next, Process, Handle

\* Every step keeps the labels in line with the kinds of the events.
LEMMA LabelStep == TypeOK /\ LabelInv /\ [Next]_vars => LabelInv'
<1> SUFFICES ASSUME TypeOK, LabelInv, [Next]_vars, NEW x \in Deliveries
             PROVE  LabelOK(x)'
  BY DEF LabelInv
<1>a. LabelOK(x) /\ SameSubscription
  BY SubscriptionStays DEF LabelInv
<1> USE <1>a DEF SameSubscription, LabelOK, Known, TypeOK, books, progress, Goto, Labels
<1>1. ASSUME NEW d \in Deliveries, Deliver(d) PROVE LabelOK(x)'
  BY <1>1 DEF Deliver
<1>2. ASSUME NEW d \in Deliveries, NEW e \in Events, ReadKey(d, e) PROVE LabelOK(x)'
  BY <1>2 DEF ReadKey, At
<1>3. ASSUME NEW d \in Deliveries, NEW e \in Events, Store(d, e) PROVE LabelOK(x)'
  BY <1>3 DEF Store, At
<1>4. ASSUME NEW d \in Deliveries, NEW e \in Events, Dispatch(d, e) PROVE LabelOK(x)'
  <2>1. CASE x # d
    BY <1>4, <2>1 DEF Dispatch
  <2>2. CASE x = d /\ Known(e) /\ seen' = [seen EXCEPT ![d] = subscription]
             /\ \E label \in Handling : <<Kind[e], label>> \in FirstWrite /\ Goto(d, label)
    BY <1>4, <2>2 DEF Dispatch, At, FirstWrite
  <2>3. CASE x = d /\ \E label \in {"setKey", "failed"} : Goto(d, label)
    BY <1>4, <2>3 DEF Dispatch, At
  <2>4. CASE x = d /\ Kind[e] = "featured" /\ Goto(d, "feature")
    BY <1>4, <2>4 DEF Dispatch, At
  <2>5. CASE x = d /\ Kind[e] = "featuredFailed" /\ Goto(d, "featureFailure")
    BY <1>4, <2>5 DEF Dispatch, At
  <2>6. \/ /\ Known(e) /\ seen' = [seen EXCEPT ![d] = subscription]
           /\ \E label \in Handling : <<Kind[e], label>> \in FirstWrite /\ Goto(d, label)
        \/ \E label \in {"setKey", "failed"} : Goto(d, label)
        \/ Kind[e] = "featured" /\ Goto(d, "feature")
        \/ Kind[e] = "featuredFailed" /\ Goto(d, "featureFailure")
    <3> HIDE DEF Known, LabelOK, TypeOK, SameSubscription, Goto
    <3> QED BY <1>4 DEF Dispatch
  <2> QED
    <3> HIDE DEF Known, LabelOK, TypeOK, SameSubscription, Goto
    <3> QED BY <2>1, <2>2, <2>3, <2>4, <2>5, <2>6
<1>5. ASSUME NEW d \in Deliveries, NEW e \in Events, SetKey(d, e) PROVE LabelOK(x)'
  BY <1>5 DEF SetKey, At
<1>6. ASSUME NEW d \in Deliveries, NEW e \in Events, MarkProcessed(d, e) PROVE LabelOK(x)'
  BY <1>6 DEF MarkProcessed, At
<1>7. ASSUME NEW d \in Deliveries, NEW e \in Events, MarkFailed(d, e) PROVE LabelOK(x)'
  BY <1>7 DEF MarkFailed, At
<1>8. ASSUME NEW d \in Deliveries, NEW e \in Events, Throw(d, e) PROVE LabelOK(x)'
  BY <1>8 DEF Throw, At
<1>9. ASSUME NEW d \in Deliveries, NEW e \in Events, Die(d, e) PROVE LabelOK(x)'
  BY <1>9 DEF Die, At
<1>10. ASSUME NEW d \in Deliveries, NEW e \in Events, Activate(d, e) PROVE LabelOK(x)'
  BY <1>10 DEF Activate, At
<1>11. ASSUME NEW d \in Deliveries, NEW e \in Events, CreatePackage(d, e) PROVE LabelOK(x)'
  BY <1>11 DEF CreatePackage, At
<1>12. ASSUME NEW d \in Deliveries, NEW e \in Events, RecordPayment(d, e) PROVE LabelOK(x)'
  BY <1>12 DEF RecordPayment, At
<1>13. ASSUME NEW d \in Deliveries, NEW e \in Events, Reactivate(d, e) PROVE LabelOK(x)'
  BY <1>13 DEF Reactivate, At
<1>14. ASSUME NEW d \in Deliveries, NEW e \in Events, Dun(d, e) PROVE LabelOK(x)'
  BY <1>14 DEF Dun, At
<1>15. ASSUME NEW d \in Deliveries, NEW e \in Events, RecordFailure(d, e) PROVE LabelOK(x)'
  BY <1>15 DEF RecordFailure, At
<1>16. ASSUME NEW d \in Deliveries, NEW e \in Events, Sync(d, e) PROVE LabelOK(x)'
  BY <1>16 DEF Sync, At
<1>17. ASSUME NEW d \in Deliveries, NEW e \in Events, StartGrace(d, e) PROVE LabelOK(x)'
  BY <1>17 DEF StartGrace, At
<1>18. ASSUME NEW d \in Deliveries, NEW e \in Events, AddGraceJob(d, e) PROVE LabelOK(x)'
  BY <1>18 DEF AddGraceJob, At
<1>19. ASSUME NEW d \in Deliveries, NEW e \in Events, Cancel(d, e) PROVE LabelOK(x)'
  BY <1>19 DEF Cancel, At
<1>20. ASSUME NEW d \in Deliveries, NEW e \in Events, Feature(d, e) PROVE LabelOK(x)'
  BY <1>20 DEF Feature, At
<1>21. ASSUME NEW e \in Events, ExpireKey(e) PROVE LabelOK(x)'
  BY <1>21 DEF ExpireKey
<1>22. ASSUME NEW d \in Deliveries, NEW e \in Events, Notify(d, e) PROVE LabelOK(x)'
  BY <1>22 DEF Notify, At
<1>23. ASSUME NEW d \in Deliveries, NEW e \in Events, AddExpiryJob(d, e) PROVE LabelOK(x)'
  BY <1>23 DEF AddExpiryJob, At
<1>24. ASSUME NEW d \in Deliveries, NEW e \in Events, RecordFeaturedFailure(d, e) PROVE LabelOK(x)'
  BY <1>24 DEF RecordFeaturedFailure, At
<1>25. ASSUME NEW n \in JobNames, RunJob(n) PROVE LabelOK(x)'
  BY <1>25 DEF RunJob
<1>26. CASE UNCHANGED vars
  BY <1>26 DEF vars
<1> QED
  BY <1>1, <1>2, <1>3, <1>4, <1>5, <1>6, <1>7, <1>8, <1>9, <1>10, <1>11, <1>12,
     <1>13, <1>14, <1>15, <1>16, <1>17, <1>18, <1>19, <1>20, <1>21, <1>22, <1>23, <1>24,
     <1>25, <1>26
  DEF Next, Process, Handle
-----------------------------------------------------------------------------
(* Featured listings *)

\* Only two actions book a payment, and one of them a featured listing.
LEMMA PaymentWrites ==
  ASSUME [Next]_vars
  PROVE  \/ UNCHANGED <<payments, featured, usage>>
         \/ \E d \in Deliveries, e \in Events : RecordPayment(d, e) \/ Feature(d, e)
BY DEF Next, vars, books, progress, Process, Handle, Deliver, ReadKey, Store, Dispatch,
       SetKey, MarkProcessed, MarkFailed, Throw, Die, ExpireKey, Activate, CreatePackage,
       Reactivate, Dun, RecordFailure, Sync, StartGrace, AddGraceJob, Cancel, Notify,
       AddExpiryJob, RecordFeaturedFailure, RunJob

\* Every step keeps one featured listing for a payment intent.
LEMMA FeaturedStep ==
  TypeOK /\ LabelInv /\ FeaturedOnce /\ [Next]_vars => FeaturedOnce'
<1> SUFFICES ASSUME TypeOK, LabelInv, FeaturedOnce, [Next]_vars PROVE FeaturedOnce'
  OBVIOUS
<1> USE DEF FeaturedOnce, FeaturedEvents, TypeOK
<1>1. CASE UNCHANGED <<payments, featured>>
  BY <1>1
<1>2. ASSUME NEW d \in Deliveries, NEW e \in Events, RecordPayment(d, e)
      PROVE  FeaturedOnce'
  <2>1. Kind[e] = "paid"
    BY <1>2 DEF RecordPayment, At, LabelInv, LabelOK
  <2> QED BY <1>2, <2>1 DEF RecordPayment
<1>3. ASSUME NEW d \in Deliveries, NEW e \in Events, Feature(d, e)
      PROVE  FeaturedOnce'
  BY <1>3 DEF Feature
<1> QED BY PaymentWrites, <1>1, <1>2, <1>3

\* The sum in the next state is that of the next state's counters.
LEMMA SumPrimed == FoldFunction(+, 0, usage)' = FoldFunction(+, 0, usage')
BY DEF FoldFunction, FoldFunctionOnSet, MapThenFoldSet

\* Only finitely many payments are ever on record.
UsageInv == IsFiniteSet(payments) /\ UsageIsFeatured

\* At first nothing is used and nothing is paid for.
LEMMA UsageInit == Init => UsageInv
<1> SUFFICES ASSUME Init PROVE UsageInv
  OBVIOUS
<1>1. FoldFunction(+, 0, usage) = 0
  BY CyclesFinite, SumOfZeros DEF Init
<1>2. payments = {} /\ payments \cap FeaturedEvents = {}
  BY DEF Init
<1>3. IsFiniteSet(payments) /\ Cardinality(payments \cap FeaturedEvents) = 0
  BY <1>2, FS_EmptySet
<1> QED BY <1>1, <1>3 DEF UsageInv, UsageIsFeatured

\* The counter and the payment move in one transaction, whichever cycle the
\* subscription is in; an invoice's payment is not a featured listing's.
LEMMA UsageStep ==
  TypeOK /\ LabelInv /\ UsageInv /\ [Next]_vars => UsageInv'
<1> SUFFICES ASSUME TypeOK, LabelInv, UsageInv, [Next]_vars PROVE UsageInv'
  OBVIOUS
<1>a. SameSubscription
  BY SubscriptionStays
<1> DEFINE sum   == FoldFunction(+, 0, usage)
           count == Cardinality(payments \cap FeaturedEvents)
<1>b. IsFiniteSet(payments) /\ (subscription.status # "NONE" => sum = count)
  BY DEF UsageInv, UsageIsFeatured
<1>c. ASSUME IsFiniteSet(payments'), subscription'.status # "NONE" => sum' = count'
      PROVE  UsageInv'
  BY <1>c DEF UsageInv, UsageIsFeatured
<1>1. CASE UNCHANGED <<payments, usage>>
  <2>1. sum' = sum /\ count' = count
    BY <1>1, SumPrimed DEF FeaturedEvents
  <2> HIDE DEF sum, count
  <2> QED BY <1>1, <2>1, <1>a, <1>b, <1>c DEF SameSubscription
<1>2. ASSUME NEW d \in Deliveries, NEW e \in Events, RecordPayment(d, e)
      PROVE  UsageInv'
  <2>1. Kind[e] = "paid"
    BY <1>2 DEF RecordPayment, At, LabelInv, LabelOK
  <2>2. payments' = payments \cup {e} /\ usage' = usage
    BY <1>2 DEF RecordPayment
  <2>3. payments' \cap FeaturedEvents = payments \cap FeaturedEvents
    BY <2>1, <2>2 DEF FeaturedEvents
  <2>4. sum' = sum /\ count' = count
    BY <2>2, <2>3, SumPrimed DEF FeaturedEvents
  <2>5. IsFiniteSet(payments')
    BY <2>2, <1>b, FS_AddElement
  <2> HIDE DEF sum, count
  <2> QED BY <2>4, <2>5, <1>a, <1>b, <1>c DEF SameSubscription
<1>3. ASSUME NEW d \in Deliveries, NEW e \in Events, Feature(d, e),
             payments' # payments
      PROVE  UsageInv'
  <2>1. Kind[e] = "featured" /\ e \notin payments /\ payments' = payments \cup {e}
    BY <1>3 DEF Feature, At, LabelInv, LabelOK
  <2>2. payments' \cap FeaturedEvents = (payments \cap FeaturedEvents) \cup {e}
    BY <2>1 DEF FeaturedEvents
  <2>3. IsFiniteSet(payments \cap FeaturedEvents)
    BY <1>b, FS_Intersection
  <2>4. count' = count + 1
    BY <2>1, <2>2, <2>3, FS_AddElement DEF FeaturedEvents
  <2>5. IsFiniteSet(payments')
    BY <1>b, <2>1, FS_AddElement
  <2>6. subscription.status # "NONE" => sum' = sum + 1
    <3> SUFFICES ASSUME subscription.status # "NONE" PROVE sum' = sum + 1
      OBVIOUS
    <3>1. subscription.cycle \in Cycles /\ usage \in [Cycles -> Nat]
      BY DEF TypeOK, Subscription
    <3>2. usage' = [usage EXCEPT ![subscription.cycle] = @ + 1]
      BY <1>3 DEF Feature
    <3>3. FoldFunction(+, 0, usage') = FoldFunction(+, 0, usage) + 1
      BY <3>1, <3>2, CyclesFinite, SumAddsOne
    <3> QED BY <3>3, SumPrimed
  <2> HIDE DEF sum, count
  <2> QED BY <2>4, <2>5, <2>6, <1>a, <1>b, <1>c DEF SameSubscription
<1>4. ASSUME NEW d \in Deliveries, NEW e \in Events, Feature(d, e),
             payments' = payments
      PROVE  UNCHANGED <<payments, usage>>
  BY <1>4 DEF Feature
<1> QED BY PaymentWrites, <1>1, <1>2, <1>3, <1>4

-----------------------------------------------------------------------------
(* Cycles and their package records *)

LEMMA CycleStep ==
  TypeOK /\ LabelInv /\ CycleHasPackage /\ [Next]_vars => CycleHasPackage'
<1> SUFFICES ASSUME TypeOK, LabelInv, CycleHasPackage, [Next]_vars
             PROVE  CycleHasPackage'
  OBVIOUS
<1>a. SameSubscription
  BY SubscriptionStays
<1> USE <1>a DEF SameSubscription, CycleHasPackage, TypeOK, books, progress, Goto
<1>1. ASSUME NEW d \in Deliveries, Deliver(d) PROVE CycleHasPackage'
  BY <1>1 DEF Deliver
<1>2. ASSUME NEW d \in Deliveries, NEW e \in Events, ReadKey(d, e) PROVE CycleHasPackage'
  BY <1>2 DEF ReadKey, At, At
<1>3. ASSUME NEW d \in Deliveries, NEW e \in Events, Store(d, e) PROVE CycleHasPackage'
  BY <1>3 DEF Store, At, At
<1>4. ASSUME NEW d \in Deliveries, NEW e \in Events, Dispatch(d, e) PROVE CycleHasPackage'
  BY <1>4 DEF Dispatch, At, At
<1>5. ASSUME NEW d \in Deliveries, NEW e \in Events, SetKey(d, e) PROVE CycleHasPackage'
  BY <1>5 DEF SetKey, At, At
<1>6. ASSUME NEW d \in Deliveries, NEW e \in Events, MarkProcessed(d, e) PROVE CycleHasPackage'
  BY <1>6 DEF MarkProcessed, At, At
<1>7. ASSUME NEW d \in Deliveries, NEW e \in Events, MarkFailed(d, e) PROVE CycleHasPackage'
  BY <1>7 DEF MarkFailed, At, At
<1>8. ASSUME NEW d \in Deliveries, NEW e \in Events, Throw(d, e) PROVE CycleHasPackage'
  BY <1>8 DEF Throw, At, Handling
<1>9. ASSUME NEW d \in Deliveries, NEW e \in Events, Die(d, e) PROVE CycleHasPackage'
  BY <1>9 DEF Die, At, At
<1>10. ASSUME NEW d \in Deliveries, NEW e \in Events, Activate(d, e) PROVE CycleHasPackage'
  BY <1>10 DEF Activate, At, At
<1>11. ASSUME NEW d \in Deliveries, NEW e \in Events, CreatePackage(d, e) PROVE CycleHasPackage'
  BY <1>11 DEF CreatePackage, At, At
<1>12. ASSUME NEW d \in Deliveries, NEW e \in Events, RecordPayment(d, e) PROVE CycleHasPackage'
  BY <1>12 DEF RecordPayment, At, At
<1>13. ASSUME NEW d \in Deliveries, NEW e \in Events, Reactivate(d, e) PROVE CycleHasPackage'
  BY <1>13 DEF Reactivate, At, At
<1>14. ASSUME NEW d \in Deliveries, NEW e \in Events, Dun(d, e) PROVE CycleHasPackage'
  BY <1>14 DEF Dun, At, At
<1>15. ASSUME NEW d \in Deliveries, NEW e \in Events, RecordFailure(d, e) PROVE CycleHasPackage'
  BY <1>15 DEF RecordFailure, At, At
<1>16. ASSUME NEW d \in Deliveries, NEW e \in Events, Sync(d, e) PROVE CycleHasPackage'
  BY <1>16 DEF Sync, At, At
<1>17. ASSUME NEW d \in Deliveries, NEW e \in Events, StartGrace(d, e) PROVE CycleHasPackage'
  BY <1>17 DEF StartGrace, At, At
<1>18. ASSUME NEW d \in Deliveries, NEW e \in Events, AddGraceJob(d, e) PROVE CycleHasPackage'
  BY <1>18 DEF AddGraceJob, At, At
<1>19. ASSUME NEW d \in Deliveries, NEW e \in Events, Cancel(d, e) PROVE CycleHasPackage'
  BY <1>19 DEF Cancel, At, At
<1>20. ASSUME NEW d \in Deliveries, NEW e \in Events, Feature(d, e) PROVE CycleHasPackage'
  BY <1>20 DEF Feature, At, At
<1>21. ASSUME NEW e \in Events, ExpireKey(e) PROVE CycleHasPackage'
  BY <1>21 DEF ExpireKey
<1>22. ASSUME NEW d \in Deliveries, NEW e \in Events, Notify(d, e) PROVE CycleHasPackage'
  BY <1>22 DEF Notify, At
<1>23. ASSUME NEW d \in Deliveries, NEW e \in Events, AddExpiryJob(d, e) PROVE CycleHasPackage'
  BY <1>23 DEF AddExpiryJob, At
<1>24. ASSUME NEW d \in Deliveries, NEW e \in Events, RecordFeaturedFailure(d, e)
      PROVE  CycleHasPackage'
  BY <1>24 DEF RecordFeaturedFailure, At
<1>25. ASSUME NEW n \in JobNames, RunJob(n) PROVE CycleHasPackage'
  BY <1>25 DEF RunJob
<1>26. CASE UNCHANGED vars
  BY <1>26 DEF vars
<1> QED
  BY <1>1, <1>2, <1>3, <1>4, <1>5, <1>6, <1>7, <1>8, <1>9, <1>10, <1>11, <1>12,
     <1>13, <1>14, <1>15, <1>16, <1>17, <1>18, <1>19, <1>20, <1>21, <1>22, <1>23, <1>24,
     <1>25, <1>26
  DEF Next, Process, Handle
-----------------------------------------------------------------------------
(* Invoices *)

\* A delivery that is past the payment of its invoice has recorded it, and so
\* has one that counts as processed.
BookedInv ==
  /\ ProcessedIsBooked
  /\ \A d \in Deliveries :
       /\ pc[d] \in {"reactivate", "setKey", "mark"}
       /\ Kind[event[d]] = "paid" /\ Known(event[d])
       => event[d] \in payments

\* Every step keeps it that what counts as processed has been recorded.
LEMMA BookedStep ==
  TypeOK /\ LabelInv /\ BookedInv /\ [Next]_vars => BookedInv'
<1> SUFFICES ASSUME TypeOK, LabelInv, BookedInv, [Next]_vars PROVE BookedInv'
  OBVIOUS
<1>a. SameSubscription
  BY SubscriptionStays
<1>b. \A d \in Deliveries : LabelOK(d)
  BY DEF LabelInv
<1> USE <1>a DEF SameSubscription, Known, BookedInv, ProcessedIsBooked, TypeOK, books,
        progress, Goto, Labels
<1>1. ASSUME NEW d \in Deliveries, Deliver(d) PROVE BookedInv'
  BY <1>1 DEF Deliver
<1>2. ASSUME NEW d \in Deliveries, NEW e \in Events, ReadKey(d, e) PROVE BookedInv'
  BY <1>2, <1>b DEF ReadKey, At, LabelOK
<1>3. ASSUME NEW d \in Deliveries, NEW e \in Events, Store(d, e) PROVE BookedInv'
  BY <1>3, <1>b DEF Store, At, LabelOK
<1>4. ASSUME NEW d \in Deliveries, NEW e \in Events, Dispatch(d, e) PROVE BookedInv'
  <2>1. \A x \in Deliveries \ {d} : pc'[x] = pc[x]
    BY <1>4 DEF Dispatch
  <2>2. Kind[e] = "paid" /\ Known(e) => pc'[d] = "activate"
    BY <1>4 DEF Dispatch, FirstWrite, AboutSubscription, Kinds
  <2> QED BY <1>4, <2>1, <2>2, <1>b DEF Dispatch, At, LabelOK
<1>5. ASSUME NEW d \in Deliveries, NEW e \in Events, SetKey(d, e) PROVE BookedInv'
  BY <1>5, <1>b DEF SetKey, At, LabelOK
<1>6. ASSUME NEW d \in Deliveries, NEW e \in Events, MarkProcessed(d, e) PROVE BookedInv'
  BY <1>6, <1>b DEF MarkProcessed, At, LabelOK
<1>7. ASSUME NEW d \in Deliveries, NEW e \in Events, MarkFailed(d, e) PROVE BookedInv'
  BY <1>7, <1>b DEF MarkFailed, At, LabelOK
<1>8. ASSUME NEW d \in Deliveries, NEW e \in Events, Throw(d, e) PROVE BookedInv'
  BY <1>8, <1>b DEF Throw, At, LabelOK, Handling
<1>9. ASSUME NEW d \in Deliveries, NEW e \in Events, Die(d, e) PROVE BookedInv'
  BY <1>9, <1>b DEF Die, At, LabelOK
<1>10. ASSUME NEW d \in Deliveries, NEW e \in Events, Activate(d, e) PROVE BookedInv'
  BY <1>10, <1>b DEF Activate, At, LabelOK
<1>11. ASSUME NEW d \in Deliveries, NEW e \in Events, CreatePackage(d, e) PROVE BookedInv'
  BY <1>11, <1>b DEF CreatePackage, At, LabelOK
<1>12. ASSUME NEW d \in Deliveries, NEW e \in Events, RecordPayment(d, e) PROVE BookedInv'
  BY <1>12, <1>b DEF RecordPayment, At, LabelOK
<1>13. ASSUME NEW d \in Deliveries, NEW e \in Events, Reactivate(d, e) PROVE BookedInv'
  BY <1>13, <1>b DEF Reactivate, At, LabelOK
<1>14. ASSUME NEW d \in Deliveries, NEW e \in Events, Dun(d, e) PROVE BookedInv'
  BY <1>14, <1>b DEF Dun, At, LabelOK
<1>15. ASSUME NEW d \in Deliveries, NEW e \in Events, RecordFailure(d, e) PROVE BookedInv'
  BY <1>15, <1>b DEF RecordFailure, At, LabelOK
<1>16. ASSUME NEW d \in Deliveries, NEW e \in Events, Sync(d, e) PROVE BookedInv'
  BY <1>16, <1>b DEF Sync, At, LabelOK
<1>17. ASSUME NEW d \in Deliveries, NEW e \in Events, StartGrace(d, e) PROVE BookedInv'
  BY <1>17, <1>b DEF StartGrace, At, LabelOK
<1>18. ASSUME NEW d \in Deliveries, NEW e \in Events, AddGraceJob(d, e) PROVE BookedInv'
  BY <1>18, <1>b DEF AddGraceJob, At, LabelOK
<1>19. ASSUME NEW d \in Deliveries, NEW e \in Events, Cancel(d, e) PROVE BookedInv'
  BY <1>19, <1>b DEF Cancel, At, LabelOK
<1>20. ASSUME NEW d \in Deliveries, NEW e \in Events, Feature(d, e) PROVE BookedInv'
  BY <1>20, <1>b DEF Feature, At, LabelOK
<1>21. ASSUME NEW e \in Events, ExpireKey(e) PROVE BookedInv'
  BY <1>21 DEF ExpireKey
<1>22. ASSUME NEW d \in Deliveries, NEW e \in Events, Notify(d, e) PROVE BookedInv'
  BY <1>22, <1>b DEF Notify, At, LabelOK
<1>23. ASSUME NEW d \in Deliveries, NEW e \in Events, AddExpiryJob(d, e) PROVE BookedInv'
  BY <1>23, <1>b DEF AddExpiryJob, At, LabelOK
<1>24. ASSUME NEW d \in Deliveries, NEW e \in Events, RecordFeaturedFailure(d, e) PROVE BookedInv'
  BY <1>24, <1>b DEF RecordFeaturedFailure, At, LabelOK
<1>25. ASSUME NEW n \in JobNames, RunJob(n) PROVE BookedInv'
  BY <1>25 DEF RunJob
<1>26. CASE UNCHANGED vars
  BY <1>26 DEF vars
<1> QED
  BY <1>1, <1>2, <1>3, <1>4, <1>5, <1>6, <1>7, <1>8, <1>9, <1>10, <1>11, <1>12,
     <1>13, <1>14, <1>15, <1>16, <1>17, <1>18, <1>19, <1>20, <1>21, <1>22, <1>23, <1>24,
     <1>25, <1>26
  DEF Next, Process, Handle
-----------------------------------------------------------------------------
(* Once, without trouble *)

\* Delivery d is inside handleWebhook with event e.
Working(d, e) == event[d] = e /\ pc[d] \notin {"idle", "key", "done", "error"}

\* Delivery d has yet to change the books.
Before(d, e) ==
  /\ event[d] = e
  /\ \/ pc[d] \in {"store", "handle", "activate", "dun", "grace", "sync", "feature",
                  "featureFailure"}
     \/ pc[d] = "cancel" /\ Kind[e] = "cancelled"

\* An event without trouble is in one delivery's hands at a time.  Its key is
\* not set before the books are changed, and set before that delivery is over.
Once(e) ==
  /\ \A d, f \in Deliveries : Working(d, e) /\ Working(f, e) => d = f
  /\ \A d \in Deliveries : Before(d, e) => e \notin key /\ effects[e] = 0
  /\ \A d \in Deliveries : event[d] = e /\ pc[d] = "mark" => e \in key
  /\ effects[e] \in {0, 1}
  /\ effects[e] = 1 => e \in key \/ \E d \in Deliveries : Working(d, e)

OnceInv == \A e \in Events \ troubled : Once(e)

\* A step of a delivery of one event keeps it for the other events.
LEMMA OnceOther ==
  ASSUME TypeOK, NEW x \in Events, Once(x),
         NEW d \in Deliveries, event[d] # x, event' = event,
         NEW label, Goto(d, label),
         x \in key' <=> x \in key, effects'[x] = effects[x]
  PROVE  Once(x)'
<1>1. \A f \in Deliveries : event[f] = x => pc'[f] = pc[f]
  BY DEF Goto, TypeOK
<1>2. \A f \in Deliveries : /\ Working(f, x)' <=> Working(f, x)
                            /\ Before(f, x)' <=> Before(f, x)
  BY <1>1 DEF Working, Before
<1> QED BY <1>1, <1>2 DEF Once

\* A handler's call keeps this, if it is the first to change the books or
\* leaves them alone.
LEMMA OnceKept ==
  ASSUME TypeOK, NEW x \in Events, Once(x),
         NEW d \in Deliveries, NEW e \in Events, Working(d, e),
         NEW label \in (Handling \cup {"failed"}) \ {"mark"}, Goto(d, label),
         UNCHANGED <<event, key>>,
         \/ effects' = effects /\ (Before(d, e)' => Before(d, e))
         \/ Counted(e) /\ Before(d, e) /\ ~ Before(d, e)'
  PROVE  Once(x)'
<1> USE DEF TypeOK
<1>1. \A f \in Deliveries : Working(f, x)' <=> Working(f, x)
  BY DEF Working, Goto, Handling
<1>2. \A f \in Deliveries \ {d} : Before(f, x)' <=> Before(f, x)
  BY DEF Before, Goto
<1>3. \A f \in Deliveries : event'[f] = x /\ pc'[f] = "mark" => event[f] = x /\ pc[f] = "mark"
  BY DEF Goto
<1>4. x # e => effects'[x] = effects[x] /\ event[d] # x
  BY DEF Counted, Working
<1>5. CASE x # e
  BY <1>4, <1>5, OnceOther
<1>6. CASE x = e /\ effects' = effects /\ (Before(d, e)' => Before(d, e))
  BY <1>1, <1>2, <1>3, <1>6 DEF Once
<1>7. CASE x = e /\ Counted(e) /\ Before(d, e) /\ ~ Before(d, e)'
  <2>1. effects[x] = 0 /\ effects'[x] = 1
    BY <1>7 DEF Once, Counted
  <2>2. \A f \in Deliveries : Before(f, x) => Working(f, x)
    BY DEF Before, Working
  <2>3. \A f \in Deliveries : ~ Before(f, x)'
    BY <1>2, <1>7, <2>2 DEF Once
  <2> QED BY <1>1, <1>3, <1>7, <2>1, <2>3 DEF Once
<1> QED BY <1>5, <1>6, <1>7

\* Every step keeps what is known of the deliveries of an event without trouble.
LEMMA OnceStep == TypeOK /\ LabelInv /\ OnceInv /\ [Next]_vars => OnceInv'
<1> SUFFICES ASSUME TypeOK, LabelInv, OnceInv, [Next]_vars,
                    NEW x \in Events, x \notin troubled'
             PROVE  Once(x)'
  BY DEF OnceInv
<1>a. \A d \in Deliveries : LabelOK(d)
  BY DEF LabelInv
<1> USE DEF books, progress, Goto
<1>1. ASSUME NEW d \in Deliveries, Deliver(d) PROVE Once(x)'
  BY <1>1 DEF Deliver, Labels, OnceInv, Once, Working, Before, TypeOK
<1>2. ASSUME NEW d \in Deliveries, NEW e \in Events, ReadKey(d, e) PROVE Once(x)'
  <2>1. Once(x) /\ UNCHANGED <<event, key, effects>>
    BY <1>2 DEF ReadKey, OnceInv
  <2>2. CASE pc' = [pc EXCEPT ![d] = "done"] \/ x # e
    BY <1>2, <2>1, <2>2 DEF ReadKey, At, Once, Working, Before, TypeOK
  <2>3. CASE x = e /\ e \notin key /\ pc' = [pc EXCEPT ![d] = "store"]
    <3>1. \A f \in Deliveries : ~ Working(f, x)
      BY <1>2, <2>3 DEF ReadKey, At, Working, TypeOK
    <3>2. effects[x] = 0
      BY <2>1, <2>3, <3>1 DEF Once
    <3>3. \A f \in Deliveries : Working(f, x)' => f = d
      BY <2>1, <3>1 , <2>3 DEF Working
    <3> QED BY <2>1, <2>3, <3>2, <3>3 DEF Once, Before, Working
  <2> QED BY <1>2, <2>2, <2>3 DEF ReadKey
<1>3. ASSUME NEW d \in Deliveries, NEW e \in Events, Store(d, e) PROVE Once(x)'
  <2>1. Once(x) /\ Working(d, e) /\ UNCHANGED <<event, key>>
    BY <1>3 DEF Store, At, Working, OnceInv
  <2>2. Goto(d, "handle") /\ Before(d, e) /\ effects' = effects
    BY <1>3 DEF Store, At, Before, TypeOK
  <2>3. "handle" \in (Handling \cup {"failed"}) \ {"mark"}
    BY DEF Handling
  <2> QED BY <2>1, <2>2, <2>3, OnceKept
<1>4. ASSUME NEW d \in Deliveries, NEW e \in Events, Dispatch(d, e) PROVE Once(x)'
  <2>1. Once(x) /\ Working(d, e) /\ UNCHANGED <<event, key>>
    BY <1>4 DEF Dispatch, At, Working, OnceInv
  <2>2. effects' = effects
    BY <1>4 DEF Dispatch
  <2>3. pc'[d] \in (Handling \cup {"failed"}) \ {"mark"} /\ Goto(d, pc'[d])
    BY <1>4 DEF Dispatch, FirstWrite, Handling, TypeOK
  <2>4. Before(d, e)
    BY <1>4 DEF Dispatch, At, Before
  <2> QED BY <2>1, <2>2, <2>3, <2>4, OnceKept
<1>5. ASSUME NEW d \in Deliveries, NEW e \in Events, SetKey(d, e) PROVE Once(x)'
  <2>1. Once(x) /\ Working(d, e) /\ UNCHANGED <<event, effects>>
    BY <1>5 DEF SetKey, At, Working, OnceInv
  <2>2. CASE x # e
    BY <1>5, <2>1, <2>2, OnceOther DEF SetKey, At
  <2>3. CASE x = e
    <3>1. \A f \in Deliveries : Working(f, x)' => f = d
      BY <1>5, <2>1, <2>3 DEF SetKey, At, Once, Working, TypeOK
    <3>2. \A f \in Deliveries : ~ Before(f, x)'
      BY <1>5, <2>1, <3>1 DEF SetKey, At, Before, Working, TypeOK
    <3>3. x \in key'
      BY <1>5, <2>3 DEF SetKey
    <3> QED BY <2>1, <3>1, <3>2, <3>3 DEF Once
  <2> QED BY <2>2, <2>3
<1>6. ASSUME NEW d \in Deliveries, NEW e \in Events, MarkProcessed(d, e) PROVE Once(x)'
  <2>1. Once(x) /\ Working(d, e) /\ UNCHANGED <<event, key, effects>>
    BY <1>6 DEF MarkProcessed, At, Working, OnceInv
  <2>2. CASE x # e
    BY <1>6, <2>1, <2>2, OnceOther DEF MarkProcessed, At
  <2>3. CASE x = e
    <3>1. x \in key
      BY <1>6, <2>1, <2>3 DEF MarkProcessed, At, Once
    <3>2. \A f \in Deliveries : ~ Working(f, x)'
      BY <1>6, <2>1, <2>3 DEF MarkProcessed, At, Once, Working, TypeOK
    <3>3. \A f \in Deliveries : ~ Before(f, x)' /\ ~ (event'[f] = x /\ pc'[f] = "mark")
      BY <3>2 DEF Before, Working
    <3> QED BY <2>1, <3>1, <3>2, <3>3 DEF Once
  <2> QED BY <2>2, <2>3
<1>7. ASSUME NEW d \in Deliveries, NEW e \in Events, MarkFailed(d, e) PROVE Once(x)'
  <2>1. Once(x) /\ event[d] # x /\ UNCHANGED <<event, key, effects>>
    BY <1>7 DEF MarkFailed, At, OnceInv
  <2> QED BY <1>7, <2>1, OnceOther DEF MarkFailed
<1>8. ASSUME NEW d \in Deliveries, NEW e \in Events, Throw(d, e) PROVE Once(x)'
  <2>1. Once(x) /\ Working(d, e) /\ UNCHANGED <<event, key>>
    BY <1>8 DEF Throw, Handling, Working, OnceInv
  <2>2. Goto(d, "failed") /\ ~ Before(d, e)' /\ effects' = effects
    BY <1>8 DEF Throw, Handling, Before, TypeOK
  <2>3. "failed" \in (Handling \cup {"failed"}) \ {"mark"}
    BY DEF Handling
  <2> QED BY <2>1, <2>2, <2>3, OnceKept
<1>9. ASSUME NEW d \in Deliveries, NEW e \in Events, Die(d, e) PROVE Once(x)'
  <2>1. Once(x) /\ event[d] # x /\ UNCHANGED <<event, key, effects>>
    BY <1>9 DEF Die, OnceInv
  <2> QED BY <1>9, <2>1, OnceOther DEF Die
<1>10. ASSUME NEW d \in Deliveries, NEW e \in Events, Activate(d, e) PROVE Once(x)'
  <2>1. Once(x) /\ Working(d, e) /\ UNCHANGED <<event, key>>
    BY <1>10 DEF Activate, At, Working, OnceInv
  <2>2. Kind[e] = "paid" /\ pc[d] = "activate"
    BY <1>10, <1>a DEF Activate, At, LabelOK
  <2>3. pc'[d] \in (Handling \cup {"failed"}) \ {"mark"} /\ Goto(d, pc'[d])
    BY <1>10 DEF Activate, At, Handling, TypeOK
  <2>4. Counted(e) /\ Before(d, e) /\ ~ Before(d, e)'
    BY <1>10, <2>2 DEF Activate, At, Before, TypeOK
  <2> QED BY <2>1, <2>3, <2>4, OnceKept
<1>11. ASSUME NEW d \in Deliveries, NEW e \in Events, CreatePackage(d, e) PROVE Once(x)'
  <2>1. Once(x) /\ Working(d, e) /\ UNCHANGED <<event, key>>
    BY <1>11 DEF CreatePackage, At, Working, OnceInv
  <2>2. Kind[e] = "paid" /\ pc[d] = "package"
    BY <1>11, <1>a DEF CreatePackage, At, LabelOK
  <2>3. pc'[d] \in (Handling \cup {"failed"}) \ {"mark"} /\ Goto(d, pc'[d])
    BY <1>11 DEF CreatePackage, At, Handling, TypeOK
  <2>4. effects' = effects /\ ~ Before(d, e)'
    BY <1>11, <2>2 DEF CreatePackage, At, Before, TypeOK
  <2> QED BY <2>1, <2>3, <2>4, OnceKept
<1>12. ASSUME NEW d \in Deliveries, NEW e \in Events, RecordPayment(d, e) PROVE Once(x)'
  <2>1. Once(x) /\ Working(d, e) /\ UNCHANGED <<event, key>>
    BY <1>12 DEF RecordPayment, At, Working, OnceInv
  <2>2. Kind[e] = "paid" /\ pc[d] = "pay"
    BY <1>12, <1>a DEF RecordPayment, At, LabelOK
  <2>3. pc'[d] \in (Handling \cup {"failed"}) \ {"mark"} /\ Goto(d, pc'[d])
    BY <1>12 DEF RecordPayment, At, Handling, TypeOK
  <2>4. effects' = effects /\ ~ Before(d, e)'
    BY <1>12, <2>2 DEF RecordPayment, At, Before, TypeOK
  <2> QED BY <2>1, <2>3, <2>4, OnceKept
<1>13. ASSUME NEW d \in Deliveries, NEW e \in Events, Reactivate(d, e) PROVE Once(x)'
  <2>1. Once(x) /\ Working(d, e) /\ UNCHANGED <<event, key>>
    BY <1>13 DEF Reactivate, At, Working, OnceInv
  <2>2. Goto(d, "setKey") /\ ~ Before(d, e)' /\ effects' = effects
    BY <1>13 DEF Reactivate, At, Before, TypeOK
  <2>3. "setKey" \in (Handling \cup {"failed"}) \ {"mark"}
    BY DEF Handling
  <2> QED BY <2>1, <2>2, <2>3, OnceKept
<1>14. ASSUME NEW d \in Deliveries, NEW e \in Events, Dun(d, e) PROVE Once(x)'
  <2>1. Once(x) /\ Working(d, e) /\ UNCHANGED <<event, key>>
    BY <1>14 DEF Dun, At, Working, OnceInv
  <2>2. Kind[e] = "paymentFailed" /\ pc[d] = "dun"
    BY <1>14, <1>a DEF Dun, At, LabelOK
  <2>3. pc'[d] \in (Handling \cup {"failed"}) \ {"mark"} /\ Goto(d, pc'[d])
    BY <1>14 DEF Dun, At, Handling, TypeOK
  <2>4. Counted(e) /\ Before(d, e) /\ ~ Before(d, e)'
    BY <1>14, <2>2 DEF Dun, At, Before, TypeOK
  <2> QED BY <2>1, <2>3, <2>4, OnceKept
<1>15. ASSUME NEW d \in Deliveries, NEW e \in Events, RecordFailure(d, e) PROVE Once(x)'
  <2>1. Once(x) /\ Working(d, e) /\ UNCHANGED <<event, key>>
    BY <1>15 DEF RecordFailure, At, Working, OnceInv
  <2>3. pc'[d] \in (Handling \cup {"failed"}) \ {"mark"} /\ Goto(d, pc'[d])
    BY <1>15 DEF RecordFailure, At, Handling, TypeOK
  <2>4. \/ effects' = effects /\ ~ Before(d, e)'
        \/ Counted(e) /\ Before(d, e) /\ ~ Before(d, e)'
    BY <1>15, <1>a DEF RecordFailure, At, Before, LabelOK, TypeOK
  <2> QED BY <2>1, <2>3, <2>4, OnceKept
<1>16. ASSUME NEW d \in Deliveries, NEW e \in Events, Sync(d, e) PROVE Once(x)'
  <2>1. Once(x) /\ Working(d, e) /\ UNCHANGED <<event, key>>
    BY <1>16 DEF Sync, At, Working, OnceInv
  <2>2. Kind[e] = "updated" /\ pc[d] = "sync"
    BY <1>16, <1>a DEF Sync, At, LabelOK
  <2>3. pc'[d] \in (Handling \cup {"failed"}) \ {"mark"} /\ Goto(d, pc'[d])
    BY <1>16 DEF Sync, At, Handling, TypeOK
  <2>4. Counted(e) /\ Before(d, e) /\ ~ Before(d, e)'
    BY <1>16, <2>2 DEF Sync, At, Before, TypeOK
  <2> QED BY <2>1, <2>3, <2>4, OnceKept
<1>17. ASSUME NEW d \in Deliveries, NEW e \in Events, StartGrace(d, e) PROVE Once(x)'
  <2>1. Once(x) /\ Working(d, e) /\ UNCHANGED <<event, key>>
    BY <1>17 DEF StartGrace, At, Working, OnceInv
  <2>2. Kind[e] = "cancelledUnpaid" /\ pc[d] = "grace"
    BY <1>17, <1>a DEF StartGrace, At, LabelOK
  <2>3. pc'[d] \in (Handling \cup {"failed"}) \ {"mark"} /\ Goto(d, pc'[d])
    BY <1>17 DEF StartGrace, At, Handling, TypeOK
  <2>4. Counted(e) /\ Before(d, e) /\ ~ Before(d, e)'
    BY <1>17, <2>2 DEF StartGrace, At, Before, TypeOK
  <2> QED BY <2>1, <2>3, <2>4, OnceKept
<1>18. ASSUME NEW d \in Deliveries, NEW e \in Events, AddGraceJob(d, e) PROVE Once(x)'
  <2>1. Once(x) /\ Working(d, e) /\ UNCHANGED <<event, key>>
    BY <1>18 DEF AddGraceJob, At, Working, OnceInv
  <2>2. Kind[e] = "cancelledUnpaid" /\ pc[d] = "graceJob"
    BY <1>18, <1>a DEF AddGraceJob, At, LabelOK
  <2>3. pc'[d] \in (Handling \cup {"failed"}) \ {"mark"} /\ Goto(d, pc'[d])
    BY <1>18 DEF AddGraceJob, At, Handling, TypeOK
  <2>4. effects' = effects /\ ~ Before(d, e)'
    BY <1>18, <2>2 DEF AddGraceJob, At, Before, TypeOK
  <2> QED BY <2>1, <2>3, <2>4, OnceKept
<1>19. ASSUME NEW d \in Deliveries, NEW e \in Events, Cancel(d, e) PROVE Once(x)'
  <2>1. Once(x) /\ Working(d, e) /\ UNCHANGED <<event, key>>
    BY <1>19 DEF Cancel, At, Working, OnceInv
  <2>3. pc'[d] \in (Handling \cup {"failed"}) \ {"mark"} /\ Goto(d, pc'[d])
    BY <1>19 DEF Cancel, At, Handling, TypeOK
  <2>4. \/ effects' = effects /\ ~ Before(d, e)'
        \/ Counted(e) /\ Before(d, e) /\ ~ Before(d, e)'
    BY <1>19, <1>a DEF Cancel, At, Before, LabelOK, TypeOK
  <2> QED BY <2>1, <2>3, <2>4, OnceKept
<1>20. ASSUME NEW d \in Deliveries, NEW e \in Events, Feature(d, e) PROVE Once(x)'
  <2>1. Once(x) /\ Working(d, e) /\ UNCHANGED <<event, key>>
    BY <1>20 DEF Feature, At, Working, OnceInv
  <2>3. pc'[d] \in (Handling \cup {"failed"}) \ {"mark"} /\ Goto(d, pc'[d])
    BY <1>20 DEF Feature, At, Handling, TypeOK
  <2>4. \/ effects' = effects /\ ~ Before(d, e)'
        \/ Counted(e) /\ Before(d, e) /\ ~ Before(d, e)'
    BY <1>20, <1>a DEF Feature, At, Before, LabelOK, TypeOK
  <2> QED BY <2>1, <2>3, <2>4, OnceKept
<1>21. ASSUME NEW e \in Events, ExpireKey(e) PROVE Once(x)'
  BY <1>21 DEF ExpireKey, OnceInv, Once, Working, Before, TypeOK
<1>22. ASSUME NEW d \in Deliveries, NEW e \in Events, Notify(d, e) PROVE Once(x)'
  <2>1. Once(x) /\ Working(d, e) /\ UNCHANGED <<event, key>>
    BY <1>22 DEF Notify, At, Working, OnceInv
  <2>3. pc'[d] \in (Handling \cup {"failed"}) \ {"mark"} /\ Goto(d, pc'[d])
    BY <1>22 DEF Notify, At, Handling, TypeOK
  <2>4. effects' = effects /\ ~ Before(d, e)'
    BY <1>22 DEF Notify, At, Before, TypeOK
  <2> QED BY <2>1, <2>3, <2>4, OnceKept
<1>23. ASSUME NEW d \in Deliveries, NEW e \in Events, AddExpiryJob(d, e) PROVE Once(x)'
  <2>1. Once(x) /\ Working(d, e) /\ UNCHANGED <<event, key>>
    BY <1>23 DEF AddExpiryJob, At, Working, OnceInv
  <2>3. pc'[d] \in (Handling \cup {"failed"}) \ {"mark"} /\ Goto(d, pc'[d])
    BY <1>23 DEF AddExpiryJob, At, Handling, TypeOK
  <2>4. effects' = effects /\ ~ Before(d, e)'
    BY <1>23 DEF AddExpiryJob, At, Before, TypeOK
  <2> QED BY <2>1, <2>3, <2>4, OnceKept
<1>24. ASSUME NEW d \in Deliveries, NEW e \in Events, RecordFeaturedFailure(d, e) PROVE Once(x)'
  <2>1. Once(x) /\ Working(d, e) /\ UNCHANGED <<event, key>>
    BY <1>24 DEF RecordFeaturedFailure, At, Working, OnceInv
  <2>3. pc'[d] \in (Handling \cup {"failed"}) \ {"mark"} /\ Goto(d, pc'[d])
    BY <1>24 DEF RecordFeaturedFailure, At, Handling, TypeOK
  <2>4. Counted(e) /\ Before(d, e) /\ ~ Before(d, e)'
    BY <1>24 DEF RecordFeaturedFailure, At, Before, TypeOK
  <2> QED BY <2>1, <2>3, <2>4, OnceKept
<1>25. ASSUME NEW n \in JobNames, RunJob(n) PROVE Once(x)'
  BY <1>25 DEF RunJob, OnceInv, Once, Working, Before
<1>26. CASE UNCHANGED vars
  BY <1>26 DEF vars, OnceInv, Once, Working, Before, TypeOK
<1> QED
  BY <1>1, <1>2, <1>3, <1>4, <1>5, <1>6, <1>7, <1>8, <1>9, <1>10, <1>11, <1>12,
     <1>13, <1>14, <1>15, <1>16, <1>17, <1>18, <1>19, <1>20, <1>21, <1>22, <1>23, <1>24,
     <1>25, <1>26
  DEF Next, Process, Handle

-----------------------------------------------------------------------------
(* Theorems *)

\* The inductive invariant: types, labels in line with kinds, and what each
\* property needs of the deliveries under way.
WebhookInv ==
  /\ TypeOK /\ LabelInv /\ FeaturedOnce /\ UsageInv
  /\ CycleHasPackage /\ BookedInv /\ OnceInv

\* The invariant holds at first.
LEMMA InitInv == Init => WebhookInv
<1> SUFFICES ASSUME Init PROVE WebhookInv
  OBVIOUS
<1>1. TypeOK
  BY InitType
<1>2. LabelInv /\ FeaturedOnce /\ CycleHasPackage
  BY DEF Init, LabelInv, LabelOK, FeaturedOnce, FeaturedEvents, CycleHasPackage
<1>3. BookedInv /\ OnceInv
  BY DEF Init, BookedInv, ProcessedIsBooked, OnceInv, Once, Working, Before
<1> QED BY <1>1, <1>2, <1>3, UsageInit DEF WebhookInv

\* Every step keeps the invariant.
LEMMA InvStep == WebhookInv /\ [Next]_vars => WebhookInv'
BY TypeStep, LabelStep, FeaturedStep, UsageStep, CycleStep, BookedStep, OnceStep
   DEF WebhookInv

\* The books, the deliveries and the counters fit together at every step of
\* handleWebhook, whatever is delivered, repeated, reordered or cut off.
THEOREM Invariant == Spec => []WebhookInv
BY InitInv, InvStep, PTL DEF Spec

\* However often and concurrently its event is handled, a payment intent buys
\* one featured listing.
THEOREM FeaturedSafe == Spec => []FeaturedOnce
BY Invariant, PTL DEF WebhookInv

\* The counters of the package records add up to the featured listings paid
\* for, whichever cycles the agent has moved through: no rollback, duplicate or
\* concurrent renewal loses one or counts it twice.
THEOREM UsageSafe == Spec => []UsageIsFeatured
<1>1. WebhookInv => UsageIsFeatured
  BY DEF WebhookInv, UsageInv
<1> QED BY <1>1, Invariant, PTL

\* While nothing fails the current cycle has its package record, or the
\* delivery that moved the subscription to it is about to create it.
THEOREM CycleSafe == Spec => []CycleHasPackage
BY Invariant, PTL DEF WebhookInv

\* No crash, error, duplicate or reordering makes an invoice count as processed
\* that has not been recorded.
THEOREM BookedSafe == Spec => []ProcessedIsBooked
<1>1. WebhookInv => ProcessedIsBooked
  BY DEF WebhookInv, BookedInv
<1> QED BY <1>1, Invariant, PTL

\* An event that met no trouble changed the books once at most.
THEOREM OnceSafe == Spec => []AppliedAgainOnlyAfterTrouble
<1>1. WebhookInv => AppliedAgainOnlyAfterTrouble
  BY DEF WebhookInv, TypeOK, OnceInv, Once, AppliedAgainOnlyAfterTrouble
<1> QED BY <1>1, Invariant, PTL
=============================================================================
