-------------------------- MODULE ClientPoolProofs --------------------------
(* The pool of connections keeps its promises for any number of threads and   *)
(* any size of the list.                                                      *)
EXTENDS ClientPool, FiniteSetTheorems, TLAPS

\* What the proofs carry from step to step: the list is a finite set.
PoolInv == PoolTypeOK /\ NeverShared /\ NothingLeaks /\ IsFiniteSet(idle)

LEMMA PoolInitially ==
  ASSUME PoolParameters, Init
  PROVE  PoolInv
<1>1. Lent = {}
  BY DEF Init, Lent
<1>2. IsFiniteSet({}) /\ Cardinality({}) = 0
  BY FS_EmptySet
<1> QED
  BY <1>1, <1>2 DEF Init, PoolInv, PoolTypeOK, NeverShared, NothingLeaks, PoolParameters

\* A thread that returns its connection, or gets one, changes the set of those that are lent
\* by just that connection.
LEMMA LentAfter ==
  ASSUME PoolParameters, PoolInv, NEW t \in Threads, NEW c \in Clients \cup {NoClient},
         lent' = [lent EXCEPT ![t] = c]
  PROVE  Lent' = ((Lent \ {lent[t]}) \cup {c}) \ {NoClient}
<1>1. lent \in [Threads -> Clients \cup {NoClient}]
  BY DEF PoolInv, PoolTypeOK
<1>2. ASSUME NEW x \in Lent'
      PROVE  x \in ((Lent \ {lent[t]}) \cup {c}) \ {NoClient}
  <2>1. PICK u \in Threads : x = lent'[u] /\ x # NoClient
    BY DEF Lent
  <2>2. CASE u = t
    BY <1>1, <2>1, <2>2
  <2>3. CASE u # t
    <3>1. x = lent[u]
      BY <1>1, <2>1, <2>3
    <3>2. x # lent[t]
      BY <2>1, <2>3, <3>1 DEF PoolInv, NeverShared
    <3> QED
      BY <2>1, <3>1, <3>2 DEF Lent
  <2> QED
    BY <2>2, <2>3
<1>3. ASSUME NEW x \in ((Lent \ {lent[t]}) \cup {c}) \ {NoClient}
      PROVE  x \in Lent'
  <2>1. CASE x = c
    <3>1. lent'[t] = x
      BY <1>1, <2>1
    <3> QED
      BY <3>1, <1>3 DEF Lent
  <2>2. CASE x # c
    <3>1. PICK u \in Threads : x = lent[u]
      BY <1>3, <2>2 DEF Lent
    <3>2. u # t
      BY <1>3, <2>2, <3>1
    <3>3. lent'[u] = x
      BY <1>1, <3>1, <3>2
    <3> QED
      BY <1>3, <3>3 DEF Lent
  <2> QED
    BY <2>1, <2>2
<1> QED
  BY <1>2, <1>3

LEMMA PoolStep ==
  ASSUME PoolParameters, PoolInv, Next
  PROVE  PoolInv'
<1> USE DEF PoolParameters
<1>1. CASE CloseAll
  <2>1. Lent' = Lent
    BY <1>1 DEF CloseAll, Lent
  <2>2. IsFiniteSet({}) /\ Cardinality({}) = 0
    BY FS_EmptySet
  <2> QED
    BY <1>1, <2>1, <2>2 DEF CloseAll, PoolInv, PoolTypeOK, NeverShared, NothingLeaks
<1>2. CASE CloseOne
  <2>1. Lent' = Lent
    BY <1>2 DEF CloseOne, Lent
  <2> QED
    BY <1>2, <2>1 DEF CloseOne, PoolInv, PoolTypeOK, NeverShared, NothingLeaks
<1>3. ASSUME NEW t \in Threads, Take(t)
      PROVE  PoolInv'
  <2>1. PICK c \in idle : idle' = idle \ {c} /\ lent' = [lent EXCEPT ![t] = c]
    BY <1>3 DEF Take, Without
  <2>2. c \in Clients /\ c # NoClient /\ lent[t] = NoClient
    BY <1>3 DEF Take, PoolInv, PoolTypeOK
  <2>3. Lent' = Lent \cup {c}
    <3>1. Lent' = ((Lent \ {lent[t]}) \cup {c}) \ {NoClient}
      BY <2>1, <2>2, LentAfter
    <3>2. NoClient \notin Lent
      BY DEF Lent
    <3> QED
      BY <2>2, <3>1, <3>2
  <2>4. IsFiniteSet(idle') /\ Cardinality(idle') <= Size
    <3>1. IsFiniteSet(idle) /\ Cardinality(idle) \in Nat /\ Cardinality(idle) <= Size
      BY FS_CardinalityType DEF PoolInv, NothingLeaks
    <3>2. IsFiniteSet(idle \ {c}) /\ Cardinality(idle \ {c}) = Cardinality(idle) - 1
      BY <3>1, FS_RemoveElement
    <3> QED
      BY <2>1, <3>1, <3>2
  <2>5. PoolTypeOK'
    BY <1>3, <2>1, <2>2 DEF Take, PoolInv, PoolTypeOK
  <2>6. NeverShared'
    <3>1. c \notin Lent
      BY DEF PoolInv, NeverShared
    <3>2. \A u \in Threads \ {t} : lent'[u] = lent[u] /\ lent[u] # c
      BY <2>1, <2>2, <3>1 DEF PoolInv, PoolTypeOK, Lent
    <3>3. lent'[t] = c
      BY <2>1 DEF PoolInv, PoolTypeOK
    <3> QED
      BY <1>3, <2>1, <2>2, <2>3, <3>1, <3>2, <3>3 DEF Take, PoolInv, NeverShared, NothingLeaks
  <2>7. NothingLeaks'
    BY <1>3, <2>1, <2>3, <2>4 DEF Take, PoolInv, NothingLeaks
  <2> QED
    BY <2>4, <2>5, <2>6, <2>7 DEF PoolInv
<1>4. ASSUME NEW t \in Threads, Miss(t) \/ Refuse(t) \/ Drop(t)
      PROVE  PoolInv'
  <2>1. UNCHANGED <<idle, doomed, open, lent>>
    BY <1>4 DEF Miss, Refuse, Drop
  <2>2. Lent' = Lent
    BY <2>1 DEF Lent
  <2>3. PoolTypeOK'
    BY <1>4, <2>1 DEF Miss, Refuse, Drop, PoolInv, PoolTypeOK
  <2> QED
    BY <2>1, <2>2, <2>3 DEF PoolInv, NeverShared, NothingLeaks
<1>5. ASSUME NEW t \in Threads, Connect(t)
      PROVE  PoolInv'
  <2>1. PICK c \in Clients \ open : open' = open \cup {c} /\ lent' = [lent EXCEPT ![t] = c]
    BY <1>5 DEF Connect
  <2>2. c # NoClient /\ lent[t] = NoClient
    BY <1>5 DEF Connect, PoolInv, PoolTypeOK
  <2>3. Lent' = Lent \cup {c}
    <3>1. Lent' = ((Lent \ {lent[t]}) \cup {c}) \ {NoClient}
      BY <2>1, <2>2, LentAfter
    <3>2. NoClient \notin Lent
      BY DEF Lent
    <3> QED
      BY <2>2, <3>1, <3>2
  <2>4. PoolTypeOK'
    BY <1>5, <2>1, <2>2 DEF Connect, PoolInv, PoolTypeOK
  <2>5. NeverShared'
    <3>1. c \notin Lent /\ c \notin idle \cup doomed
      BY <2>1 DEF PoolInv, NothingLeaks
    <3>2. \A u \in Threads \ {t} : lent'[u] = lent[u] /\ lent[u] # c
      BY <2>1, <2>2, <3>1 DEF PoolInv, PoolTypeOK, Lent
    <3>3. lent'[t] = c
      BY <2>1 DEF PoolInv, PoolTypeOK
    <3> QED
      BY <1>5, <2>1, <2>2, <2>3, <3>1, <3>2, <3>3 DEF Connect, PoolInv, NeverShared
  <2>6. NothingLeaks' /\ IsFiniteSet(idle')
    BY <1>5, <2>1, <2>3 DEF Connect, PoolInv, NothingLeaks
  <2> QED
    BY <2>4, <2>5, <2>6 DEF PoolInv
<1>6. ASSUME NEW t \in Threads, GiveBack(t)
      PROVE  PoolInv'
  <2>1. lent[t] \in Clients /\ lent[t] # NoClient /\ lent[t] \in Lent
    BY <1>6 DEF GiveBack, PoolInv, PoolTypeOK, Lent
  <2>2. CASE ~HasRoom
    <3>1. UNCHANGED <<idle, doomed, open, lent>>
      BY <1>6, <2>2 DEF GiveBack
    <3>2. Lent' = Lent
      BY <3>1 DEF Lent
    <3>3. PoolTypeOK'
      BY <1>6, <2>2, <3>1 DEF GiveBack, PoolInv, PoolTypeOK
    <3> QED
      BY <3>1, <3>2, <3>3 DEF PoolInv, NeverShared, NothingLeaks
  <2>3. CASE HasRoom
    <3>1. /\ idle' = idle \cup {lent[t]} /\ lent' = [lent EXCEPT ![t] = NoClient]
          /\ UNCHANGED <<doomed, open>>
      BY <1>6, <2>3 DEF GiveBack
    <3>2. Lent' = Lent \ {lent[t]}
      BY <3>1, LentAfter DEF Lent
    <3>3. IsFiniteSet(idle') /\ Cardinality(idle') <= Size
      <4>1. lent[t] \notin idle
        BY <2>1 DEF PoolInv, NeverShared
      <4>2. IsFiniteSet(idle') /\ Cardinality(idle') = Cardinality(idle) + 1
        BY <3>1, <4>1, FS_AddElement DEF PoolInv
      <4> QED
        BY <2>3, <4>2, FS_CardinalityType DEF HasRoom, PoolInv
    <3>4. PoolTypeOK'
      BY <1>6, <2>1, <2>3, <3>1 DEF GiveBack, PoolInv, PoolTypeOK
    <3>5. \A u \in Threads : lent'[u] = IF u = t THEN NoClient ELSE lent[u]
      BY <3>1 DEF PoolInv, PoolTypeOK
    <3>6. NeverShared'
      BY <2>1, <3>1, <3>2, <3>5 DEF PoolInv, NeverShared
    <3>7. NothingLeaks'
      BY <2>1, <3>1, <3>2, <3>3 DEF PoolInv, NeverShared, NothingLeaks
    <3> QED
      BY <3>3, <3>4, <3>6, <3>7 DEF PoolInv
  <2> QED
    BY <2>2, <2>3
<1>7. ASSUME NEW t \in Threads, CloseClient(t)
      PROVE  PoolInv'
  <2>1. /\ open' = open \ {lent[t]} /\ lent' = [lent EXCEPT ![t] = NoClient]
        /\ UNCHANGED <<idle, doomed>>
    BY <1>7 DEF CloseClient
  <2>2. lent[t] \in Clients /\ lent[t] # NoClient /\ lent[t] \in Lent
    BY <1>7 DEF CloseClient, PoolInv, PoolTypeOK, Lent
  <2>3. Lent' = Lent \ {lent[t]}
    BY <2>1, LentAfter DEF Lent
  <2>4. \A u \in Threads : lent'[u] = IF u = t THEN NoClient ELSE lent[u]
    BY <2>1 DEF PoolInv, PoolTypeOK
  <2>5. PoolTypeOK'
    BY <1>7, <2>1, <2>2 DEF CloseClient, PoolInv, PoolTypeOK
  <2>6. NeverShared'
    BY <2>1, <2>2, <2>3, <2>4 DEF PoolInv, NeverShared
  <2>7. NothingLeaks' /\ IsFiniteSet(idle')
    BY <2>1, <2>2, <2>3 DEF PoolInv, NeverShared, NothingLeaks
  <2> QED
    BY <2>5, <2>6, <2>7 DEF PoolInv
<1> QED
  BY <1>1, <1>2, <1>3, <1>4, <1>5, <1>6, <1>7 DEF Next

\* Every behaviour of the pool keeps its invariant.
THEOREM PoolIsSafe ==
  ASSUME PoolParameters
  PROVE  Spec => [](PoolTypeOK /\ NeverShared /\ NothingLeaks)
<1>1. Init => PoolInv
  BY PoolInitially
<1>2. PoolInv /\ [Next]_vars => PoolInv'
  <2>1. CASE Next
    BY <2>1, PoolStep
  <2>2. CASE UNCHANGED vars
    BY <2>2 DEF vars, PoolInv, PoolTypeOK, NeverShared, NothingLeaks, Lent
  <2> QED
    BY <2>1, <2>2
<1>3. PoolInv => PoolTypeOK /\ NeverShared /\ NothingLeaks
  BY DEF PoolInv
<1> QED
  BY <1>1, <1>2, <1>3, PTL DEF Spec
=============================================================================
