------------------------------- MODULE DlqProofs -------------------------------
(***************************************************************************)
(* Proofs about Dlq, for any orders, calls, messages and faults: types,    *)
(* that no message stays hidden behind a call, and that the answers of the *)
(* calls add up to what happened to the queue.                             *)
(***************************************************************************)
EXTENDS Dlq, FiniteSetTheorems, TLAPS

-----------------------------------------------------------------------------
(* Counting. *)

\* One more for x is one more pair.
LEMMA UnitsAdd ==
    ASSUME NEW D, NEW f \in [D -> Nat], NEW S \in SUBSET D, NEW x \in S,
           IsFiniteSet(Units(f, S))
    PROVE  /\ IsFiniteSet(Units([f EXCEPT ![x] = f[x] + 1], S))
           /\ Cardinality(Units([f EXCEPT ![x] = f[x] + 1], S))
                = Cardinality(Units(f, S)) + 1
<1> DEFINE g == [f EXCEPT ![x] = f[x] + 1]
<1>1. 1 .. (f[x] + 1) = (1 .. f[x]) \cup {f[x] + 1}
  OBVIOUS
<1>2. \A y \in S : g[y] = IF y = x THEN f[x] + 1 ELSE f[y]
  OBVIOUS
<1> HIDE DEF g
<1>3. Units(g, S) = Units(f, S) \cup {<<x, f[x] + 1>>}
  <2>1. ASSUME NEW y \in S
        PROVE  {y} \X (1 .. g[y]) =
                 ({y} \X (1 .. f[y])) \cup (IF y = x THEN {<<x, f[x] + 1>>} ELSE {})
    BY <1>1, <1>2
  <2> QED BY <2>1 DEF Units
<1>4. <<x, f[x] + 1>> \notin Units(f, S)
  <2>1. \A y \in S : <<x, f[x] + 1>> \notin {y} \X (1 .. f[y])
    OBVIOUS
  <2> QED BY <2>1 DEF Units
<1>5. /\ IsFiniteSet(Units(g, S))
      /\ Cardinality(Units(g, S)) = Cardinality(Units(f, S)) + 1
  <2> DEFINE U == Units(f, S)
             e == <<x, f[x] + 1>>
  <2>1. IsFiniteSet(U) /\ e \notin U
    BY <1>4
  <2> HIDE DEF U, e
  <2>2. IsFiniteSet(U \cup {e}) /\ Cardinality(U \cup {e}) = Cardinality(U) + 1
    BY <2>1, FS_AddElement
  <2> QED BY <1>3, <2>2 DEF U, e
<1> QED BY <1>5 DEF g

\* Only the members that count something, and what they count, matter.
LEMMA UnitsSame ==
    ASSUME NEW f, NEW g, NEW S, NEW T,
           \A x \in S \cap T : f[x] = g[x],
           \A x \in S \ T : f[x] = 0,
           \A x \in T \ S : g[x] = 0
    PROVE  Units(f, S) = Units(g, T)
<1>1. \A x \in S \cap T : {x} \X (1 .. f[x]) = {x} \X (1 .. g[x])
  OBVIOUS
<1>2. \A x \in S \ T : {x} \X (1 .. f[x]) = {}
  OBVIOUS
<1>3. \A x \in T \ S : {x} \X (1 .. g[x]) = {}
  OBVIOUS
<1> QED BY <1>1, <1>2, <1>3 DEF Units

\* Counts that are 0 throughout make no pairs.
LEMMA NoUnits ==
    ASSUME NEW f, NEW S, \A x \in S : f[x] = 0
    PROVE  Units(f, S) = {}
<1>1. \A x \in S : {x} \X (1 .. f[x]) = {}
  OBVIOUS
<1> QED BY <1>1 DEF Units

\* One more element makes a finite set larger by one at most.
LEMMA OneMore ==
    ASSUME NEW S, NEW x, IsFiniteSet(S)
    PROVE  IsFiniteSet(S \cup {x}) /\ Cardinality(S \cup {x}) <= Cardinality(S) + 1
<1>1. Cardinality(S) \in Nat
  BY FS_CardinalityType
<1>2. /\ IsFiniteSet(S \cup {x})
      /\ Cardinality(S \cup {x}) = IF x \in S THEN Cardinality(S) ELSE Cardinality(S) + 1
  BY FS_AddElement, Zenon
<1> QED BY <1>1, <1>2

\* Messages are finite in number, and so are those in any place.
LEMMA MessageSets ==
    /\ \A S \in SUBSET Msgs : IsFiniteSet(S) /\ Cardinality(S) \in 0 .. MaxMessages
    /\ Msgs \subseteq Nat \ {0}
<1>1. IsFiniteSet(Msgs) /\ Cardinality(Msgs) = MaxMessages
  <2>1. /\ IsFiniteSet(1 .. MaxMessages)
        /\ Cardinality(1 .. MaxMessages) = IF 1 > MaxMessages THEN 0 ELSE MaxMessages - 1 + 1
    BY DlqAssumption, FS_Interval
  <2> QED BY <2>1, DlqAssumption DEF Msgs
<1>2. ASSUME NEW S \in SUBSET Msgs
      PROVE  IsFiniteSet(S) /\ Cardinality(S) \in 0 .. MaxMessages
  <2>1. IsFiniteSet(S) /\ Cardinality(S) <= Cardinality(Msgs)
    BY <1>1, FS_Subset
  <2>2. Cardinality(S) \in Nat
    BY <2>1, FS_CardinalityType
  <2> QED BY <1>1, <2>1, <2>2, DlqAssumption
<1> QED BY <1>2 DEF Msgs

-----------------------------------------------------------------------------
(* What a step does to one call and to one message. *)

\* The call k has its message out, and no other call has it.
LEMMA HandledMessage ==
    ASSUME DlqInv, NEW k \in Calls, pc[k] \in {"handle", "ack"}
    PROVE  /\ got[k] \in Msgs
           /\ at[got[k]] = "got"
           /\ \A j \in Calls : got[j] = got[k] => j = k
  BY DEF DlqInv, TypeOK, OutMeansHandled

\* Giving a message up hides none.
LEMMA ReleaseOut ==
    ASSUME DlqInv, NEW k \in Calls, pc[k] \in {"handle", "ack"},
           NEW p \in Places \ {"got"}, Release(k, p),
           NEW s \in {"get", "ended"}, Goto(k, s)
    PROVE  OutMeansHandled'
<1>1. /\ got[k] \in Msgs /\ at[got[k]] = "got"
      /\ \A j \in Calls : got[j] = got[k] => j = k
      /\ OutMeansHandled /\ TypeOK /\ NoMsg \notin Msgs
  BY HandledMessage, MessageSets, DlqAssumption DEF DlqInv
<1>2. \A m \in Msgs : at'[m] = IF m = got[k] THEN p ELSE at[m]
  BY <1>1 DEF Release, TypeOK
<1>3. \A j \in Calls : /\ got'[j] = IF j = k THEN NoMsg ELSE got[j]
                       /\ pc'[j] = IF j = k THEN s ELSE pc[j]
  BY <1>1 DEF Release, Goto, TypeOK
<1>4. \A m \in Msgs : at'[m] = "got" <=> \E j \in Calls : got'[j] = m
  BY <1>1, <1>2, <1>3 DEF OutMeansHandled
<1>5. \A i, j \in Calls : got'[i] = got'[j] /\ got'[j] # NoMsg => i = j
  BY <1>1, <1>3 DEF OutMeansHandled
<1>6. \A j \in Calls : got'[j] # NoMsg <=> pc'[j] \in {"handle", "ack"}
  BY <1>1, <1>3 DEF OutMeansHandled
<1> QED BY <1>4, <1>5, <1>6 DEF OutMeansHandled

\* A lost channel, with an ack or without, leaves nothing out.
LEMMA ReturnedOut ==
    ASSUME DlqInv, Returned, \A j \in Calls : pc'[j] \notin {"handle", "ack"}
    PROVE  OutMeansHandled'
<1>1. TypeOK /\ NoMsg \notin Msgs
  BY MessageSets, DlqAssumption DEF DlqInv
<1>2. /\ \A m \in Msgs : at'[m] # "got"
      /\ \A j \in Calls : got'[j] = NoMsg
  BY <1>1 DEF Returned, TypeOK
<1> QED BY <1>1, <1>2 DEF OutMeansHandled

\* What a lost channel does to the steps of the calls.
LEMMA LostSteps ==
    ASSUME DlqInv, LoseChannel \/ \E k \in Calls : LoseAck(k)
    PROVE  /\ Returned
           /\ pc' \in [Calls -> {"start", "ended", "error"}]
           /\ \A j \in Calls : /\ pc'[j] = "start" <=> pc[j] = "start"
                               /\ pc[j] \in {"start", "ended", "error"} => pc'[j] = pc[j]
  BY DEF DlqInv, TypeOK, LoseChannel, LoseAck, Running, DiscardsNow

\* The steps that give one message up.
Gives(k) == PutBack(k) \/ Unreadable(k) \/ Discard(k) \/ PublishFails(k) \/ Ack(k)

\* No step leaves a message out behind a call.
LEMMA OutPart ==
    ASSUME DlqInv, Next PROVE OutMeansHandled'
<1>1. /\ TypeOK /\ OutMeansHandled /\ NoMsg \notin Msgs
  BY MessageSets, DlqAssumption DEF DlqInv
<1>2. ASSUME NEW o \in Orders \cup {Garbage}, DeadLetter(o) PROVE OutMeansHandled'
  <2>1. \A m \in Msgs : at'[m] = "got" <=> at[m] = "got"
    BY <1>1, <1>2 DEF DeadLetter, TypeOK
  <2> QED BY <1>1, <1>2, <2>1 DEF DeadLetter, OutMeansHandled
<1>3. ASSUME NEW k \in Calls, NEW kd \in Kinds, NEW o \in Orders, StartCall(k, kd, o)
      PROVE  OutMeansHandled'
  <2>1. \A j \in Calls : pc'[j] \in {"handle", "ack"} <=> pc[j] \in {"handle", "ack"}
    BY <1>1, <1>3 DEF StartCall, Goto, TypeOK
  <2> QED BY <1>1, <1>3, <2>1 DEF StartCall, OutMeansHandled
<1>4. ASSUME NEW k \in Calls, Get(k) PROVE OutMeansHandled'
  <2>1. PICK m \in Msgs : /\ Head(m)
                          /\ at' = [at EXCEPT ![m] = "got"]
                          /\ got' = [got EXCEPT ![k] = m]
    BY <1>4 DEF Get
  <2>2. at[m] = "ready" /\ \A j \in Calls : got[j] # m
    BY <1>1, <2>1 DEF Head, Ready, OutMeansHandled
  <2>3. \A j \in Calls : /\ got'[j] = IF j = k THEN m ELSE got[j]
                         /\ pc'[j] = IF j = k THEN "handle" ELSE pc[j]
    BY <1>1, <1>4, <2>1 DEF Get, Goto, TypeOK
  <2>4. \A n \in Msgs : at'[n] = IF n = m THEN "got" ELSE at[n]
    BY <1>1, <2>1 DEF TypeOK
  <2>5. got[k] = NoMsg
    BY <1>1, <1>4 DEF Get, OutMeansHandled
  <2>6. \A n \in Msgs : at'[n] = "got" <=> \E j \in Calls : got'[j] = n
    BY <1>1, <2>2, <2>3, <2>4, <2>5 DEF OutMeansHandled
  <2>7. \A i, j \in Calls : got'[i] = got'[j] /\ got'[j] # NoMsg => i = j
    BY <1>1, <2>2, <2>3 DEF OutMeansHandled
  <2>8. \A j \in Calls : got'[j] # NoMsg <=> pc'[j] \in {"handle", "ack"}
    BY <1>1, <2>2, <2>3 DEF OutMeansHandled
  <2> QED BY <2>6, <2>7, <2>8 DEF OutMeansHandled
<1>5. ASSUME NEW k \in Calls, EndLoop(k) \/ Publish(k) PROVE OutMeansHandled'
  <2>1. \A j \in Calls : pc'[j] \in {"handle", "ack"} <=> pc[j] \in {"handle", "ack"}
    BY <1>1, <1>5 DEF EndLoop, Publish, Reprocesses, Goto, TypeOK
  <2> QED BY <1>1, <1>5, <2>1 DEF EndLoop, Publish, OutMeansHandled
<1>6. ASSUME NEW k \in Calls, Gives(k) PROVE OutMeansHandled'
  <2>1. /\ pc[k] \in {"handle", "ack"}
        /\ \E p \in Places \ {"got"} : Release(k, p)
        /\ \E s \in {"get", "ended"} : Goto(k, s)
    BY <1>6 DEF Gives, PutBack, Unreadable, Discard, DiscardsNow, PublishFails, Ack,
                Catch, Reprocesses, Places
  <2> QED BY <2>1, ReleaseOut DEF DlqInv
<1>7. CASE PurgeAll
  <2>1. \A m \in Msgs : at'[m] = "got" <=> at[m] = "got"
    BY <1>1, <1>7 DEF PurgeAll, TypeOK
  <2> QED BY <1>1, <1>7, <2>1 DEF PurgeAll, OutMeansHandled
<1>8. CASE LoseChannel \/ \E k \in Calls : LoseAck(k)
  <2>1. Returned /\ \A j \in Calls : pc'[j] \notin {"handle", "ack"}
    BY <1>8, LostSteps
  <2> QED BY <2>1, ReturnedOut
<1> QED BY <1>2, <1>3, <1>4, <1>5, <1>6, <1>7, <1>8 DEF Next, Proceed, Gives

-----------------------------------------------------------------------------
(* Types, and the turns of the calls. *)

LEMMA TypePart ==
    ASSUME DlqInv, Next PROVE TypeOK' /\ CallSteps'
<1>1. /\ TypeOK /\ CallSteps /\ NoMsg \notin Msgs /\ Msgs \subseteq Nat
      /\ {"get", "handle", "ended"} \subseteq {"start", "get", "handle", "ack", "ended", "error"}
  BY MessageSets, DlqAssumption DEF DlqInv
<1>2. ASSUME NEW o \in Orders \cup {Garbage}, DeadLetter(o) PROVE TypeOK' /\ CallSteps'
  <2>1. at' \in [Msgs -> Places] /\ msgOrder' \in [Msgs -> Orders \cup {NoOrder, Garbage}]
    BY <1>1, <1>2 DEF DeadLetter, TypeOK, Places
  <2> QED BY <1>1, <1>2, <2>1 DEF DeadLetter, TypeOK, CallSteps, Reprocessing
<1>3. ASSUME NEW k \in Calls, NEW kd \in Kinds, NEW o \in Orders, StartCall(k, kd, o)
      PROVE  TypeOK' /\ CallSteps'
  <2>1. PICK limit \in Msgs \cup {0} : bound' = [bound EXCEPT ![k] = limit]
    <3>1. Cardinality(Ready) \in Msgs \cup {0}
      BY MessageSets, DlqAssumption DEF Ready, Msgs
    <3> QED BY <1>3, <3>1 DEF StartCall
  <2>2. /\ target' \in [Calls -> Orders \cup {NoOrder}]
        /\ kind' \in [Calls -> Kinds \cup {"none"}]
        /\ bound' \in [Calls -> Msgs \cup {0}]
        /\ pc' \in [Calls -> {"start", "get", "handle", "ack", "ended", "error"}]
    BY <1>1, <1>3, <2>1 DEF StartCall, Goto, TypeOK
  <2>3. tries[k] = 0 /\ removed[k] = 0 /\ failed[k] = 0
    BY <1>1, <1>3 DEF StartCall, TypeOK, CallSteps
  <2>4. \A j \in Calls : removed'[j] + failed'[j] <= tries'[j] /\ tries'[j] <= bound'[j]
    BY <1>1, <1>3, <2>1, <2>3 DEF StartCall, TypeOK
  <2>5. TypeOK'
    BY <1>1, <1>3, <2>2, <2>4 DEF StartCall, TypeOK
  <2>6. CallSteps'
    BY <1>1, <1>3, <2>3 DEF StartCall, Goto, TypeOK, CallSteps, Reprocessing
  <2> QED BY <2>5, <2>6
<1>4. ASSUME NEW k \in Calls, Get(k) PROVE TypeOK' /\ CallSteps'
  <2>1. at' \in [Msgs -> Places] /\ got' \in [Calls -> Msgs \cup {NoMsg}]
    BY <1>1, <1>4 DEF Get, TypeOK, Places
  <2>2. \A j \in Calls : /\ tries'[j] = IF j = k THEN tries[k] + 1 ELSE tries[j]
                         /\ pc'[j] = IF j = k THEN "handle" ELSE pc[j]
                         /\ j # k => got'[j] = got[j]
    BY <1>1, <1>4 DEF Get, Goto, TypeOK
  <2>3. tries[k] < bound[k] /\ bound[k] \in Nat /\ tries[k] \in Nat
    <3>1. bound[k] \in Msgs \cup {0} /\ tries[k] \in Nat
      BY <1>1 DEF TypeOK
    <3>2. tries[k] < bound[k]
      BY <1>4 DEF Get
    <3>3. \A n \in Msgs \cup {0} : n \in Nat
      BY DEF Msgs
    <3> QED BY <3>1, <3>2, <3>3
  <2>4. TypeOK'
    BY <1>1, <1>4, <2>1, <2>2, <2>3 DEF Get, Goto, TypeOK
  <2>5. UNCHANGED <<copies, kind, removed, failed>> /\ pc[k] = "get"
    BY <1>4 DEF Get
  <2>6. removed[k] + failed[k] < tries[k] + 1
    BY <1>1 DEF TypeOK
  <2>7. ASSUME NEW j \in Calls, pc'[j] = "ack"
        PROVE  j \in Reprocessing' /\ copies'[got'[j]] > 0
    BY <1>1, <2>2, <2>5, <2>7 DEF CallSteps, Reprocessing
  <2>8. CallSteps'
    BY <1>1, <2>2, <2>5, <2>6, <2>7 DEF CallSteps
  <2> QED BY <2>4, <2>8
<1>5. ASSUME NEW k \in Calls, EndLoop(k) PROVE TypeOK' /\ CallSteps'
  BY <1>1, <1>5 DEF EndLoop, Goto, TypeOK, CallSteps, Reprocessing
<1>6. ASSUME NEW k \in Calls, Publish(k) PROVE TypeOK' /\ CallSteps'
  <2>1. /\ pc[k] = "handle" /\ got[k] \in Msgs /\ k \in Reprocessing /\ kind[k] # "discard"
        /\ \A j \in Calls : got[j] = got[k] => j = k
    BY <1>6, HandledMessage DEF Publish, Reprocesses, Reprocessing
  <2>2. /\ copies' \in [Msgs -> Nat] /\ copies'[got[k]] > 0
        /\ \A m \in Msgs : m # got[k] => copies'[m] = copies[m]
    <3>1. copies \in [Msgs -> Nat] /\ copies' = [copies EXCEPT ![got[k]] = copies[got[k]] + 1]
      BY <1>1, <1>6 DEF Publish, Published, TypeOK
    <3>2. copies[got[k]] \in Nat
      BY <2>1, <3>1
    <3> QED BY <2>1, <3>1, <3>2
  <2>3. \A j \in Calls : pc'[j] = IF j = k THEN "ack" ELSE pc[j]
    BY <1>1, <1>6 DEF Publish, Goto, TypeOK
  <2>4. TypeOK'
    BY <1>1, <1>6, <2>2 DEF Publish, Goto, TypeOK
  <2>5. ASSUME NEW j \in Calls, pc'[j] = "ack"
        PROVE  j \in Reprocessing /\ copies'[got[j]] > 0
    <3>1. CASE j = k
      BY <2>1, <2>2, <3>1
    <3>2. CASE j # k
      <4>1. pc[j] = "ack" /\ got[j] \in Msgs /\ got[j] # got[k]
        BY <2>1, <2>3, <2>5, <3>2, HandledMessage
      <4> QED BY <1>1, <2>2, <4>1 DEF CallSteps
    <3> QED BY <3>1, <3>2
  <2>6. CallSteps'
    BY <1>1, <1>6, <2>1, <2>3, <2>5 DEF Publish, TypeOK, CallSteps, Reprocessing
  <2> QED BY <2>4, <2>6
<1>7. ASSUME NEW k \in Calls, Gives(k) PROVE TypeOK' /\ CallSteps'
  <2>1. /\ pc[k] \in {"handle", "ack"} /\ got[k] \in Msgs
        /\ removed[k] + failed[k] < tries[k]
        /\ kind[k] = "discard" => removed[k] = 0
        /\ pc[k] = "ack" => kind[k] # "discard"
        /\ \A j \in Calls : got[j] = got[k] => j = k
    BY <1>1, <1>7, HandledMessage
       DEF Gives, PutBack, Unreadable, Discard, DiscardsNow, PublishFails, Ack, Reprocesses,
           CallSteps, Reprocessing
  <2>2. PICK p \in Places : Release(k, p)
    BY <1>7 DEF Gives, PutBack, Unreadable, Discard, PublishFails, Ack, Catch, Places
  <2>3. /\ at' \in [Msgs -> Places] /\ got' \in [Calls -> Msgs \cup {NoMsg}]
        /\ \A j \in Calls : j # k => got'[j] = got[j]
    BY <1>1, <2>1, <2>2 DEF Release, TypeOK
  <2>4. PICK s \in {"get", "ended"} : Goto(k, s) /\ (s = "get" => ~Discard(k))
    <3>1. CASE Discard(k)
      BY <3>1 DEF Discard
    <3>2. CASE ~Discard(k)
      BY <1>7, <3>2 DEF Gives, PutBack, Unreadable, PublishFails, Ack, Catch
    <3> QED BY <3>1, <3>2
  <2>5. \A j \in Calls : pc'[j] = IF j = k THEN s ELSE pc[j]
    BY <1>1, <2>4 DEF Goto, TypeOK
  <2>6. /\ UNCHANGED <<msgOrder, kind, target, bound, tries>>
        /\ faults' \in 0 .. MaxFaults
        /\ copies' \in [Msgs -> Nat]
        /\ \A m \in Msgs : m # got[k] => copies'[m] = copies[m]
    BY <1>1, <1>7, <2>1, DlqAssumption
       DEF Gives, PutBack, Unreadable, Discard, PublishFails, Ack, Published, TypeOK
  <2>7. /\ removed' \in [Calls -> Nat] /\ failed' \in [Calls -> Nat]
        /\ \A j \in Calls : j # k => removed'[j] = removed[j] /\ failed'[j] = failed[j]
        /\ removed'[k] + failed'[k] <= removed[k] + failed[k] + 1
        /\ (kind[k] = "discard" /\ s = "get") => removed'[k] = removed[k]
    <3>1. removed \in [Calls -> Nat] /\ failed \in [Calls -> Nat]
      BY <1>1 DEF TypeOK
    <3>2. CASE UNCHANGED <<removed, failed>>
      BY <3>1, <3>2
    <3>3. CASE /\ removed' = [removed EXCEPT ![k] = removed[k] + 1] /\ UNCHANGED failed
               /\ ~(kind[k] = "discard" /\ s = "get")
      BY <3>1, <3>3
    <3>4. CASE failed' = [failed EXCEPT ![k] = failed[k] + 1] /\ UNCHANGED removed
      BY <3>1, <3>4
    <3>5. CASE PutBack(k)
      BY <3>2, <3>5 DEF PutBack
    <3>6. CASE Unreadable(k) \/ PublishFails(k)
      BY <3>4, <3>6 DEF Unreadable, PublishFails, Catch
    <3>7. CASE Discard(k)
      BY <2>4, <3>3, <3>7 DEF Discard, Counted
    <3>8. CASE Ack(k)
      BY <2>1, <3>3, <3>8 DEF Ack, Counted
    <3> QED BY <1>7, <3>5, <3>6, <3>7, <3>8 DEF Gives
  <2>8. \A j \in Calls : removed'[j] + failed'[j] <= tries[j] /\ tries[j] <= bound[j]
    BY <1>1, <2>1, <2>7 DEF TypeOK
  <2>9. TypeOK'
    BY <1>1, <2>3, <2>4, <2>6, <2>7, <2>8 DEF TypeOK, Goto
  <2>10. ASSUME NEW j \in Calls, pc'[j] = "ack"
         PROVE  j \in Reprocessing /\ copies'[got'[j]] > 0
    <3>1. j # k /\ pc[j] = "ack"
      BY <2>5, <2>10
    <3>2. got[j] \in Msgs /\ got[j] # got[k]
      BY <2>1, <3>1, HandledMessage
    <3> QED BY <1>1, <2>3, <2>6, <3>1, <3>2 DEF CallSteps
  <2>11. CallSteps'
    BY <1>1, <2>1, <2>5, <2>6, <2>7, <2>10 DEF TypeOK, CallSteps, Reprocessing
  <2> QED BY <2>9, <2>11
<1>8. CASE PurgeAll
  BY <1>1, <1>8 DEF PurgeAll, TypeOK, CallSteps, Places, Reprocessing
<1>9. ASSUME LoseChannel \/ \E k \in Calls : LoseAck(k) PROVE TypeOK' /\ CallSteps'
  <2>1. /\ Returned
        /\ pc' \in [Calls -> {"start", "ended", "error"}]
        /\ \A j \in Calls : pc'[j] = "start" <=> pc[j] = "start"
    BY <1>9, LostSteps
  <2>2. /\ at' \in [Msgs -> Places]
        /\ got' \in [Calls -> Msgs \cup {NoMsg}]
    BY <1>1, <2>1 DEF Returned, TypeOK, Places
  <2>3. /\ UNCHANGED <<msgOrder, copies, kind, target, bound, tries, failed>>
        /\ faults' \in 0 .. MaxFaults
    BY <1>1, <1>9, DlqAssumption DEF LoseChannel, LoseAck, TypeOK
  <2>4. /\ removed' \in [Calls -> Nat]
        /\ \A j \in Calls : removed'[j] + failed[j] <= tries[j]
    <3>1. CASE UNCHANGED removed
      BY <1>1, <3>1 DEF TypeOK
    <3>2. ASSUME NEW k \in Calls, LoseAck(k)
          PROVE  /\ removed' \in [Calls -> Nat]
                 /\ \A j \in Calls : removed'[j] + failed[j] <= tries[j]
      <4>1. removed' = [removed EXCEPT ![k] = removed[k] + 1]
        BY <3>2 DEF LoseAck, Counted
      <4>2. removed[k] + failed[k] < tries[k]
        BY <1>1, <3>2 DEF LoseAck, DiscardsNow, CallSteps
      <4> QED BY <1>1, <4>1, <4>2 DEF TypeOK
    <3> QED BY <1>9, <3>1, <3>2 DEF LoseChannel
  <2>5. TypeOK'
    BY <1>1, <2>1, <2>2, <2>3, <2>4 DEF TypeOK
  <2>6. CallSteps'
    BY <1>1, <2>1, <2>3 DEF TypeOK, CallSteps
  <2> QED BY <2>5, <2>6
<1> QED BY <1>2, <1>3, <1>4, <1>5, <1>6, <1>7, <1>8, <1>9 DEF Next, Proceed, Gives

-----------------------------------------------------------------------------
(* The answers. *)

\* What the counts are made of is finite.
LEMMA Counts ==
    ASSUME DlqInv
    PROVE  /\ Sent \in Nat /\ Processed \in Nat /\ Failures \in Nat /\ faults \in Nat
           /\ IsFiniteSet(Acking) /\ Cardinality(Acking) \in Nat
           /\ IsFiniteSet(CutOff) /\ Cardinality(CutOff) \in Nat
           /\ IsFiniteSet(Reprocessed) /\ Cardinality(Reprocessed) \in Nat
           /\ \A o \in Orders : /\ IsFiniteSet(Discarded(o)) /\ Cardinality(Discarded(o)) \in Nat
                                /\ IsFiniteSet(Discarders(o)) /\ Cardinality(Discarders(o)) \in Nat
<1>1. TypeOK /\ CallSteps /\ AnswersFinite
  BY DEF DlqInv
<1>2. Sent \in Nat /\ Processed \in Nat /\ Failures \in Nat /\ faults \in Nat
  BY <1>1, FS_CardinalityType, DlqAssumption DEF AnswersFinite, Sent, Processed, Failures, TypeOK
<1>3. \A S \in SUBSET {k \in Calls : pc[k] # "start"} :
        IsFiniteSet(S) /\ Cardinality(S) \in Nat
  BY <1>1, FS_Subset, FS_CardinalityType DEF AnswersFinite
<1>4. Acking \subseteq {k \in Calls : pc[k] # "start"}
  BY DEF Acking, Reprocessing
<1>5. CutOff \subseteq {k \in Calls : pc[k] # "start"}
  BY DEF CutOff, Reprocessing
<1>6. \A o \in Orders : Discarders(o) \subseteq {k \in Calls : pc[k] # "start"}
  BY <1>1 DEF Discarders, CallSteps, TypeOK
<1>7. IsFiniteSet(Reprocessed) /\ Cardinality(Reprocessed) \in Nat
  BY MessageSets DEF Reprocessed
<1>8. \A o \in Orders : IsFiniteSet(Discarded(o)) /\ Cardinality(Discarded(o)) \in Nat
  BY MessageSets DEF Discarded
<1> QED BY <1>2, <1>3, <1>4, <1>5, <1>6, <1>7, <1>8

\* One step begins one call at most.
LEMMA BegunFinite ==
    ASSUME DlqInv, Next PROVE IsFiniteSet({k \in Calls : pc'[k] # "start"})
<1> DEFINE Begun == {k \in Calls : pc[k] # "start"}
<1>1. TypeOK /\ IsFiniteSet(Begun)
  BY DEF DlqInv, AnswersFinite
<1>2. ASSUME NEW k \in Calls, NEW kd \in Kinds, NEW o \in Orders, StartCall(k, kd, o)
      PROVE  Begun' \subseteq Begun \cup {k}
  BY <1>1, <1>2 DEF StartCall, Goto, TypeOK
<1>3. CASE ~\E k \in Calls, kd \in Kinds, o \in Orders : StartCall(k, kd, o)
  <2>1. ASSUME LoseChannel \/ \E k \in Calls : LoseAck(k) PROVE Begun' \subseteq Begun
    BY <2>1, LostSteps
  <2>2. ASSUME PurgeAll \/ \E o \in Orders \cup {Garbage} : DeadLetter(o)
        PROVE  Begun' \subseteq Begun
    BY <2>2 DEF PurgeAll, DeadLetter
  <2>3. ASSUME NEW k \in Calls, Proceed(k) \/ PublishFails(k) PROVE Begun' \subseteq Begun
    BY <1>1, <2>3 DEF Proceed, Get, EndLoop, PutBack, Unreadable, Discard, DiscardsNow, Publish,
                      PublishFails, Reprocesses, Ack, Catch, Goto, TypeOK
  <2>4. Begun' \subseteq Begun
    BY <1>3, <2>1, <2>2, <2>3 DEF Next
  <2> QED BY <1>1, <2>4, FS_Subset
<1>4. ASSUME NEW k \in Calls PROVE IsFiniteSet(Begun \cup {k})
  BY <1>1, FS_AddElement
<1> QED BY <1>2, <1>3, <1>4, FS_Subset

\* A step that discards nothing and counts no discard.
LEMMA DiscardsFrame ==
    ASSUME DlqInv, faults' \in Nat, faults <= faults',
           \A o \in Orders : Discarded(o)' = Discarded(o) /\ Discarders(o)' = Discarders(o)
    PROVE  DiscardsAddUp'
  BY Counts DEF DlqInv, AnswersAddUp, DiscardsAddUp

\* A message discarded is one more call that says so; an ack lost with the channel
\* is one more fault.
LEMMA DiscardsPart ==
    ASSUME DlqInv, Next PROVE DiscardsAddUp'
<1>1. TypeOK /\ CallSteps /\ DiscardsAddUp /\ faults \in Nat
  BY Counts DEF DlqInv, AnswersAddUp
<1>2. ASSUME NEW k \in Calls, Discard(k) \/ (DiscardsNow(k) /\ LoseAck(k))
      PROVE  DiscardsAddUp'
  <2> DEFINE m == got[k]
  <2>1. /\ removed[k] = 0 /\ kind[k] = "discard" /\ target[k] \in Orders \cup {NoOrder}
        /\ m \in Msgs /\ at[m] = "got" /\ msgOrder[m] = target[k]
    BY <1>1, <1>2, HandledMessage DEF CallSteps, Discard, DiscardsNow, Matches, TypeOK
  <2>2. /\ \A j \in Calls : removed'[j] = IF j = k THEN 1 ELSE removed[j]
        /\ UNCHANGED <<msgOrder, kind, target>>
    BY <1>1, <1>2, <2>1 DEF Discard, LoseAck, Counted, TypeOK
  <2>3. ASSUME NEW o \in Orders
        PROVE  /\ Cardinality(Discarders(o)') =
                    Cardinality(Discarders(o)) + IF o = target[k] THEN 1 ELSE 0
    <3>1. CASE o = target[k]
      <4>1. Discarders(o)' = Discarders(o) \cup {k} /\ k \notin Discarders(o)
        BY <2>1, <2>2, <3>1 DEF Discarders
      <4> QED BY <3>1, <4>1, Counts, FS_AddElement
    <3>2. CASE o # target[k]
      <4>1. Discarders(o)' = Discarders(o)
        BY <2>1, <2>2, <3>2 DEF Discarders
      <4> QED BY <3>2, <4>1, Counts
    <3> QED BY <3>1, <3>2
  <2>4. CASE Discard(k)
    <3>1. /\ \A n \in Msgs : at'[n] = IF n = m THEN "discarded" ELSE at[n]
          /\ UNCHANGED faults
      BY <1>1, <2>1, <2>4 DEF Discard, Release, TypeOK
    <3>2. ASSUME NEW o \in Orders
          PROVE  Cardinality(Discarded(o)') =
                   Cardinality(Discarded(o)) + IF o = target[k] THEN 1 ELSE 0
      <4>1. CASE o = target[k]
        <5>1. Discarded(o)' = Discarded(o) \cup {m} /\ m \notin Discarded(o)
          BY <2>1, <2>2, <3>1, <4>1 DEF Discarded
        <5> HIDE DEF m
        <5> QED BY <4>1, <5>1, Counts, FS_AddElement
      <4>2. CASE o # target[k]
        <5>1. Discarded(o)' = Discarded(o)
          BY <2>1, <2>2, <3>1, <4>2 DEF Discarded
        <5> QED BY <4>2, <5>1, Counts
      <4> QED BY <4>1, <4>2
    <3> QED BY <1>1, <2>3, <3>1, <3>2, Counts DEF DiscardsAddUp
  <2>5. CASE DiscardsNow(k) /\ LoseAck(k)
    <3>1. faults' = faults + 1 /\ \A n \in Msgs : at'[n] = "discarded" <=> at[n] = "discarded"
      BY <1>1, <2>5 DEF LoseAck, Returned, TypeOK
    <3>2. \A o \in Orders : Discarded(o)' = Discarded(o)
      BY <2>2, <3>1 DEF Discarded
    <3> QED BY <1>1, <2>3, <3>1, <3>2, Counts DEF DiscardsAddUp
  <2> QED BY <1>2, <2>4, <2>5
<1>3. ASSUME NEW k \in Calls, NEW kd \in Kinds, NEW o \in Orders, StartCall(k, kd, o)
      PROVE  DiscardsAddUp'
  <2>1. removed[k] = 0 /\ UNCHANGED <<at, msgOrder, removed, faults>>
    BY <1>1, <1>3 DEF StartCall, CallSteps, TypeOK
  <2>2. \A j \in Calls : j # k => kind'[j] = kind[j] /\ target'[j] = target[j]
    BY <1>1, <1>3 DEF StartCall, TypeOK
  <2>3. \A p \in Orders : Discarded(p)' = Discarded(p) /\ Discarders(p)' = Discarders(p)
    BY <2>1, <2>2 DEF Discarded, Discarders
  <2> QED BY <1>1, <2>1, <2>3, DiscardsFrame
<1>4. CASE \/ \E o \in Orders \cup {Garbage} : DeadLetter(o)
           \/ PurgeAll \/ LoseChannel
           \/ \E k \in Calls : \/ Get(k) \/ EndLoop(k) \/ PutBack(k) \/ Unreadable(k)
                               \/ PublishFails(k) \/ Publish(k) \/ Ack(k)
                               \/ (pc[k] = "ack" /\ LoseAck(k))
  <2>1. \A n \in Msgs : /\ at'[n] = "discarded" <=> at[n] = "discarded"
                        /\ at[n] = "discarded" => msgOrder'[n] = msgOrder[n]
    <3>1. CASE \E o \in Orders \cup {Garbage} : DeadLetter(o)
      BY <1>1, <3>1 DEF DeadLetter, TypeOK
    <3>2. CASE PurgeAll \/ LoseChannel \/ \E k \in Calls : pc[k] = "ack" /\ LoseAck(k)
      BY <1>1, <3>2 DEF PurgeAll, LoseChannel, LoseAck, Returned, TypeOK
    <3>3. CASE \E k \in Calls : Get(k) \/ EndLoop(k) \/ Publish(k)
      BY <1>1, <3>3 DEF Get, Head, Ready, EndLoop, Publish, TypeOK
    <3>4. ASSUME NEW k \in Calls, PutBack(k) \/ Unreadable(k) \/ PublishFails(k) \/ Ack(k)
          PROVE  \A n \in Msgs : /\ at'[n] = "discarded" <=> at[n] = "discarded"
                                 /\ msgOrder'[n] = msgOrder[n]
      <4>1. pc[k] \in {"handle", "ack"} /\ UNCHANGED msgOrder
        BY <3>4 DEF PutBack, Unreadable, PublishFails, Ack, Reprocesses
      <4>2. \E p \in {"ready", "reprocessed"} : at' = [at EXCEPT ![got[k]] = p]
        BY <3>4 DEF PutBack, Unreadable, PublishFails, Ack, Catch, Release
      <4> QED BY <1>1, <4>1, <4>2, HandledMessage DEF TypeOK
    <3> QED BY <1>4, <3>1, <3>2, <3>3, <3>4
  <2>2. \A j \in Calls : kind[j] = "discard" => removed'[j] = removed[j]
    BY <1>1, <1>4
       DEF DeadLetter, PurgeAll, LoseChannel, Get, EndLoop, PutBack, Unreadable, PublishFails,
           Publish, Ack, LoseAck, Counted, CallSteps, Reprocessing, TypeOK
  <2>3. UNCHANGED <<kind, target>> /\ faults' \in Nat /\ faults <= faults'
    BY <1>1, <1>4
       DEF DeadLetter, PurgeAll, LoseChannel, Get, EndLoop, PutBack, Unreadable, PublishFails,
           Publish, Ack, LoseAck
  <2>4. \A o \in Orders : Discarded(o)' = Discarded(o) /\ Discarders(o)' = Discarders(o)
    BY <2>1, <2>2, <2>3 DEF Discarded, Discarders
  <2> QED BY <2>3, <2>4, DiscardsFrame
<1> QED BY <1>2, <1>3, <1>4 DEF Next, Proceed, LoseAck

-----------------------------------------------------------------------------
(* Copies. *)

\* A step that publishes and counts nothing of it; calls may be cut off by it.
LEMMA CopiesFrame ==
    ASSUME DlqInv, Next, UNCHANGED copies, faults' \in Nat, faults <= faults',
           Reprocessed' = Reprocessed, Acking' \subseteq Acking, CutOff \subseteq CutOff',
           Units(removed', Reprocessing') = Units(removed, Reprocessing),
           Units(failed', Reprocessing') = Units(failed, Reprocessing)
    PROVE  AnswersFinite' /\ CopiesAhead' /\ ReprocessedAddUp' /\ CopiesAddUp'
<1>1. AnswersFinite /\ CopiesAhead /\ ReprocessedAddUp /\ CopiesAddUp
  BY DEF DlqInv, AnswersAddUp
<1>2. IsFiniteSet(CutOff') /\ AnswersFinite'
  <2>1. CutOff' \subseteq {k \in Calls : pc'[k] # "start"}
    BY DEF CutOff, Reprocessing
  <2> QED BY <1>1, <2>1, BegunFinite, FS_Subset DEF AnswersFinite
<1>3. /\ Cardinality(Acking') \in Nat /\ Cardinality(Acking') <= Cardinality(Acking)
      /\ Cardinality(CutOff') \in Nat /\ Cardinality(CutOff) <= Cardinality(CutOff')
  BY <1>2, Counts, FS_Subset, FS_CardinalityType
<1>4. Sent' = Sent /\ Processed' = Processed /\ Failures' = Failures
  BY DEF Sent, Processed, Failures
<1> QED BY <1>1, <1>2, <1>3, <1>4, Counts DEF CopiesAhead, ReprocessedAddUp, CopiesAddUp

\* A call that begins has counted nothing and is not cut off.
LEMMA StartCopies ==
    ASSUME DlqInv, NEW k \in Calls, NEW kd \in Kinds, NEW o \in Orders, StartCall(k, kd, o)
    PROVE  AnswersFinite' /\ CopiesAhead' /\ ReprocessedAddUp' /\ CopiesAddUp'
<1>1. TypeOK /\ CallSteps
  BY DEF DlqInv
<1>2. /\ UNCHANGED <<at, copies, removed, failed, faults>>
      /\ tries[k] = 0 /\ pc[k] = "start"
  BY <1>1 DEF StartCall, CallSteps
<1>3. removed[k] = 0 /\ failed[k] = 0
  <2>1. removed[k] \in Nat /\ failed[k] \in Nat /\ removed[k] + failed[k] <= tries[k]
    BY <1>1 DEF TypeOK
  <2> QED BY <1>2, <2>1
<1>4. \A j \in Calls : /\ pc'[j] = IF j = k THEN "get" ELSE pc[j]
                       /\ j # k => kind'[j] = kind[j]
  BY <1>1 DEF StartCall, Goto, TypeOK
<1>5. \A x \in (Reprocessing \ Reprocessing') \cup (Reprocessing' \ Reprocessing) : x = k
  BY <1>4 DEF Reprocessing
<1>6. /\ Units(removed, Reprocessing') = Units(removed, Reprocessing)
      /\ Units(failed, Reprocessing') = Units(failed, Reprocessing)
  BY <1>3, <1>5, UnitsSame
<1>7. Reprocessed' = Reprocessed
  BY <1>2 DEF Reprocessed
<1>8. Acking' \subseteq Acking /\ CutOff \subseteq CutOff'
  BY <1>2, <1>4 DEF Acking, CutOff, Reprocessing
<1>9. Next
  BY DEF Next
<1>10. faults \in Nat
  BY Counts
<1> QED BY <1>2, <1>6, <1>7, <1>8, <1>9, <1>10, CopiesFrame

\* A copy published is of a call that now is cut off until its ack.
LEMMA PublishCopies ==
    ASSUME DlqInv, NEW k \in Calls, Publish(k)
    PROVE  AnswersFinite' /\ CopiesAhead' /\ ReprocessedAddUp' /\ CopiesAddUp'
<1>1. /\ TypeOK /\ AnswersFinite /\ CopiesAhead /\ ReprocessedAddUp /\ CopiesAddUp
      /\ pc[k] = "handle" /\ k \in Reprocessing /\ got[k] \in Msgs /\ Next
  BY HandledMessage DEF DlqInv, AnswersAddUp, Publish, Reprocesses, Reprocessing, Next, Proceed
<1>2. /\ UNCHANGED <<at, kind, removed, failed, faults>>
      /\ \A j \in Calls : pc'[j] = IF j = k THEN "ack" ELSE pc[j]
      /\ copies \in [Msgs -> Nat] /\ Msgs \in SUBSET Msgs
      /\ copies' = [copies EXCEPT ![got[k]] = copies[got[k]] + 1]
  BY <1>1 DEF Publish, Published, Goto, TypeOK
<1>3. IsFiniteSet(Units(copies', Msgs)) /\ Sent' = Sent + 1
  BY <1>1, <1>2, UnitsAdd DEF AnswersFinite, Sent
<1>4. /\ Reprocessing' = Reprocessing /\ Reprocessed' = Reprocessed
      /\ Processed' = Processed /\ Failures' = Failures
  BY <1>2 DEF Reprocessing, Reprocessed, Processed, Failures
<1>5. /\ Acking' = Acking \cup {k} /\ k \notin Acking
      /\ CutOff' = CutOff \cup {k} /\ k \notin CutOff
  BY <1>1, <1>2, <1>4 DEF Acking, CutOff, Reprocessing
<1>6. /\ Cardinality(Acking') = Cardinality(Acking) + 1
      /\ Cardinality(CutOff') = Cardinality(CutOff) + 1
  BY <1>5, Counts, FS_AddElement
<1>7. AnswersFinite'
  BY <1>1, <1>2, <1>3, <1>4, BegunFinite DEF AnswersFinite
<1> QED BY <1>1, <1>2, <1>3, <1>4, <1>6, <1>7, Counts
        DEF CopiesAhead, ReprocessedAddUp, CopiesAddUp

\* What the catch block counts as failed has left a copy or none.
LEMMA CatchCopies ==
    ASSUME DlqInv, NEW k \in Calls, Unreadable(k) \/ PublishFails(k)
    PROVE  AnswersFinite' /\ CopiesAhead' /\ ReprocessedAddUp' /\ CopiesAddUp'
<1>1. /\ TypeOK /\ AnswersFinite /\ CopiesAhead /\ ReprocessedAddUp /\ CopiesAddUp
      /\ pc[k] = "handle" /\ got[k] \in Msgs /\ at[got[k]] = "got"
      /\ Next /\ faults \in Nat
  BY HandledMessage, Counts
     DEF DlqInv, AnswersAddUp, Unreadable, PublishFails, Reprocesses, Next, Proceed
<1>2. /\ UNCHANGED <<kind, removed>> /\ faults' \in Nat /\ faults <= faults'
      /\ \A j \in Calls : pc'[j] = IF j = k THEN "get" ELSE pc[j]
      /\ failed \in [Calls -> Nat] /\ Reprocessing \in SUBSET Calls
      /\ failed' = [failed EXCEPT ![k] = failed[k] + 1]
      /\ at' = [at EXCEPT ![got[k]] = "ready"]
  <2>1. Catch(k) /\ UNCHANGED <<kind, removed>> /\ faults' \in Nat /\ faults <= faults'
    BY <1>1 DEF Unreadable, PublishFails
  <2>2. failed \in [Calls -> Nat] /\ pc \in [Calls -> {"start", "get", "handle", "ack", "ended", "error"}]
    BY <1>1 DEF TypeOK
  <2> QED BY <2>1, <2>2 DEF Catch, Release, Goto, Reprocessing
<1>3. /\ Reprocessing' = Reprocessing /\ Reprocessed' = Reprocessed
      /\ Acking' = Acking /\ CutOff' = CutOff /\ Processed' = Processed
      /\ Units(removed', Reprocessing') = Units(removed, Reprocessing)
  BY <1>1, <1>2 DEF Reprocessing, Reprocessed, Acking, CutOff, Processed, TypeOK
<1>4. CASE k \in Reprocessing
  <2>1. IsFiniteSet(Units(failed', Reprocessing)) /\ Failures' = Failures + 1
    BY <1>1, <1>2, <1>3, <1>4, UnitsAdd DEF AnswersFinite, Failures
  <2>2. /\ IsFiniteSet(Units(copies', Msgs))
        /\ Sent' \in Nat /\ Sent <= Sent' /\ Sent' <= Sent + 1
    <3>1. CASE UNCHANGED copies
      BY <1>1, <3>1, Counts DEF AnswersFinite, Sent
    <3>2. CASE Published(k)
      <4>1. copies \in [Msgs -> Nat] /\ copies' = [copies EXCEPT ![got[k]] = copies[got[k]] + 1]
        BY <1>1, <3>2 DEF Published, TypeOK
      <4>2. IsFiniteSet(Units(copies', Msgs)) /\ Sent' = Sent + 1
        BY <1>1, <4>1, UnitsAdd DEF AnswersFinite, Sent
      <4> QED BY <4>2, Counts
    <3> QED BY <3>1, <3>2 DEF Unreadable, PublishFails
  <2>3. AnswersFinite'
    BY <1>1, <1>3, <2>1, <2>2, BegunFinite DEF AnswersFinite
  <2> QED BY <1>1, <1>2, <1>3, <2>1, <2>2, <2>3, Counts
          DEF CopiesAhead, ReprocessedAddUp, CopiesAddUp
<1>5. CASE k \notin Reprocessing
  <2>1. UNCHANGED copies
    BY <1>5 DEF Unreadable, PublishFails, Reprocesses, Reprocessing
  <2>2. \A x \in Reprocessing : failed'[x] = failed[x]
    BY <1>2, <1>5
  <2>3. Units(failed', Reprocessing') = Units(failed, Reprocessing)
    BY <1>3, <2>2, UnitsSame
  <2> QED BY <1>1, <1>2, <1>3, <2>1, <2>3, CopiesFrame
<1> QED BY <1>4, <1>5

\* A message counted as processed was published before, whether the broker sees
\* its ack or not.
LEMMA AckCopies ==
    ASSUME DlqInv, NEW k \in Calls, Ack(k) \/ (pc[k] = "ack" /\ LoseAck(k))
    PROVE  AnswersFinite' /\ CopiesAhead' /\ ReprocessedAddUp' /\ CopiesAddUp'
<1>1. /\ TypeOK /\ AnswersFinite /\ CopiesAhead /\ ReprocessedAddUp /\ CopiesAddUp
      /\ pc[k] = "ack" /\ k \in Reprocessing /\ got[k] \in Msgs /\ at[got[k]] = "got"
      /\ Next
  BY HandledMessage DEF DlqInv, CallSteps, AnswersAddUp, Ack, Next, Proceed
<1>2. /\ UNCHANGED <<copies, kind, failed>>
      /\ removed \in [Calls -> Nat] /\ Reprocessing \in SUBSET Calls
      /\ removed' = [removed EXCEPT ![k] = removed[k] + 1]
  BY <1>1 DEF Ack, LoseAck, Counted, TypeOK, Reprocessing
<1>3. Reprocessing' = Reprocessing /\ Sent' = Sent /\ Failures' = Failures
  BY <1>2 DEF Reprocessing, Sent, Failures
<1>4. IsFiniteSet(Units(removed', Reprocessing)) /\ Processed' = Processed + 1
  BY <1>1, <1>2, <1>3, UnitsAdd DEF AnswersFinite, Processed
<1>5. AnswersFinite'
  BY <1>1, <1>2, <1>3, <1>4, BegunFinite DEF AnswersFinite
<1>6. /\ IsFiniteSet(Acking') /\ IsFiniteSet(CutOff')
      /\ Cardinality(Acking') \in Nat /\ Cardinality(CutOff') \in Nat
  <2>1. /\ Acking' \subseteq {j \in Calls : pc'[j] # "start"}
        /\ CutOff' \subseteq {j \in Calls : pc'[j] # "start"}
    BY DEF Acking, CutOff, Reprocessing
  <2> QED BY <1>1, <2>1, BegunFinite, FS_Subset, FS_CardinalityType
<1>7. \A j \in Calls : j # k /\ pc[j] \in {"ack", "error"} => pc'[j] \in {"ack", "error"}
  BY <1>1 DEF Ack, LoseAck, Goto, Running, TypeOK
<1>8. \A j \in Calls : pc'[j] = "ack" => pc[j] = "ack" /\ j # k
  <2>1. CASE Ack(k)
    BY <1>1, <2>1 DEF Ack, Goto, TypeOK
  <2>2. CASE LoseAck(k)
    BY <2>2, LostSteps
  <2> QED BY <2>1, <2>2
<1>9. /\ Acking' \cup {k} \subseteq Acking /\ k \notin Acking' /\ k \in CutOff
      /\ CutOff \subseteq CutOff' \cup {k}
  BY <1>1, <1>3, <1>7, <1>8 DEF Acking, CutOff, Reprocessing
<1>10. Cardinality(Acking') + 1 <= Cardinality(Acking)
  <2>1. Cardinality(Acking' \cup {k}) = Cardinality(Acking') + 1
    BY <1>6, <1>9, FS_AddElement
  <2>2. Cardinality(Acking' \cup {k}) <= Cardinality(Acking)
    BY <1>9, Counts, FS_Subset
  <2> QED BY <2>1, <2>2
<1>11. Cardinality(CutOff) <= Cardinality(CutOff') + 1
  <2>1. IsFiniteSet(CutOff' \cup {k}) /\ Cardinality(CutOff' \cup {k}) <= Cardinality(CutOff') + 1
    BY <1>6, OneMore
  <2>2. Cardinality(CutOff) <= Cardinality(CutOff' \cup {k})
    BY <1>9, <2>1, FS_Subset
  <2>3. Cardinality(CutOff' \cup {k}) \in Nat
    BY <2>1, FS_CardinalityType
  <2> QED BY <1>6, <2>1, <2>2, <2>3, Counts
<1>12. CopiesAhead' /\ CopiesAddUp'
  BY <1>1, <1>3, <1>4, <1>6, <1>10, <1>11, Counts DEF CopiesAhead, CopiesAddUp
<1>13. ReprocessedAddUp'
  <2>1. CASE Ack(k)
    <3>1. /\ at' = [at EXCEPT ![got[k]] = "reprocessed"] /\ UNCHANGED faults
          /\ at \in [Msgs -> Places]
      BY <1>1, <2>1 DEF Ack, Release, TypeOK
    <3> DEFINE m == got[k]
    <3>2. Reprocessed' = Reprocessed \cup {m} /\ m \notin Reprocessed
      BY <1>1, <3>1 DEF Reprocessed
    <3> HIDE DEF m
    <3>3. Cardinality(Reprocessed') = Cardinality(Reprocessed) + 1
      BY <3>2, Counts, FS_AddElement
    <3> QED BY <1>1, <1>4, <3>1, <3>3, Counts DEF ReprocessedAddUp
  <2>2. CASE LoseAck(k)
    <3>1. /\ faults' = faults + 1
          /\ \A n \in Msgs : at'[n] = "reprocessed" <=> at[n] = "reprocessed"
      BY <1>1, <2>2 DEF LoseAck, Returned, TypeOK
    <3>2. Reprocessed' = Reprocessed
      BY <3>1 DEF Reprocessed
    <3> QED BY <1>1, <1>4, <3>1, <3>2, Counts DEF ReprocessedAddUp
  <2> QED BY <2>1, <2>2
<1> QED BY <1>5, <1>12, <1>13

LEMMA CopiesPart ==
    ASSUME DlqInv, Next
    PROVE  AnswersFinite' /\ CopiesAhead' /\ ReprocessedAddUp' /\ CopiesAddUp'
<1>1. TypeOK /\ faults \in Nat
  BY Counts DEF DlqInv
<1>2. CASE \/ \E o \in Orders \cup {Garbage} : DeadLetter(o)
           \/ PurgeAll \/ LoseChannel
           \/ \E k \in Calls : \/ Get(k) \/ EndLoop(k) \/ PutBack(k) \/ Discard(k)
                               \/ (DiscardsNow(k) /\ LoseAck(k))
  <2>1. \A n \in Msgs : at'[n] = "reprocessed" <=> at[n] = "reprocessed"
    <3>1. CASE \E o \in Orders \cup {Garbage} : DeadLetter(o)
      BY <1>1, <3>1 DEF DeadLetter, TypeOK
    <3>2. CASE PurgeAll \/ LoseChannel \/ \E k \in Calls : LoseAck(k)
      BY <1>1, <3>2 DEF PurgeAll, LoseChannel, LoseAck, Returned, TypeOK
    <3>3. CASE \E k \in Calls : Get(k) \/ EndLoop(k)
      BY <1>1, <3>3 DEF Get, Head, Ready, EndLoop, TypeOK
    <3>4. ASSUME NEW k \in Calls, PutBack(k) \/ Discard(k)
          PROVE  \A n \in Msgs : at'[n] = "reprocessed" <=> at[n] = "reprocessed"
      <4>1. pc[k] = "handle" /\ \E p \in {"ready", "discarded"} : at' = [at EXCEPT ![got[k]] = p]
        BY <3>4 DEF PutBack, Discard, DiscardsNow, Release
      <4> QED BY <1>1, <4>1, HandledMessage DEF TypeOK
    <3> QED BY <1>2, <3>1, <3>2, <3>3, <3>4
  <2>2. /\ UNCHANGED <<copies, kind, failed>> /\ faults' \in Nat /\ faults <= faults'
        /\ \A j \in Reprocessing : removed'[j] = removed[j]
    <3>1. removed \in [Calls -> Nat] /\ Reprocessing \subseteq Calls
      BY <1>1 DEF TypeOK, Reprocessing
    <3>2. ASSUME NEW k \in Calls, kind[k] = "discard", Counted(k)
          PROVE  \A j \in Reprocessing : removed'[j] = removed[j]
      BY <3>1, <3>2 DEF Counted, Reprocessing
    <3>3. \/ UNCHANGED removed
          \/ \E k \in Calls : kind[k] = "discard" /\ Counted(k)
      BY <1>2 DEF DeadLetter, PurgeAll, LoseChannel, Get, EndLoop, PutBack, Discard,
                  DiscardsNow, LoseAck
    <3>4. /\ UNCHANGED <<copies, kind, failed>>
          /\ UNCHANGED faults \/ faults' = faults + 1
      BY <1>2 DEF DeadLetter, PurgeAll, LoseChannel, Get, EndLoop, PutBack, Discard, LoseAck
    <3> QED BY <1>1, <3>1, <3>2, <3>3, <3>4
  <2>3. \A j \in Reprocessing : /\ pc'[j] = "ack" => pc[j] = "ack"
                                /\ pc[j] \in {"ack", "error"} => pc'[j] \in {"ack", "error"}
    <3>1. pc \in [Calls -> {"start", "get", "handle", "ack", "ended", "error"}]
      BY <1>1 DEF TypeOK
    <3>2. CASE UNCHANGED pc
      BY <3>2
    <3>3. CASE \E k \in Calls : /\ pc[k] \in {"get", "handle"}
                               /\ \E s \in {"get", "handle", "ended"} : Goto(k, s)
      BY <3>1, <3>3 DEF Goto
    <3>4. CASE LoseChannel
      BY <3>1, <3>4 DEF LoseChannel, Running, Reprocessing
    <3>5. CASE \E k \in Calls : DiscardsNow(k) /\ LoseAck(k)
      BY <3>1, <3>5 DEF LoseAck, DiscardsNow, Running, Reprocessing
    <3> QED BY <1>2, <3>2, <3>3, <3>4, <3>5
            DEF DeadLetter, PurgeAll, Get, EndLoop, PutBack, Discard, DiscardsNow
  <2>4. Reprocessing' = Reprocessing /\ Reprocessed' = Reprocessed
    BY <2>1, <2>2 DEF Reprocessing, Reprocessed
  <2>5. Acking' \subseteq Acking /\ CutOff \subseteq CutOff'
    BY <2>3, <2>4 DEF Acking, CutOff
  <2>6. /\ Units(removed', Reprocessing') = Units(removed, Reprocessing)
        /\ Units(failed', Reprocessing') = Units(failed, Reprocessing)
    BY <2>2, <2>4, UnitsSame
  <2> QED BY <2>2, <2>4, <2>5, <2>6, CopiesFrame
<1> QED BY <1>2, StartCopies, PublishCopies, CatchCopies, AckCopies
        DEF Next, Proceed, LoseAck

\* An ack comes after the publish of a copy.
LEMMA CopiedPart ==
    ASSUME DlqInv, Next PROVE ReprocessedAreCopied'
<1>1. TypeOK /\ CallSteps /\ ReprocessedAreCopied /\ TypeOK'
  BY TypePart DEF DlqInv, AnswersAddUp
<1>2. \A m \in Msgs : copies[m] > 0 => copies'[m] > 0
  <2>1. ASSUME NEW k \in Calls, Publish(k) \/ PublishFails(k)
        PROVE  UNCHANGED copies \/ (got[k] \in Msgs /\ Published(k))
    BY <2>1, HandledMessage DEF Publish, PublishFails, Reprocesses
  <2>2. ASSUME NEW k \in Calls, got[k] \in Msgs, Published(k)
        PROVE  \A m \in Msgs : copies[m] > 0 => copies'[m] > 0
    <3>1. copies \in [Msgs -> Nat] /\ copies' = [copies EXCEPT ![got[k]] = copies[got[k]] + 1]
      BY <1>1, <2>2 DEF Published, TypeOK
    <3> QED BY <3>1
  <2>3. CASE UNCHANGED copies
    BY <2>3
  <2> QED BY <2>1, <2>2, <2>3
          DEF Next, Proceed, DeadLetter, StartCall, Get, EndLoop, PutBack, Unreadable, Discard,
              Ack, LoseAck, PurgeAll, LoseChannel
<1>3. ASSUME NEW m \in Msgs, at'[m] = "reprocessed"
      PROVE  at[m] = "reprocessed" \/ \E k \in Calls : pc[k] = "ack" /\ got[k] = m
  <2>1. CASE \E o \in Orders \cup {Garbage} : DeadLetter(o)
    BY <1>1, <1>3, <2>1 DEF DeadLetter, TypeOK
  <2>2. CASE PurgeAll \/ LoseChannel \/ \E k \in Calls : LoseAck(k)
    BY <1>1, <1>3, <2>2 DEF PurgeAll, LoseChannel, LoseAck, Returned, TypeOK
  <2>3. CASE \E k \in Calls : Get(k) \/ EndLoop(k) \/ Publish(k)
    BY <1>1, <1>3, <2>3 DEF Get, EndLoop, Publish, TypeOK
  <2>4. CASE \E k \in Calls, kd \in Kinds, o \in Orders : StartCall(k, kd, o)
    BY <1>3, <2>4 DEF StartCall
  <2>5. CASE \E k \in Calls : PutBack(k) \/ Unreadable(k) \/ Discard(k) \/ PublishFails(k)
    BY <1>1, <1>3, <2>5 DEF PutBack, Unreadable, Discard, PublishFails, Catch, Release, TypeOK
  <2>6. CASE \E k \in Calls : Ack(k)
    BY <1>1, <1>3, <2>6 DEF Ack, Release, TypeOK
  <2> QED BY <2>1, <2>2, <2>3, <2>4, <2>5, <2>6 DEF Next, Proceed
<1> QED BY <1>1, <1>2, <1>3 DEF ReprocessedAreCopied, CallSteps

LEMMA AnswersPart ==
    ASSUME DlqInv, Next PROVE AnswersFinite' /\ CopiesAhead' /\ AnswersAddUp'
  BY DiscardsPart, CopiesPart, CopiedPart DEF AnswersAddUp

-----------------------------------------------------------------------------
(* The theorems. *)

LEMMA DlqInit == Init => DlqInv
<1> SUFFICES ASSUME Init PROVE DlqInv
  OBVIOUS
<1>1. TypeOK
  BY DlqAssumption DEF Init, TypeOK, Places
<1>2. OutMeansHandled
  BY MessageSets, DlqAssumption DEF Init, OutMeansHandled
<1>3. CallSteps
  BY DEF Init, CallSteps
<1>4. /\ \A o \in Orders : Discarders(o) = {} /\ Discarded(o) = {}
      /\ Reprocessed = {} /\ Acking = {} /\ CutOff = {}
      /\ {k \in Calls : pc[k] # "start"} = {}
      /\ faults = 0
  BY DEF Init, Discarders, Discarded, Reprocessed, Acking, CutOff, Reprocessing
<1>5. /\ Units(removed, Reprocessing) = {} /\ Units(failed, Reprocessing) = {}
      /\ Units(copies, Msgs) = {}
  BY NoUnits DEF Init, Reprocessing
<1>6. AnswersFinite
  BY <1>4, <1>5, FS_EmptySet DEF AnswersFinite
<1>7. Sent = 0 /\ Processed = 0 /\ Failures = 0
  BY <1>5, FS_EmptySet DEF Sent, Processed, Failures
<1>8. CopiesAhead /\ AnswersAddUp
  BY <1>4, <1>7, FS_EmptySet
     DEF CopiesAhead, AnswersAddUp, DiscardsAddUp, ReprocessedAddUp, CopiesAddUp,
         ReprocessedAreCopied, Reprocessed
<1> QED BY <1>1, <1>2, <1>3, <1>6, <1>8 DEF DlqInv

LEMMA DlqStutter == ASSUME DlqInv, UNCHANGED dlqVars PROVE DlqInv'
<1>1. TypeOK' /\ OutMeansHandled' /\ CallSteps'
  BY DEF DlqInv, dlqVars, TypeOK, OutMeansHandled, CallSteps, Reprocessing
<1>2. /\ \A o \in Orders : Discarders(o)' = Discarders(o) /\ Discarded(o)' = Discarded(o)
      /\ Reprocessing' = Reprocessing /\ Reprocessed' = Reprocessed
      /\ Acking' = Acking /\ CutOff' = CutOff
      /\ Sent' = Sent /\ Processed' = Processed /\ Failures' = Failures
  BY DEF dlqVars, Discarders, Discarded, Reprocessing, Reprocessed, Acking, CutOff, Sent,
         Processed, Failures
<1>3. AnswersFinite' /\ CopiesAhead' /\ AnswersAddUp'
  BY <1>2 DEF DlqInv, dlqVars, AnswersFinite, CopiesAhead, AnswersAddUp, DiscardsAddUp,
              ReprocessedAddUp, CopiesAddUp, ReprocessedAreCopied
<1> QED BY <1>1, <1>3 DEF DlqInv

\* The invariant of the DLQ, of which the theorems below are parts: every step
\* of a call, of another call between two of its steps, of the consumer that
\* dead-letters, of a purge and of a lost channel keeps it.
THEOREM DlqInvariance == Spec => []DlqInv
<1>1. DlqInv /\ Next => DlqInv'
  BY TypePart, OutPart, AnswersPart DEF DlqInv
<1>2. DlqInv /\ [Next]_dlqVars => DlqInv'
  BY <1>1, DlqStutter
<1> QED BY <1>2, DlqInit, PTL DEF Spec

\* Every variable has its type, and no call takes more messages than its loop
\* has turns (DlqService).
THEOREM DlqTypes == Spec => []TypeOK
<1>1. DlqInv => TypeOK
  BY DEF DlqInv
<1> QED BY <1>1, DlqInvariance, PTL

\* However the calls interleave, end early or lose their channel, a message is
\* out exactly while one running call handles it (DlqService.reprocessMessage,
\* reprocessAll, peekMessages, discardMessage).
THEOREM NoneHidden == Spec => []OutMeansHandled
<1>1. DlqInv => OutMeansHandled
  BY DEF DlqInv
<1> QED BY <1>1, DlqInvariance, PTL

\* For every order and any number of calls, whatever fails between a publish and
\* its ack: what the calls count is what left the DLQ, but for the acks that lost
\* channels took with them; what they count as processed has a copy in the main
\* queue; and a copy they count neither as processed nor as failed is that of a
\* call that was cut off (DlqService.reprocessMessage, reprocessAll, discardMessage).
THEOREM AnswersTrue == Spec => []AnswersAddUp
<1>1. DlqInv => AnswersAddUp
  BY DEF DlqInv
<1> QED BY <1>1, DlqInvariance, PTL

=============================================================================
