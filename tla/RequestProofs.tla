---------------------------- MODULE RequestProofs ----------------------------
(* The bookkeeping of the build engine, proved for every client.  First the *)
(* inductive invariant and its part on input requests, of which none is     *)
(* lost or counted twice; then tasks and workers: those outstanding are     *)
(* counted exactly, no wakeup is missed and a cycle is looked for only when *)
(* nothing can move.                                                        *)
EXTENDS BuildEngineProofs

-----------------------------------------------------------------------------
(* How the number of a task's requests changes with the lists they are in:  *)
(* the queues of the engine and the lists kept per rule.                    *)

\* Disjoint finite sets.
LEMMA CardinalityOfDisjoint ==
    ASSUME NEW A, NEW B, IsFiniteSet(A), IsFiniteSet(B), A \cap B = {}
    PROVE  Cardinality(A \cup B) = Cardinality(A) + Cardinality(B)
<1>1. Cardinality(A \cup B) =
        Cardinality(A) + Cardinality(B) - Cardinality(A \cap B)
    BY FS_Union, Zenon
<1>2. Cardinality(A \cap B) = 0
    BY FS_EmptySet, Zenon
<1>3. Cardinality(A) \in Nat /\ Cardinality(B) \in Nat
    BY FS_CardinalityType, Zenon
<1>. QED
    BY <1>1, <1>2, <1>3

Positions(t, s) == {n \in DOMAIN s : s[n].task = t}

\* The positions of a task's requests in a queue are finitely many.
LEMMA PositionsFinite ==
    ASSUME NEW S, NEW s \in Seq(S), NEW t
    PROVE  /\ IsFiniteSet(Positions(t, s))
           /\ RequestsOf(t, s) = Cardinality(Positions(t, s))
           /\ RequestsOf(t, s) \in Nat
<1>1. Len(s) \in Nat /\ DOMAIN s = 1..Len(s)
    BY LenProperties, Zenon
<1>2. IsFiniteSet(1..Len(s))
    BY <1>1, FS_Interval
<1>3. Positions(t, s) \in SUBSET (1..Len(s))
    BY <1>1, Zenon DEF Positions
<1>4. IsFiniteSet(Positions(t, s))
    BY <1>2, <1>3, FS_Subset, Zenon
<1>5. RequestsOf(t, s) = Cardinality(Positions(t, s))
    BY Zenon DEF RequestsOf, Positions
<1>. QED
    BY <1>4, <1>5, FS_CardinalityType, Zenon

\* An empty queue holds no request.
LEMMA CountEmpty ==
    ASSUME NEW t
    PROVE  RequestsOf(t, <<>>) = 0
<1>1. Positions(t, <<>>) = {}
    BY DEF Positions
<1>. QED
    BY <1>1, FS_EmptySet, Zenon DEF RequestsOf, Positions

\* Queueing a request counts it for its task.
LEMMA CountAppend ==
    ASSUME NEW S, NEW s \in Seq(S), NEW r \in S, NEW t
    PROVE  RequestsOf(t, Append(s, r)) =
              RequestsOf(t, s) + IF r.task = t THEN 1 ELSE 0
<1>1. /\ Append(s, r) \in Seq(S) /\ Len(Append(s, r)) = Len(s) + 1
      /\ \A i \in 1..Len(s) : Append(s, r)[i] = s[i]
      /\ Append(s, r)[Len(s) + 1] = r
    BY AppendProperties
<1>2. /\ Len(s) \in Nat /\ DOMAIN s = 1..Len(s)
      /\ DOMAIN Append(s, r) = 1..(Len(s) + 1)
    BY <1>1, LenProperties, Zenon
<1>3. Positions(t, Append(s, r)) =
        IF r.task = t THEN Positions(t, s) \cup {Len(s) + 1} ELSE Positions(t, s)
    BY <1>1, <1>2 DEF Positions
<1>4. Len(s) + 1 \notin Positions(t, s)
    BY <1>2 DEF Positions
<1>5. IsFiniteSet(Positions(t, s))
    BY PositionsFinite, Zenon
<1>6. Cardinality(Positions(t, s) \cup {Len(s) + 1}) =
        Cardinality(Positions(t, s)) + 1
    BY <1>4, <1>5, FS_AddElement, Zenon
<1>7. /\ RequestsOf(t, s) = Cardinality(Positions(t, s)) /\ RequestsOf(t, s) \in Nat
      /\ RequestsOf(t, Append(s, r)) = Cardinality(Positions(t, Append(s, r)))
    BY <1>1, PositionsFinite, Zenon
<1>. QED
    BY <1>3, <1>6, <1>7

\* Two queues put together hold the requests of both.
LEMMA CountConcat ==
    ASSUME NEW S, NEW s \in Seq(S), NEW u \in Seq(S), NEW t
    PROVE  RequestsOf(t, s \o u) = RequestsOf(t, s) + RequestsOf(t, u)
<1> DEFINE A == Positions(t, s)
           B == Positions(t, u)
           C == {n \in 1..(Len(s) + Len(u)) : n > Len(s) /\ (s \o u)[n].task = t}
           f == [n \in B |-> n + Len(s)]
<1>1. /\ s \o u \in Seq(S) /\ Len(s \o u) = Len(s) + Len(u)
      /\ \A i \in 1..Len(s) + Len(u) :
            (s \o u)[i] = IF i <= Len(s) THEN s[i] ELSE u[i - Len(s)]
    BY ConcatProperties, Zenon
<1>2. /\ Len(s) \in Nat /\ Len(u) \in Nat
      /\ DOMAIN s = 1..Len(s) /\ DOMAIN u = 1..Len(u)
      /\ DOMAIN (s \o u) = 1..(Len(s) + Len(u))
    BY <1>1, LenProperties, Zenon
<1>3. Positions(t, s \o u) = A \cup C /\ A \cap C = {}
    BY <1>1, <1>2 DEF Positions
<1>4. f \in Bijection(B, C)
  <2>1. f \in [B -> C]
    BY <1>1, <1>2 DEF Positions
  <2>2. \A m, n \in B : f[m] = f[n] => m = n
    BY <1>2 DEF Positions
  <2>3. \A c \in C : \E b \in B : f[b] = c
    <3>1. TAKE c \in C
    <3>2. c - Len(s) \in B /\ (c - Len(s)) + Len(s) = c
        BY <1>1, <1>2 DEF Positions
    <3>. QED
        BY <3>2, Zenon
  <2>. QED
    BY <2>1, <2>2, <2>3, Zenon DEF Bijection, Injection, Surjection, IsInjective
<1>5. IsFiniteSet(A) /\ IsFiniteSet(B)
    BY PositionsFinite, Zenon
<1>6. IsFiniteSet(C) /\ Cardinality(C) = Cardinality(B)
    BY <1>4, <1>5, FS_Bijection, Zenon DEF ExistsBijection
<1>7. Cardinality(A \cup C) = Cardinality(A) + Cardinality(C)
    BY <1>3, <1>5, <1>6, CardinalityOfDisjoint, Zenon
<1>8. /\ RequestsOf(t, s) = Cardinality(A) /\ RequestsOf(t, u) = Cardinality(B)
      /\ RequestsOf(t, s \o u) = Cardinality(Positions(t, s \o u))
    BY <1>1, PositionsFinite, Zenon
<1>. QED
    BY <1>3, <1>6, <1>7, <1>8, Zenon

\* A queue of one request.
LEMMA CountSingle ==
    ASSUME NEW r, NEW t
    PROVE  RequestsOf(t, <<r>>) = IF r.task = t THEN 1 ELSE 0
<1>1. <<>> \in Seq({r}) /\ Append(<<>>, r) = <<r>>
    OBVIOUS
<1>2. RequestsOf(t, Append(<<>>, r)) =
        RequestsOf(t, <<>>) + IF r.task = t THEN 1 ELSE 0
    BY <1>1, CountAppend, Zenon
<1>. QED
    BY <1>1, <1>2, CountEmpty

\* Taking the first request of a queue (inputRequests, readyTaskInfos).
LEMMA CountTail ==
    ASSUME NEW S, NEW s \in Seq(S), s # <<>>, NEW t
    PROVE  RequestsOf(t, Tail(s)) =
              RequestsOf(t, s) - IF Head(s).task = t THEN 1 ELSE 0
<1>1. /\ Head(s) \in S /\ Tail(s) \in Seq(S) /\ <<Head(s)>> \in Seq(S)
      /\ s = <<Head(s)>> \o Tail(s)
    OBVIOUS
<1>2. RequestsOf(t, <<Head(s)>> \o Tail(s)) =
        RequestsOf(t, <<Head(s)>>) + RequestsOf(t, Tail(s))
    BY <1>1, CountConcat, Zenon
<1>3. RequestsOf(t, <<Head(s)>>) = IF Head(s).task = t THEN 1 ELSE 0
    BY CountSingle, Zenon
<1>4. RequestsOf(t, Tail(s)) \in Nat
    BY <1>1, PositionsFinite, Zenon
<1>5. RequestsOf(t, s) = RequestsOf(t, <<Head(s)>>) + RequestsOf(t, Tail(s))
    BY <1>1, <1>2, Zenon
<1>. QED
    BY <1>3, <1>4, <1>5

\* Erasing a request of a queue (breakCycle()).
LEMMA CountErase ==
    ASSUME NEW S, NEW s \in Seq(S), NEW n \in DOMAIN s, NEW t
    PROVE  RequestsOf(t, Erase(s, n)) =
              RequestsOf(t, s) - IF s[n].task = t THEN 1 ELSE 0
<1> DEFINE a == SubSeq(s, 1, n - 1)
           b == SubSeq(s, n + 1, Len(s))
<1>1. Len(s) \in Nat /\ DOMAIN s = 1..Len(s) /\ n \in 1..Len(s) /\ s[n] \in S
    BY LenProperties, Zenon
<1>2. a \in Seq(S) /\ b \in Seq(S) /\ <<s[n]>> \in Seq(S)
    BY <1>1
<1>3. SubSeq(s, n, Len(s)) = <<s[n]>> \o b
  <2>1. Len(s) \in n..Len(s)
    BY <1>1
  <2>. QED
    BY <1>1, <2>1, SubSeqRecursiveFirst, Zenon
<1>4. a \o SubSeq(s, n, Len(s)) = s
  <2>1. /\ 1 \in 1..(Len(s) + 1) /\ n - 1 \in (1 - 1)..Len(s)
        /\ Len(s) \in (n - 1)..Len(s) /\ (n - 1) + 1 = n
    BY <1>1
  <2>2. SubSeq(s, 1, n - 1) \o SubSeq(s, (n - 1) + 1, Len(s)) = SubSeq(s, 1, Len(s))
    BY <2>1, ConcatAdjacentSubSeq, Zenon
  <2>3. SubSeq(s, 1, Len(s)) = s
    BY SubSeqFull, Zenon
  <2>. QED
    BY <2>1, <2>2, <2>3, Zenon
<1> HIDE DEF a, b
<1>5. RequestsOf(t, s) = RequestsOf(t, a) + RequestsOf(t, <<s[n]>> \o b)
  <2>1. <<s[n]>> \o b \in Seq(S) /\ a \o (<<s[n]>> \o b) = s
    BY <1>2, <1>3, <1>4, ConcatProperties, Zenon
  <2>2. RequestsOf(t, a \o (<<s[n]>> \o b)) =
          RequestsOf(t, a) + RequestsOf(t, <<s[n]>> \o b)
    BY <1>2, <2>1, CountConcat, ZenonT(60)
  <2>. QED
    BY <2>1, <2>2, Zenon
<1>6. RequestsOf(t, <<s[n]>> \o b) = RequestsOf(t, <<s[n]>>) + RequestsOf(t, b)
    BY <1>2, CountConcat, Zenon
<1>7. RequestsOf(t, <<s[n]>>) = IF s[n].task = t THEN 1 ELSE 0
    BY CountSingle, Zenon
<1>8. Erase(s, n) = a \o b
    BY Zenon DEF Erase, a, b
<1>9. RequestsOf(t, a \o b) = RequestsOf(t, a) + RequestsOf(t, b)
    BY <1>2, CountConcat, Zenon
<1>10. RequestsOf(t, a) \in Nat /\ RequestsOf(t, b) \in Nat
    BY <1>2, PositionsFinite, Zenon
<1>. QED
    BY <1>5, <1>6, <1>7, <1>8, <1>9, <1>10

\* Taking the last request of a queue (finishedInputRequests).
LEMMA CountFront ==
    ASSUME NEW S, NEW s \in Seq(S), s # <<>>, NEW t
    PROVE  RequestsOf(t, SubSeq(s, 1, Len(s) - 1)) =
              RequestsOf(t, s) - IF s[Len(s)].task = t THEN 1 ELSE 0
<1>1. Len(s) \in Nat \ {0} /\ Len(s) \in DOMAIN s
    BY EmptySeq, LenProperties
<1>2. RequestsOf(t, Erase(s, Len(s))) =
        RequestsOf(t, s) - IF s[Len(s)].task = t THEN 1 ELSE 0
    BY <1>1, CountErase, Zenon
<1>3. SubSeq(s, 1, Len(s) - 1) \in Seq(S)
    BY LastOfSeq, Zenon
<1>4. SubSeq(s, Len(s) + 1, Len(s)) = <<>>
    BY <1>1, SubSeqEmpty
<1>5. Erase(s, Len(s)) = SubSeq(s, 1, Len(s) - 1)
    BY <1>3, <1>4, ConcatEmptySeq, Zenon DEF Erase
<1>. QED
    BY <1>2, <1>5, Zenon

\* The requests made for a list of dependencies are all of the same task.
LEMMA CountRequestsFor ==
    ASSUME NEW deps \in Seq(Dependency), NEW u \in Keys \cup {NoKey}, NEW t
    PROVE  RequestsOf(t, InputRequestsFor(u, deps)) = IF u = t THEN Len(deps) ELSE 0
<1>1. Len(deps) \in Nat /\ DOMAIN InputRequestsFor(u, deps) = 1..Len(deps)
    BY LenProperties, Zenon DEF InputRequestsFor
<1>2. \A n \in 1..Len(deps) : InputRequestsFor(u, deps)[n].task = u
    BY Zenon DEF InputRequestsFor
<1>3. Positions(t, InputRequestsFor(u, deps)) = IF u = t THEN 1..Len(deps) ELSE {}
    BY <1>1, <1>2, Zenon DEF Positions
<1>4. Cardinality(1..Len(deps)) = Len(deps)
  <2>1. Cardinality(1..Len(deps)) = IF 1 > Len(deps) THEN 0 ELSE Len(deps) - 1 + 1
    BY ONLY <1>1, FS_Interval
  <2>. QED
    BY ONLY <1>1, <2>1
<1>5. RequestsOf(t, InputRequestsFor(u, deps)) =
        Cardinality(Positions(t, InputRequestsFor(u, deps)))
    BY Zenon DEF RequestsOf, Positions
<1>6. Cardinality({}) = 0
    BY FS_EmptySet, Zenon
<1>. QED
    BY <1>3, <1>4, <1>5, <1>6, Zenon

\* Where the requests of a task are in the lists kept per rule.
Held(t, holder) ==
    {h \in UNION {{i} \X DOMAIN holder[i] : i \in Keys} :
        holder[h[1]][h[2]].task = t}

\* They are finitely many, as there are finitely many rules.
LEMMA HeldFinite ==
    ASSUME NEW S, NEW holder \in [Keys -> Seq(S)], NEW t
    PROVE  /\ IsFiniteSet(Held(t, holder))
           /\ RequestsHeld(t, holder) = Cardinality(Held(t, holder))
           /\ RequestsHeld(t, holder) \in Nat
<1> DEFINE cells == [i \in Keys |-> {i} \X DOMAIN holder[i]]
           lists == {{i} \X DOMAIN holder[i] : i \in Keys}
<1>1. \A i \in Keys : IsFiniteSet({i} \X DOMAIN holder[i])
  <2>1. TAKE i \in Keys
  <2>2. holder[i] \in Seq(S)
    BY Zenon
  <2>3. Len(holder[i]) \in Nat /\ DOMAIN holder[i] = 1..Len(holder[i])
    BY <2>2, LenProperties, Zenon
  <2>4. IsFiniteSet(DOMAIN holder[i])
    BY <2>3, FS_Interval
  <2>5. IsFiniteSet({i})
    BY FS_Singleton, Zenon
  <2>. QED
    BY <2>4, <2>5, FS_Product, Zenon
<1>2. cells \in Surjection(Keys, lists)
    BY Zenon DEF Surjection
<1>3. IsFiniteSet(lists)
    BY <1>2, BoundsAssumption, FS_Surjection, Zenon
<1>4. IsFiniteSet(UNION lists)
    BY <1>1, <1>3, FS_UNION, Zenon
<1>5. Held(t, holder) \in SUBSET UNION lists
    BY Zenon DEF Held
<1>6. IsFiniteSet(Held(t, holder))
    BY <1>4, <1>5, FS_Subset, Zenon
<1>7. RequestsHeld(t, holder) = Cardinality(Held(t, holder))
    BY Zenon DEF RequestsHeld, Held
<1>. QED
    BY <1>6, <1>7, FS_CardinalityType, Zenon

\* Nothing is held in empty lists.
LEMMA HeldEmpty ==
    ASSUME NEW t
    PROVE  RequestsHeld(t, [k \in Keys |-> <<>>]) = 0
<1>1. Held(t, [k \in Keys |-> <<>>]) = {}
    BY DEF Held
<1>. QED
    BY <1>1, FS_EmptySet, Zenon DEF RequestsHeld, Held

\* The requests held for one rule, and the others.
LEMMA HeldSplit ==
    ASSUME NEW S, NEW holder \in [Keys -> Seq(S)], NEW i \in Keys, NEW t
    PROVE  LET rest == {h \in Held(t, holder) : h[1] # i}
           IN  /\ Cardinality(rest) \in Nat
               /\ RequestsHeld(t, holder) = Cardinality(rest) + RequestsOf(t, holder[i])
<1> DEFINE rest == {h \in Held(t, holder) : h[1] # i}
           here == {h \in Held(t, holder) : h[1] = i}
           B == Positions(t, holder[i])
           f == [n \in B |-> <<i, n>>]
<1>1. IsFiniteSet(Held(t, holder))
    BY HeldFinite, Zenon
<1>2. IsFiniteSet(rest) /\ IsFiniteSet(here)
  <2>1. rest \in SUBSET Held(t, holder) /\ here \in SUBSET Held(t, holder)
    BY Zenon
  <2>. QED
    BY <1>1, <2>1, FS_Subset, Zenon
<1>3. Held(t, holder) = rest \cup here /\ rest \cap here = {}
    BY Zenon
<1>4. holder[i] \in Seq(S)
    BY Zenon
<1>5. f \in Bijection(B, here)
  <2>1. f \in [B -> here]
    <3>1. \A n \in B : <<i, n>> \in here
      <4>1. TAKE n \in B
      <4>2. n \in DOMAIN holder[i] /\ holder[i][n].task = t
        BY Zenon DEF Positions
      <4>3. <<i, n>> \in {i} \X DOMAIN holder[i] /\ <<i, n>>[1] = i /\ <<i, n>>[2] = n
        BY <4>2, Zenon
      <4>4. <<i, n>> \in Held(t, holder)
        BY <4>2, <4>3, Zenon DEF Held
      <4>. QED
        BY <4>3, <4>4, Zenon
    <3>. QED
        BY <3>1, Zenon
  <2>2. \A m, n \in B : f[m] = f[n] => m = n
    BY Zenon
  <2>3. \A c \in here : \E b \in B : f[b] = c
    <3>1. TAKE c \in here
    <3>2. PICK j \in Keys : c \in {j} \X DOMAIN holder[j]
        BY Zenon DEF Held
    <3>3. c[1] = j /\ c[2] \in DOMAIN holder[j] /\ c = <<c[1], c[2]>>
        BY <3>2
    <3>4. c[1] = i /\ holder[c[1]][c[2]].task = t
        BY Zenon DEF Held
    <3>5. c[2] \in B /\ c = <<i, c[2]>>
        BY <3>3, <3>4, Zenon DEF Positions
    <3>. QED
        BY <3>5, Zenon
  <2>. QED
    BY <2>1, <2>2, <2>3, Zenon DEF Bijection, Injection, Surjection, IsInjective
<1>6. IsFiniteSet(B) /\ Cardinality(B) = RequestsOf(t, holder[i])
    BY <1>4, PositionsFinite, Zenon
<1>7. Cardinality(here) = Cardinality(B)
    BY <1>5, <1>6, FS_Bijection, ZenonT(60) DEF ExistsBijection
<1>8. Cardinality(rest \cup here) = Cardinality(rest) + Cardinality(here)
    BY <1>2, <1>3, CardinalityOfDisjoint, Zenon
<1>9. RequestsHeld(t, holder) = Cardinality(Held(t, holder))
    BY HeldFinite, Zenon
<1>10. Cardinality(rest) \in Nat
    BY <1>2, FS_CardinalityType, Zenon
<1>. QED
    BY <1>3, <1>6, <1>7, <1>8, <1>9, <1>10, Zenon

\* Changing the list of one rule changes the count by what that list gains.
LEMMA HeldExcept ==
    ASSUME NEW S, NEW holder \in [Keys -> Seq(S)], NEW other \in [Keys -> Seq(S)],
           NEW i \in Keys, \A j \in Keys : j # i => other[j] = holder[j], NEW t
    PROVE  RequestsHeld(t, other) = RequestsHeld(t, holder)
                - RequestsOf(t, holder[i]) + RequestsOf(t, other[i])
<1> DEFINE rest == {h \in Held(t, holder) : h[1] # i}
           otherRest == {h \in Held(t, other) : h[1] # i}
<1>1. otherRest = rest
    BY DEF Held
<1>2. /\ Cardinality(rest) \in Nat
      /\ RequestsHeld(t, holder) = Cardinality(rest) + RequestsOf(t, holder[i])
    BY HeldSplit, Zenon
<1>3. RequestsHeld(t, other) = Cardinality(otherRest) + RequestsOf(t, other[i])
    BY HeldSplit, Zenon
<1>4. RequestsOf(t, holder[i]) \in Nat /\ RequestsOf(t, other[i]) \in Nat
  <2>1. holder[i] \in Seq(S) /\ other[i] \in Seq(S)
    BY Zenon
  <2>. QED
    BY <2>1, PositionsFinite, Zenon
<1>5. RequestsHeld(t, other) = Cardinality(rest) + RequestsOf(t, other[i])
    BY <1>1, <1>3, Zenon
<1>. QED
    BY <1>2, <1>4, <1>5

\* A request is left with the task, or on the scan record, of rule i.
Leave(holder, i, r) == [holder EXCEPT ![i] = Append(holder[i], r)]

\* It is counted there from then on.
LEMMA HeldLeave ==
    ASSUME NEW S, NEW holder \in [Keys -> Seq(S)], NEW i \in Keys, NEW r \in S,
           NEW t
    PROVE  RequestsHeld(t, Leave(holder, i, r)) =
              RequestsHeld(t, holder) + IF r.task = t THEN 1 ELSE 0
<1> DEFINE new == IF r.task = t THEN 1 ELSE 0
           s == Append(holder[i], r)
           other == Leave(holder, i, r)
<1>1. holder[i] \in Seq(S) /\ s \in Seq(S)
    BY AppendProperties, Zenon
<1>2. RequestsOf(t, s) = RequestsOf(t, holder[i]) + new
    BY <1>1, CountAppend, Zenon
<1>3. RequestsOf(t, holder[i]) \in Nat /\ RequestsHeld(t, holder) \in Nat
    BY <1>1, PositionsFinite, HeldFinite, Zenon
<1>4. new \in Nat
    BY Zenon
<1>5. /\ other \in [Keys -> Seq(S)] /\ other[i] = s
      /\ \A j \in Keys : j # i => other[j] = holder[j]
    BY <1>1, Zenon DEF Leave
<1> HIDE DEF s, new, other
<1>6. RequestsHeld(t, other) =
        RequestsHeld(t, holder) - RequestsOf(t, holder[i]) + RequestsOf(t, other[i])
    BY <1>5, HeldExcept, Zenon
<1>7. RequestsHeld(t, other) = RequestsHeld(t, holder) + new
    BY <1>2, <1>3, <1>4, <1>5, <1>6
<1>. QED
    BY <1>7, Zenon DEF new, other

-----------------------------------------------------------------------------
(* The inductive invariant.                                                *)

Waiting(k) == state[k] = "InProgressWaiting"
Computing(k) == state[k] = "InProgressComputing"

IsDistinct(s) == \A m, n \in DOMAIN s : s[m] = s[n] => m = n

\* The requests of task t that have not been answered, wherever they are.
Pending(t) ==
    RequestsOf(t, inputRequests) + RequestsOf(t, finishedInputRequests)
    + RequestsHeld(t, requestedBy) + RequestsHeld(t, pausedInputRequests)

\* Only a waiting task has requests, and it counts them; it is queued as ready,
\* once, when there are none.
RequestInv ==
    /\ \A t \in Keys : Pending(t) = IF Waiting(t) THEN waitCount[t] ELSE 0
    /\ \A t \in Keys :
          t \in InRange(readyTaskInfos) <=> Waiting(t) /\ waitCount[t] = 0
    /\ IsDistinct(readyTaskInfos)

Cancelling == pc \in {"cancel", "drainWaiting"}

\* The registered tasks are those of the rules in progress, up to the one whose
\* result the database refused.
TaskInv ==
    /\ \A k \in Keys : Waiting(k) \/ Computing(k) => k \in taskInfos
    /\ \A k \in taskInfos : Waiting(k) \/ Computing(k) \/ Cancelling
    /\ pc \in {"idle", "end"} => taskInfos = {}

\* A computing task is with a worker or queued as finished, never both, until a
\* cancellation drains the queue.
WorkerInv ==
    /\ \A k \in executing : Computing(k) /\ k \notin InRange(finishedTaskInfos)
    /\ \A k \in InRange(finishedTaskInfos) : Computing(k)
    /\ \A k \in Keys : Computing(k) =>
          k \in executing \/ k \in InRange(finishedTaskInfos) \/ Cancelling
    /\ IsDistinct(finishedTaskInfos)
    /\ OutstandingAccounted

\* Only an iteration without work finds the queues it has passed empty.
QueueInv ==
    /\ ~didWork =>
          /\ pc \in {"inputs", "finishedInputs", "ready", "finishedTasks"} =>
                ruleInfosToScan = <<>>
          /\ pc \in {"finishedInputs", "ready", "finishedTasks"} =>
                inputRequests = <<>>
          /\ pc \in {"ready", "finishedTasks"} => finishedInputRequests = <<>>
          /\ pc = "finishedTasks" => readyTaskInfos = <<>>
    /\ pc \in {"cycle", "end", "idle"} =>
          /\ ruleInfosToScan = <<>> /\ inputRequests = <<>>
          /\ finishedInputRequests = <<>> /\ readyTaskInfos = <<>>
          /\ numOutstandingUnfinishedTasks = 0

\* The engine goes to sleep only with tasks outstanding.
WakeupInv ==
    /\ pc = "wait" => numOutstandingUnfinishedTasks # 0
    /\ NoLostWakeup

EngineInv == TypeOK /\ RequestInv /\ TaskInv /\ WorkerInv /\ QueueInv /\ WakeupInv

-----------------------------------------------------------------------------
(* Queues without duplicates.                                              *)

\* Queueing something that is not there yet.
LEMMA AppendDistinct ==
    ASSUME NEW S, NEW s \in Seq(S), NEW x \in S
    PROVE  /\ InRange(Append(s, x)) = InRange(s) \cup {x}
           /\ IsDistinct(s) /\ x \notin InRange(s) => IsDistinct(Append(s, x))
<1>1. /\ Append(s, x) \in Seq(S) /\ Len(Append(s, x)) = Len(s) + 1
      /\ \A i \in 1..Len(s) : Append(s, x)[i] = s[i]
      /\ Append(s, x)[Len(s) + 1] = x
    BY AppendProperties
<1>2. /\ Len(s) \in Nat /\ DOMAIN s = 1..Len(s)
      /\ DOMAIN Append(s, x) = 1..(Len(s) + 1)
    BY <1>1, LenProperties, Zenon
<1>3. 1..(Len(s) + 1) = 1..Len(s) \cup {Len(s) + 1}
    BY <1>2
<1>. QED
    BY <1>1, <1>2, <1>3 DEF InRange, IsDistinct

\* Taking the first element of a queue.
LEMMA TailDistinct ==
    ASSUME NEW S, NEW s \in Seq(S), s # <<>>, IsDistinct(s)
    PROVE  /\ Head(s) \in InRange(s)
           /\ InRange(Tail(s)) = InRange(s) \ {Head(s)}
           /\ IsDistinct(Tail(s))
<1>1. /\ Tail(s) \in Seq(S) /\ Len(Tail(s)) = Len(s) - 1
      /\ \A i \in 1..Len(Tail(s)) : Tail(s)[i] = s[i + 1]
    BY HeadTailProperties, Zenon
<1>2. /\ Len(s) \in Nat \ {0} /\ DOMAIN s = 1..Len(s)
      /\ DOMAIN Tail(s) = 1..(Len(s) - 1) /\ Head(s) = s[1]
    BY <1>1, LenProperties, EmptySeq
<1>3. \A n \in 1..Len(s) : n # 1 => n - 1 \in 1..(Len(s) - 1) /\ (n - 1) + 1 = n
    BY <1>2
<1>4. \A n \in 1..(Len(s) - 1) : n + 1 \in 1..Len(s) /\ n + 1 # 1
    BY <1>2
<1>5. IsDistinct(Tail(s))
    BY <1>1, <1>2, <1>4 DEF IsDistinct
<1>6. InRange(Tail(s)) \subseteq InRange(s) \ {Head(s)}
    BY <1>1, <1>2, <1>4 DEF IsDistinct, InRange
<1>7. \A x \in InRange(s) \ {Head(s)} : x \in InRange(Tail(s))
  <2>1. TAKE x \in InRange(s) \ {Head(s)}
  <2>2. PICK n \in 1..Len(s) : x = s[n] /\ n # 1
    BY <1>2, Zenon DEF InRange
  <2>3. n - 1 \in DOMAIN Tail(s) /\ Tail(s)[n - 1] = x
    BY <1>1, <1>2, <1>3, <2>2, Zenon
  <2>. QED
    BY <2>3, Zenon DEF InRange
<1>8. Head(s) \in InRange(s)
    BY <1>2 DEF InRange
<1>. QED
    BY <1>5, <1>6, <1>7, <1>8, Zenon

\* Taking the last element of a queue.
LEMMA FrontDistinct ==
    ASSUME NEW S, NEW s \in Seq(S), s # <<>>, IsDistinct(s)
    PROVE  LET front == SubSeq(s, 1, Len(s) - 1)
           IN  /\ s[Len(s)] \in InRange(s)
               /\ InRange(front) = InRange(s) \ {s[Len(s)]}
               /\ IsDistinct(front)
<1> DEFINE front == SubSeq(s, 1, Len(s) - 1)
<1>1. Len(s) \in Nat \ {0} /\ DOMAIN s = 1..Len(s)
    BY LenProperties, EmptySeq, Zenon
<1>2. /\ Len(front) = Len(s) - 1 /\ DOMAIN front = 1..(Len(s) - 1)
      /\ \A i \in 1..(Len(s) - 1) : front[i] = s[i]
    BY <1>1
<1>3. 1..Len(s) = 1..(Len(s) - 1) \cup {Len(s)} /\ Len(s) \notin 1..(Len(s) - 1)
    BY <1>1
<1> HIDE DEF front
<1>4. IsDistinct(front)
    BY <1>1, <1>2, <1>3, Zenon DEF IsDistinct
<1>5. s[Len(s)] \in InRange(s) /\ InRange(front) = InRange(s) \ {s[Len(s)]}
    BY <1>1, <1>2, <1>3 DEF IsDistinct, InRange
<1>. QED
    BY <1>4, <1>5, Zenon DEF front

-----------------------------------------------------------------------------
(* Requests.                                                               *)

\* The counts are natural numbers.
LEMMA PendingType ==
    ASSUME TypeOK, NEW t \in Keys
    PROVE  /\ RequestsOf(t, inputRequests) \in Nat
           /\ RequestsOf(t, finishedInputRequests) \in Nat
           /\ RequestsHeld(t, requestedBy) \in Nat
           /\ RequestsHeld(t, pausedInputRequests) \in Nat
<1>1. /\ inputRequests \in Seq(TaskInputRequest)
      /\ finishedInputRequests \in Seq(TaskRequest)
      /\ requestedBy \in [Keys -> Seq(TaskRequest)]
      /\ pausedInputRequests \in [Keys -> Seq(TaskInputRequest)]
    BY Zenon DEF TypeOK
<1>. QED
    BY <1>1, PositionsFinite, HeldFinite, Zenon

\* The state of the rules after scanRule() and demandRule(): a task is added to
\* the waiting ones when the rule needs to run, and none is removed.
LEMMA DemandState ==
    ASSUME TypeOK, NEW k \in Keys
    PROVE  /\ StateDemanded(k) \in [Keys -> StateKind]
           /\ \A j \in Keys : j # k => StateDemanded(k)[j] = state[j]
           /\ ScanRule(k) = "NeedsToRun" =>
                /\ StateDemanded(k)[k] = "InProgressWaiting"
                /\ ~Waiting(k) /\ ~Computing(k)
           /\ ScanRule(k) # "NeedsToRun" =>
                /\ StateDemanded(k)[k] = "InProgressWaiting" <=> Waiting(k)
                /\ StateDemanded(k)[k] = "InProgressComputing" <=> Computing(k)
<1>1. state \in [Keys -> StateKind]
    BY Zenon DEF TypeOK
<1>2. CASE IsScanned(k) \/ IsScanning(k)
  <2>1. ScanRule(k) = state[k]
    BY <1>2, Zenon DEF ScanRule
  <2>2. StateDemanded(k) =
          [state EXCEPT ![k] = CASE state[k] = "DoesNotNeedToRun" -> "Complete"
                                 [] state[k] = "NeedsToRun" -> "InProgressWaiting"
                                 [] OTHER -> state[k]]
    BY <2>1, Zenon DEF StateDemanded
  <2>. QED
    BY <1>1, <2>1, <2>2, Zenon DEF Waiting, Computing, StateKind
<1>3. CASE ~IsScanned(k) /\ ~IsScanning(k)
  <2>1. ScanRule(k) \in {"NeedsToRun", "IsScanning", "DoesNotNeedToRun"}
    BY <1>3, Zenon DEF ScanRule
  <2>2. state[k] \in {"Incomplete", "Complete"}
    BY <1>3, Zenon DEF IsScanned, IsScanning
  <2>. QED
    BY <1>1, <2>1, <2>2, Zenon DEF StateDemanded, Waiting, Computing, StateKind
<1>. QED
    BY <1>2, <1>3, Zenon

\* What does not add to or answer requests keeps the counts.
LEMMA MovedRequests ==
    ASSUME RequestInv,
           UNCHANGED <<waitCount, readyTaskInfos>>,
           \A t \in Keys : Pending(t)' = Pending(t),
           \A t \in Keys : Waiting(t)' <=> Waiting(t)
    PROVE  RequestInv'
<1>1. /\ \A t \in Keys : Pending(t) = IF Waiting(t) THEN waitCount[t] ELSE 0
      /\ \A t \in Keys :
            t \in InRange(readyTaskInfos) <=> Waiting(t) /\ waitCount[t] = 0
      /\ IsDistinct(readyTaskInfos)
    BY Zenon DEF RequestInv
<1>2. \A t \in Keys : Pending(t)' = IF Waiting(t)' THEN waitCount'[t] ELSE 0
    BY <1>1, Zenon
<1>3. \A t \in Keys : t \in InRange(readyTaskInfos)' <=> Waiting(t)' /\ waitCount'[t] = 0
    BY <1>1, Zenon DEF InRange
<1>4. IsDistinct(readyTaskInfos)'
    BY <1>1, Zenon DEF IsDistinct
<1>. QED
    BY <1>2, <1>3, <1>4, Zenon DEF RequestInv

\* A rule is demanded: its task, if it is started now, waits for what it
\* requests.  The other requests may move, but none may be lost.
LEMMA DemandedRequests ==
    ASSUME TypeOK, RequestInv, NEW k \in Keys,
           NEW queue \in Seq(TaskInputRequest),
           ScanAndDemand(k, queue), state' = StateDemanded(k),
           \A t \in Keys :
              /\ RequestsOf(t, queue) \in Nat
              /\ RequestsOf(t, finishedInputRequests') \in Nat
              /\ RequestsHeld(t, requestedBy') \in Nat
              /\ RequestsHeld(t, pausedInputRequests') \in Nat
              /\ RequestsOf(t, queue) + RequestsOf(t, finishedInputRequests')
                   + RequestsHeld(t, requestedBy')
                   + RequestsHeld(t, pausedInputRequests') = Pending(t)
    PROVE  RequestInv'
<1> DEFINE deps == Start(prog, k)
<1>1. /\ \A t \in Keys : Pending(t) = IF Waiting(t) THEN waitCount[t] ELSE 0
      /\ \A t \in Keys :
            t \in InRange(readyTaskInfos) <=> Waiting(t) /\ waitCount[t] = 0
      /\ IsDistinct(readyTaskInfos)
    BY Zenon DEF RequestInv
<1>2. /\ readyTaskInfos \in Seq(Keys) /\ waitCount \in [Keys -> Int]
      /\ prog \in Programs
    BY Zenon DEF TypeOK
<1>3. CASE ScanRule(k) # "NeedsToRun"
  <2>1. inputRequests' = queue /\ UNCHANGED <<waitCount, readyTaskInfos>>
    BY <1>3, Zenon DEF ScanAndDemand
  <2>2. \A t \in Keys : Pending(t)' = Pending(t)
    BY <2>1, Zenon DEF Pending
  <2>3. \A t \in Keys : Waiting(t)' <=> Waiting(t)
    BY <1>3, DemandState, Zenon DEF Waiting
  <2>. QED
    BY <2>1, <2>2, <2>3, MovedRequests, Zenon
<1>4. CASE ScanRule(k) = "NeedsToRun"
  <2>1. deps \in Seq(Dependency) /\ Len(deps) \in Nat
    BY <1>2, ClientAssumption, LenProperties, Zenon
  <2>2. /\ waitCount' = [waitCount EXCEPT ![k] = Len(deps)]
        /\ inputRequests' = queue \o InputRequestsFor(k, deps)
        /\ readyTaskInfos' = IF Len(deps) = 0 THEN Append(readyTaskInfos, k)
                                              ELSE readyTaskInfos
    BY <1>4, Zenon DEF ScanAndDemand
  <2>3. /\ Waiting(k)' /\ ~Waiting(k)
        /\ \A t \in Keys : t # k => (Waiting(t)' <=> Waiting(t))
    BY <1>4, DemandState, Zenon DEF Waiting
  <2>4. \A t \in Keys : RequestsOf(t, inputRequests') =
                          RequestsOf(t, queue) + IF k = t THEN Len(deps) ELSE 0
    <3>1. InputRequestsFor(k, deps) \in Seq(TaskInputRequest)
        BY <2>1, InputRequestsForType, Zenon
    <3>2. TAKE t \in Keys
    <3>3. RequestsOf(t, queue \o InputRequestsFor(k, deps)) =
            RequestsOf(t, queue) + RequestsOf(t, InputRequestsFor(k, deps))
        BY <3>1, CountConcat, Zenon
    <3>4. RequestsOf(t, InputRequestsFor(k, deps)) = IF k = t THEN Len(deps) ELSE 0
        BY <2>1, CountRequestsFor, Zenon
    <3>. QED
        BY <2>2, <3>3, <3>4, Zenon
  <2>5. \A t \in Keys : Pending(t)' = Pending(t) + IF k = t THEN Len(deps) ELSE 0
    <3>1. TAKE t \in Keys
    <3>2. Pending(t)' = RequestsOf(t, inputRequests')
                        + RequestsOf(t, finishedInputRequests')
                        + RequestsHeld(t, requestedBy')
                        + RequestsHeld(t, pausedInputRequests')
        BY Zenon DEF Pending
    <3> DEFINE new == IF k = t THEN Len(deps) ELSE 0
    <3>3. new \in Nat
        BY <2>1, Zenon
    <3>4. RequestsOf(t, inputRequests') = RequestsOf(t, queue) + new
        BY <2>4, Zenon
    <3>5. /\ RequestsOf(t, queue) \in Nat
          /\ RequestsOf(t, finishedInputRequests') \in Nat
          /\ RequestsHeld(t, requestedBy') \in Nat
          /\ RequestsHeld(t, pausedInputRequests') \in Nat
        BY Zenon
    <3>6. RequestsOf(t, queue) + RequestsOf(t, finishedInputRequests')
            + RequestsHeld(t, requestedBy')
            + RequestsHeld(t, pausedInputRequests') = Pending(t)
        BY Zenon
    <3> HIDE DEF new
    <3>7. RequestsOf(t, inputRequests') + RequestsOf(t, finishedInputRequests')
            + RequestsHeld(t, requestedBy') + RequestsHeld(t, pausedInputRequests')
          = RequestsOf(t, queue) + RequestsOf(t, finishedInputRequests')
            + RequestsHeld(t, requestedBy') + RequestsHeld(t, pausedInputRequests')
            + new
        BY ONLY <3>3, <3>4, <3>5
    <3>. QED
        BY ONLY <3>2, <3>6, <3>7, Zenon DEF new
  <2>6. \A t \in Keys : Pending(t)' = IF Waiting(t)' THEN waitCount'[t] ELSE 0
    <3>1. TAKE t \in Keys
    <3>2. CASE t = k
        <4>1. Pending(t) = 0 /\ waitCount'[t] = Len(deps)
            BY <1>1, <1>2, <2>2, <2>3, <3>2, Zenon
        <4>. QED
            BY <2>1, <2>3, <2>5, <3>2, <4>1
    <3>3. CASE t # k
        <4>1. waitCount'[t] = waitCount[t] /\ (Waiting(t)' <=> Waiting(t))
            BY <1>2, <2>2, <2>3, <3>3, Zenon
        <4>2. Pending(t)' = Pending(t) + 0 /\ waitCount[t] \in Int
            BY <1>2, <2>5, <3>3, Zenon
        <4>3. Pending(t) = IF Waiting(t) THEN waitCount[t] ELSE 0
            BY <1>1, Zenon
        <4>4. Pending(t) \in Int
            BY ONLY <4>2, <4>3
        <4>5. Pending(t)' = Pending(t)
            BY ONLY <4>2, <4>4
        <4>. QED
            BY <4>1, <4>3, <4>5, Zenon
    <3>. QED
        BY <3>2, <3>3, Zenon
  <2>7. k \notin InRange(readyTaskInfos)
    BY <1>1, <2>3, Zenon
  <2>8. InRange(readyTaskInfos') =
          InRange(readyTaskInfos) \cup (IF Len(deps) = 0 THEN {k} ELSE {})
    <3>1. CASE Len(deps) = 0
      <4>1. InRange(Append(readyTaskInfos, k)) = InRange(readyTaskInfos) \cup {k}
        BY <1>2, AppendDistinct, Zenon
      <4>2. readyTaskInfos' = Append(readyTaskInfos, k)
        BY <2>2, <3>1, Zenon
      <4>. QED
        BY <3>1, <4>1, <4>2, Zenon
    <3>2. CASE Len(deps) # 0
      BY <2>2, <3>2, Zenon
    <3>. QED
      BY <3>1, <3>2, Zenon
  <2>9. IsDistinct(readyTaskInfos')
    BY <1>1, <1>2, <2>2, <2>7, AppendDistinct, Zenon
  <2>10. \A t \in Keys :
            t \in InRange(readyTaskInfos') <=> Waiting(t)' /\ waitCount'[t] = 0
    BY <1>1, <1>2, <2>1, <2>2, <2>3, <2>8, Zenon
  <2>11. IsDistinct(readyTaskInfos)' /\ InRange(readyTaskInfos)' = InRange(readyTaskInfos')
    BY <2>9, Zenon DEF IsDistinct, InRange
  <2>. QED
    BY <2>6, <2>10, <2>11, Zenon DEF RequestInv
<1>. QED
    BY <1>3, <1>4, Zenon

\* Steps that touch neither requests nor tasks.
LEMMA SameRequests ==
    ASSUME RequestInv,
           UNCHANGED <<state, waitCount, inputRequests, finishedInputRequests,
                       requestedBy, pausedInputRequests, readyTaskInfos>>
    PROVE  RequestInv'
<1>1. \A t \in Keys : Pending(t)' = Pending(t)
    BY Zenon DEF Pending
<1>2. \A t \in Keys : Waiting(t)' <=> Waiting(t)
    BY Zenon DEF Waiting
<1>. QED
    BY <1>1, <1>2, MovedRequests, Zenon

\* finishScanRequest() moves the paused requests back to their queue.
LEMMA ResumedRequests ==
    ASSUME TypeOK, NEW k \in Keys, NEW stack, FinishScanRequest(k, stack),
           UNCHANGED <<finishedInputRequests, requestedBy>>
    PROVE  \A t \in Keys : Pending(t)' = Pending(t)
<1>1. /\ inputRequests \in Seq(TaskInputRequest)
      /\ pausedInputRequests \in [Keys -> Seq(TaskInputRequest)]
      /\ pausedInputRequests[k] \in Seq(TaskInputRequest)
      /\ <<>> \in Seq(TaskInputRequest)
    BY DEF TypeOK
<1>2. /\ inputRequests' = inputRequests \o pausedInputRequests[k]
      /\ pausedInputRequests' = [pausedInputRequests EXCEPT ![k] = <<>>]
    BY Zenon DEF FinishScanRequest
<1>3. TAKE t \in Keys
<1>4. RequestsOf(t, inputRequests') =
        RequestsOf(t, inputRequests) + RequestsOf(t, pausedInputRequests[k])
    BY <1>1, <1>2, CountConcat, Zenon
<1>5. RequestsHeld(t, pausedInputRequests') =
        RequestsHeld(t, pausedInputRequests) - RequestsOf(t, pausedInputRequests[k])
            + RequestsOf(t, <<>>)
  <2>1. /\ pausedInputRequests' \in [Keys -> Seq(TaskInputRequest)]
        /\ pausedInputRequests'[k] = <<>>
        /\ \A j \in Keys : j # k => pausedInputRequests'[j] = pausedInputRequests[j]
    BY <1>1, <1>2, Zenon
  <2>2. RequestsHeld(t, pausedInputRequests') =
          RequestsHeld(t, pausedInputRequests) - RequestsOf(t, pausedInputRequests[k])
            + RequestsOf(t, pausedInputRequests'[k])
    BY <1>1, <2>1, HeldExcept, ZenonT(60)
  <2>. QED
    BY <2>1, <2>2, Zenon
<1>6. RequestsOf(t, <<>>) = 0 /\ RequestsOf(t, pausedInputRequests[k]) \in Nat
    BY <1>1, CountEmpty, PositionsFinite, Zenon
<1>7. /\ RequestsOf(t, finishedInputRequests') = RequestsOf(t, finishedInputRequests)
      /\ RequestsHeld(t, requestedBy') = RequestsHeld(t, requestedBy)
    BY Zenon
<1>8. Pending(t)' = RequestsOf(t, inputRequests') + RequestsOf(t, finishedInputRequests')
                    + RequestsHeld(t, requestedBy') + RequestsHeld(t, pausedInputRequests')
    BY Zenon DEF Pending
<1>9. Pending(t) = RequestsOf(t, inputRequests) + RequestsOf(t, finishedInputRequests)
                   + RequestsHeld(t, requestedBy) + RequestsHeld(t, pausedInputRequests)
    BY Zenon DEF Pending
<1>. QED
    BY <1>4, <1>5, <1>6, <1>7, <1>8, <1>9, PendingType

\* Scanning starts tasks and resumes requests.
LEMMA ScanKeepsRequests ==
    ASSUME TypeOK, RequestInv, ProcessRuleScanRequest
    PROVE  RequestInv'
<1>1. CASE ScanIgnored \/ ScanSingleUse
    BY <1>1, SameRequests, Zenon
       DEF ScanIgnored, ScanSingleUse, ruleVars, taskVars, inputVars
<1>2. CASE ScanDeferred \/ ScanNextInput
  <2> DEFINE i == dependency.key
  <2>1. ruleInfosToScan # <<>> /\ HasInput
    BY <1>2, Zenon DEF ScanDeferred, ScanNextInput, ScanStep
  <2>2. i \in Keys
    BY <2>1, ScanStackType, Zenon DEF Dependency
  <2>3. /\ ScanAndDemand(i, inputRequests) /\ state' = StateDemanded(i)
        /\ UNCHANGED <<pausedInputRequests, finishedInputRequests, requestedBy>>
    BY <1>2, Zenon DEF ScanDeferred, ScanNextInput
  <2> HIDE DEF i
  <2>4. inputRequests \in Seq(TaskInputRequest)
    BY Zenon DEF TypeOK
  <2>5. \A t \in Keys :
              /\ RequestsOf(t, inputRequests) \in Nat
              /\ RequestsOf(t, finishedInputRequests') \in Nat
              /\ RequestsHeld(t, requestedBy') \in Nat
              /\ RequestsHeld(t, pausedInputRequests') \in Nat
              /\ RequestsOf(t, inputRequests) + RequestsOf(t, finishedInputRequests')
                   + RequestsHeld(t, requestedBy')
                   + RequestsHeld(t, pausedInputRequests') = Pending(t)
    BY <2>3, PendingType, Zenon DEF Pending
  <2>. QED
    BY <2>2, <2>3, <2>4, <2>5, DemandedRequests, Zenon
<1>3. CASE ScanInputRebuilt
  <2> DEFINE i == dependency.key
  <2>1. ruleInfosToScan # <<>> /\ HasInput
    BY <1>3, Zenon DEF ScanInputRebuilt, ScanStep
  <2>2. i \in Keys /\ scanned \in Keys
    BY <2>1, ScanStackType, Zenon DEF Dependency
  <2>3. /\ IsAvailable(i)
        /\ state' = [StateDemanded(i) EXCEPT ![scanned] = "NeedsToRun"]
        /\ FinishScanRequest(scanned, otherRequests)
        /\ UNCHANGED <<taskVars, finishedInputRequests, readyTaskInfos>>
    BY <1>3, Zenon DEF ScanInputRebuilt
  <2>4. IsScanning(scanned)
    BY <2>1, Zenon DEF HasInput
  <2> HIDE DEF i
  <2>5. \A t \in Keys : Pending(t)' = Pending(t)
    BY <2>2, <2>3, ResumedRequests, Zenon DEF taskVars
  <2>6. \A t \in Keys : Waiting(t)' <=> Waiting(t)
    <3>1. /\ StateDemanded(i) \in [Keys -> StateKind]
          /\ \A t \in Keys : StateDemanded(i)[t] = "InProgressWaiting" <=> Waiting(t)
        BY <2>2, <2>3, DemandState, Zenon DEF IsAvailable, Waiting
    <3>. QED
        BY <2>2, <2>3, <2>4, <3>1, Zenon DEF Waiting, IsScanning
  <2>. QED
    BY <2>3, <2>5, <2>6, MovedRequests, Zenon DEF taskVars
<1>4. CASE ScanUpToDate
  <2>1. scanned \in Keys
    BY <1>4, ScanStackType, Zenon DEF ScanUpToDate, ScanStep
  <2>2. /\ IsScanning(scanned)
        /\ state' = [state EXCEPT ![scanned] = "DoesNotNeedToRun"]
        /\ FinishScanRequest(scanned, otherRequests)
        /\ UNCHANGED <<taskVars, finishedInputRequests, readyTaskInfos>>
    BY <1>4, Zenon DEF ScanUpToDate
  <2>3. \A t \in Keys : Pending(t)' = Pending(t)
    BY <2>1, <2>2, ResumedRequests, Zenon DEF taskVars
  <2>4. \A t \in Keys : Waiting(t)' <=> Waiting(t)
    BY <2>1, <2>2, Zenon DEF Waiting, IsScanning, TypeOK
  <2>. QED
    BY <2>2, <2>3, <2>4, MovedRequests, Zenon DEF taskVars
<1>. QED
    BY <1>1, <1>2, <1>3, <1>4, Zenon DEF ProcessRuleScanRequest

\* Taking an input request: it is paused, finished, left with the task of its
\* input, or it is a dummy.
LEMMA InputsKeepRequests ==
    ASSUME TypeOK, RequestInv, PauseInputRequest \/ ProcessInputRequest
    PROVE  RequestInv'
<1> DEFINE r == inputRequest
           i == inputRequest.input
           queue == Tail(inputRequests)
           Own(t) == IF r.task = t THEN 1 ELSE 0
<1>1. inputRequests # <<>>
    BY Zenon DEF PauseInputRequest, ProcessInputRequest, InputStep
<1>2. /\ inputRequests \in Seq(TaskInputRequest)
      /\ finishedInputRequests \in Seq(TaskRequest)
      /\ requestedBy \in [Keys -> Seq(TaskRequest)]
      /\ pausedInputRequests \in [Keys -> Seq(TaskInputRequest)]
    BY Zenon DEF TypeOK
<1>3. /\ r \in TaskInputRequest /\ i \in Keys /\ r.task \in Keys \cup {NoKey}
      /\ queue \in Seq(TaskInputRequest)
    BY <1>1, InputQueueType, Zenon
<1>4. /\ ScanAndDemand(i, queue) /\ state' = StateDemanded(i)
    BY Zenon DEF PauseInputRequest, ProcessInputRequest
<1>5. r.task # NoKey => r \in TaskRequest
    BY <1>3, Zenon DEF TaskRequest
<1>6. NoKey \notin Keys
    BY ClientAssumption, Zenon
<1>7. \A t \in Keys : RequestsOf(t, queue) = RequestsOf(t, inputRequests) - Own(t)
    BY <1>1, <1>2, CountTail, Zenon DEF inputRequest
<1>8. \A t \in Keys : RequestsOf(t, queue) \in Nat
    BY <1>3, PositionsFinite, Zenon
<1> SUFFICES \A t \in Keys :
              /\ RequestsOf(t, finishedInputRequests') \in Nat
              /\ RequestsHeld(t, requestedBy') \in Nat
              /\ RequestsHeld(t, pausedInputRequests') \in Nat
              /\ RequestsOf(t, finishedInputRequests')
                   + RequestsHeld(t, requestedBy')
                   + RequestsHeld(t, pausedInputRequests') =
                 RequestsOf(t, finishedInputRequests)
                   + RequestsHeld(t, requestedBy)
                   + RequestsHeld(t, pausedInputRequests) + Own(t)
  <2> HIDE DEF queue, i, r
  <2>1. \A t \in Keys :
              /\ RequestsOf(t, queue) \in Nat
              /\ RequestsOf(t, finishedInputRequests') \in Nat
              /\ RequestsHeld(t, requestedBy') \in Nat
              /\ RequestsHeld(t, pausedInputRequests') \in Nat
              /\ RequestsOf(t, queue) + RequestsOf(t, finishedInputRequests')
                   + RequestsHeld(t, requestedBy')
                   + RequestsHeld(t, pausedInputRequests') = Pending(t)
    <3>1. TAKE t \in Keys
    <3>2. Own(t) \in Nat
        BY Zenon
    <3>3. RequestsOf(t, queue) = RequestsOf(t, inputRequests) - Own(t)
        BY <1>7, Zenon
    <3> HIDE DEF Own
    <3>. QED
        BY <1>8, <3>2, <3>3, PendingType DEF Pending
  <2>. QED
    BY <1>3, <1>4, <2>1, DemandedRequests, Zenon
<1>9. TAKE t \in Keys
<1>10. Own(t) \in Nat
    BY Zenon
<1>11. CASE PauseInputRequest
  <2>1. /\ UNCHANGED <<finishedInputRequests, requestedBy>>
        /\ pausedInputRequests' =
             [pausedInputRequests EXCEPT ![i] = Append(pausedInputRequests[i], r)]
    BY <1>11, Zenon DEF PauseInputRequest
  <2>2. RequestsHeld(t, pausedInputRequests') =
          RequestsHeld(t, pausedInputRequests) + Own(t)
    <3>1. pausedInputRequests' = Leave(pausedInputRequests, i, r)
        BY <2>1, Zenon DEF Leave
    <3>2. r \in TaskInputRequest /\ i \in Keys
        BY <1>3, Zenon
    <3>3. pausedInputRequests \in [Keys -> Seq(TaskInputRequest)]
        BY <1>2, Zenon
    <3>4. RequestsHeld(t, Leave(pausedInputRequests, i, r)) = RequestsHeld(t, pausedInputRequests) + Own(t)
        BY <3>2, <3>3, HeldLeave
    <3>. QED
        BY <3>1, <3>4, Zenon
  <2> HIDE DEF Own
  <2>. QED
    BY <1>10, <2>1, <2>2, PendingType
<1>12. CASE ProcessInputRequest /\ r.task = NoKey
  <2>1. UNCHANGED <<finishedInputRequests, requestedBy, pausedInputRequests>>
    BY <1>12, Zenon DEF ProcessInputRequest
  <2>2. Own(t) = 0
    BY <1>6, <1>12, Zenon
  <2>. QED
    BY <2>1, <2>2, PendingType
<1>13. CASE ProcessInputRequest /\ r.task # NoKey /\ IsAvailable(i)
  <2>1. /\ UNCHANGED <<requestedBy, pausedInputRequests>>
        /\ finishedInputRequests' = Append(finishedInputRequests, r)
    BY <1>13, Zenon DEF ProcessInputRequest
  <2>2. RequestsOf(t, finishedInputRequests') =
          RequestsOf(t, finishedInputRequests) + Own(t)
    BY <1>2, <1>5, <1>13, <2>1, CountAppend, Zenon
  <2> HIDE DEF Own
  <2>. QED
    BY <1>10, <2>1, <2>2, PendingType
<1>14. CASE ProcessInputRequest /\ r.task # NoKey /\ ~IsAvailable(i)
  <2>1. /\ UNCHANGED <<finishedInputRequests, pausedInputRequests>>
        /\ requestedBy' = [requestedBy EXCEPT ![i] = Append(requestedBy[i], r)]
    BY <1>14, Zenon DEF ProcessInputRequest
  <2>2. RequestsHeld(t, requestedBy') = RequestsHeld(t, requestedBy) + Own(t)
    <3>1. requestedBy' = Leave(requestedBy, i, r)
        BY <2>1, Zenon DEF Leave
    <3>2. r \in TaskRequest /\ i \in Keys
        BY <1>3, <1>5, <1>14, Zenon
    <3>3. requestedBy \in [Keys -> Seq(TaskRequest)]
        BY <1>2, Zenon
    <3>4. RequestsHeld(t, Leave(requestedBy, i, r)) = RequestsHeld(t, requestedBy) + Own(t)
        BY <3>2, <3>3, HeldLeave
    <3>. QED
        BY <3>1, <3>4, Zenon
  <2> HIDE DEF Own
  <2>. QED
    BY <1>10, <2>1, <2>2, PendingType
<1>. QED
    BY <1>11, <1>12, <1>13, <1>14, Zenon

\* A task is provided with an input: one request less, and those it makes now.
LEMMA ProvidingKeepsRequests ==
    ASSUME TypeOK, RequestInv, ProcessFinishedInputRequest
    PROVE  RequestInv'
<1> DEFINE n == Len(finishedInputRequests)
           r == finishedInputRequests[n]
           u == r.task
           v == result[r.input].value
           more == IF r.orderOnly THEN <<>> ELSE React(prog, u, r.input, v)
           waits == waitCount[u] + Len(more) - 1
           Own(t) == IF u = t THEN 1 ELSE 0
           New(t) == IF u = t THEN Len(more) ELSE 0
<1>1. /\ finishedInputRequests # <<>>
      /\ finishedInputRequests' = SubSeq(finishedInputRequests, 1, n - 1)
      /\ inputRequests' = inputRequests \o InputRequestsFor(u, more)
      /\ waitCount' = [waitCount EXCEPT ![u] = waits]
      /\ readyTaskInfos' = IF waits = 0 THEN Append(readyTaskInfos, u)
                                        ELSE readyTaskInfos
      /\ UNCHANGED <<state, requestedBy, pausedInputRequests>>
    BY Zenon DEF ProcessFinishedInputRequest, ruleVars, scanVars
<1>2. /\ finishedInputRequests \in Seq(TaskRequest)
      /\ inputRequests \in Seq(TaskInputRequest)
      /\ readyTaskInfos \in Seq(Keys) /\ waitCount \in [Keys -> Int]
    BY Zenon DEF TypeOK
<1>3. r \in TaskRequest
    BY <1>1, <1>2, LastOfSeq, Zenon
<1>4. u \in Keys /\ r.input \in Keys
    BY <1>3, Zenon DEF TaskRequest, TaskInputRequest
<1>5. more \in Seq(Dependency) /\ Len(more) \in Nat
  <2>1. prog \in Programs /\ v \in Values
    BY <1>4, Zenon DEF TypeOK, Result
  <2>2. React(prog, u, r.input, v) \in Seq(Dependency)
    BY <1>4, <2>1, ClientAssumption, Zenon
  <2>3. <<>> \in Seq(Dependency)
    OBVIOUS
  <2>. QED
    BY <2>2, <2>3, LenProperties, Zenon
<1>6. /\ \A t \in Keys : Pending(t) = IF Waiting(t) THEN waitCount[t] ELSE 0
      /\ \A t \in Keys :
            t \in InRange(readyTaskInfos) <=> Waiting(t) /\ waitCount[t] = 0
      /\ IsDistinct(readyTaskInfos)
    BY Zenon DEF RequestInv
<1>7. \A t \in Keys : RequestsOf(t, finishedInputRequests') =
                        RequestsOf(t, finishedInputRequests) - Own(t)
    BY <1>1, <1>2, CountFront, Zenon
<1>8. \A t \in Keys : RequestsOf(t, finishedInputRequests') \in Nat
    BY <1>1, <1>2, LastOfSeq, PositionsFinite, Zenon
<1> HIDE DEF more
<1>9. \A t \in Keys : RequestsOf(t, inputRequests') =
                        RequestsOf(t, inputRequests) + New(t)
  <2>1. TAKE t \in Keys
  <2>2. InputRequestsFor(u, more) \in Seq(TaskInputRequest)
    BY <1>4, <1>5, InputRequestsForType, Zenon
  <2>3. RequestsOf(t, inputRequests \o InputRequestsFor(u, more)) =
          RequestsOf(t, inputRequests) + RequestsOf(t, InputRequestsFor(u, more))
    BY <1>2, <2>2, CountConcat, Zenon
  <2>4. RequestsOf(t, InputRequestsFor(u, more)) = New(t)
    BY <1>4, <1>5, CountRequestsFor, Zenon
  <2>. QED
    BY <1>1, <2>3, <2>4, Zenon
<1> HIDE DEF r, n
<1>10. \A t \in Keys : Pending(t)' = Pending(t) - Own(t) + New(t)
  <2>1. TAKE t \in Keys
  <2>2. Own(t) \in Nat /\ New(t) \in Nat
    BY <1>5, Zenon
  <2>3. /\ RequestsOf(t, inputRequests') = RequestsOf(t, inputRequests) + New(t)
        /\ RequestsOf(t, finishedInputRequests') =
             RequestsOf(t, finishedInputRequests) - Own(t)
        /\ RequestsHeld(t, requestedBy') = RequestsHeld(t, requestedBy)
        /\ RequestsHeld(t, pausedInputRequests') = RequestsHeld(t, pausedInputRequests)
    BY <1>1, <1>7, <1>9, Zenon
  <2>4. Pending(t)' = RequestsOf(t, inputRequests') + RequestsOf(t, finishedInputRequests')
                      + RequestsHeld(t, requestedBy') + RequestsHeld(t, pausedInputRequests')
    BY Zenon DEF Pending
  <2>5. Pending(t) = RequestsOf(t, inputRequests) + RequestsOf(t, finishedInputRequests)
                     + RequestsHeld(t, requestedBy) + RequestsHeld(t, pausedInputRequests)
    BY Zenon DEF Pending
  <2> HIDE DEF Own, New
  <2>. QED
    BY <2>2, <2>3, <2>4, <2>5, PendingType
<1>11. Waiting(u) /\ waitCount[u] >= 1 /\ Pending(u) = waitCount[u]
  <2>1. RequestsOf(u, finishedInputRequests) >= 1
    <3>1. /\ RequestsOf(u, finishedInputRequests') =
               RequestsOf(u, finishedInputRequests) - 1
          /\ RequestsOf(u, finishedInputRequests') \in Nat
        BY <1>4, <1>7, <1>8, Zenon
    <3>. QED
        BY <1>4, <3>1, PendingType
  <2>2. Pending(u) >= 1
    BY <1>4, <2>1, PendingType DEF Pending
  <2>. QED
    BY <1>4, <1>6, <2>2
<1>12. \A t \in Keys : Waiting(t)' <=> Waiting(t)
    BY <1>1, Zenon DEF Waiting
<1>13. waits \in Int /\ waitCount'[u] = waits
       /\ \A t \in Keys : t # u => waitCount'[t] = waitCount[t]
    BY <1>1, <1>2, <1>4, <1>5
<1>14. \A t \in Keys : Pending(t)' = IF Waiting(t)' THEN waitCount'[t] ELSE 0
  <2>1. TAKE t \in Keys
  <2>2. CASE t = u
    <3>1. Pending(t)' = Pending(t) - 1 + Len(more)
        BY <1>4, <1>10, <2>2, Zenon
    <3>2. Pending(t) = waitCount[t] /\ waitCount[t] \in Int
        BY <1>2, <1>4, <1>11, <2>2, Zenon
    <3>3. Pending(t)' = waitCount[t] + Len(more) - 1
        BY <1>5, <3>1, <3>2
    <3>4. waitCount'[t] = waitCount[t] + Len(more) - 1
        BY <1>13, <2>2, Zenon
    <3>5. Waiting(t)'
        BY <1>11, <1>12, <2>2, Zenon
    <3>. QED
        BY <3>3, <3>4, <3>5, Zenon
  <2>3. CASE t # u
    <3>1. Pending(t)' = Pending(t) - 0 + 0 /\ Pending(t) \in Int
        BY <1>2, <1>6, <1>10, <2>3
    <3>. QED
        BY <1>6, <1>12, <1>13, <2>3, <3>1, SMTT(60)
  <2>. QED
    BY <2>2, <2>3, Zenon
<1>15. u \notin InRange(readyTaskInfos)
    BY <1>4, <1>6, <1>11
<1> HIDE DEF u, waits
<1>16. /\ InRange(readyTaskInfos') =
            InRange(readyTaskInfos) \cup (IF waits = 0 THEN {u} ELSE {})
       /\ IsDistinct(readyTaskInfos')
    BY <1>1, <1>2, <1>4, <1>6, <1>15, AppendDistinct
<1>17. \A t \in Keys :
          t \in InRange(readyTaskInfos') <=> Waiting(t)' /\ waitCount'[t] = 0
    BY <1>4, <1>6, <1>11, <1>12, <1>13, <1>16, Zenon
<1>18. /\ IsDistinct(readyTaskInfos)'
       /\ InRange(readyTaskInfos)' = InRange(readyTaskInfos')
    BY <1>16, Zenon DEF IsDistinct, InRange
<1>. QED
    BY <1>14, <1>17, <1>18, Zenon DEF RequestInv

\* A ready task starts to compute.
LEMMA ReadyKeepsRequests ==
    ASSUME TypeOK, RequestInv, ProcessReadyTask
    PROVE  RequestInv'
<1>1. PICK k \in Keys :
      /\ readyTaskInfos # <<>> /\ k = Head(readyTaskInfos)
      /\ state' = [state EXCEPT ![k] = "InProgressComputing"]
      /\ readyTaskInfos' = Tail(readyTaskInfos)
      /\ UNCHANGED <<waitCount, inputRequests, finishedInputRequests,
                     requestedBy, pausedInputRequests>>
  <2>1. readyTaskInfos # <<>> /\ readyTaskInfos \in Seq(Keys)
    BY Zenon DEF ProcessReadyTask, TypeOK
  <2>2. Head(readyTaskInfos) \in Keys
    BY <2>1, HeadTailProperties, Zenon
  <2>. QED
    BY <2>1, <2>2, Zenon DEF ProcessReadyTask, taskVars, scanVars, inputVars
<1>2. readyTaskInfos \in Seq(Keys) /\ state \in [Keys -> StateKind]
    BY Zenon DEF TypeOK
<1>4. /\ \A t \in Keys : Pending(t) = IF Waiting(t) THEN waitCount[t] ELSE 0
      /\ \A t \in Keys :
            t \in InRange(readyTaskInfos) <=> Waiting(t) /\ waitCount[t] = 0
      /\ IsDistinct(readyTaskInfos)
    BY Zenon DEF RequestInv
<1>5. /\ k \in InRange(readyTaskInfos)
      /\ InRange(readyTaskInfos') = InRange(readyTaskInfos) \ {k}
      /\ IsDistinct(readyTaskInfos')
    BY <1>1, <1>2, <1>4, TailDistinct, Zenon
<1>6. \A t \in Keys : Pending(t)' = Pending(t)
    BY <1>1, Zenon DEF Pending
<1>7. /\ ~Waiting(k)'
      /\ \A t \in Keys : t # k => (Waiting(t)' <=> Waiting(t))
    BY <1>1, <1>2, Zenon DEF Waiting
<1>8. \A t \in Keys : Pending(t)' = IF Waiting(t)' THEN waitCount'[t] ELSE 0
    BY <1>1, <1>4, <1>5, <1>6, <1>7, Zenon
<1>9. \A t \in Keys :
          t \in InRange(readyTaskInfos') <=> Waiting(t)' /\ waitCount'[t] = 0
    BY <1>1, <1>4, <1>5, <1>7, Zenon
<1>10. /\ IsDistinct(readyTaskInfos)'
       /\ InRange(readyTaskInfos)' = InRange(readyTaskInfos')
    BY <1>5, Zenon DEF IsDistinct, InRange
<1>. QED
    BY <1>8, <1>9, <1>10, Zenon DEF RequestInv

\* A task that is taken from the finished ones was computing.
LEMMA FinishedTaskComputing ==
    ASSUME TypeOK, WorkerInv, NEW k \in Keys, FinishStep(k)
    PROVE  /\ k \in InRange(finishedTaskInfos) /\ Computing(k)
           /\ InRange(finishedTaskInfos') = InRange(finishedTaskInfos) \ {k}
           /\ IsDistinct(finishedTaskInfos')
           /\ Len(finishedTaskInfos') = Len(finishedTaskInfos) - 1
<1>1. /\ finishedTaskInfos # <<>> /\ k = finishedTaskInfos[Len(finishedTaskInfos)]
      /\ finishedTaskInfos' = SubSeq(finishedTaskInfos, 1, Len(finishedTaskInfos) - 1)
    BY Zenon DEF FinishStep, finishedTask
<1>2. finishedTaskInfos \in Seq(Keys)
    BY Zenon DEF TypeOK
<1>3. IsDistinct(finishedTaskInfos)
    BY Zenon DEF WorkerInv
<1>4. /\ k \in InRange(finishedTaskInfos)
      /\ InRange(finishedTaskInfos') = InRange(finishedTaskInfos) \ {k}
      /\ IsDistinct(finishedTaskInfos')
    BY <1>1, <1>2, <1>3, FrontDistinct, Zenon
<1>5. Computing(k)
    BY <1>4, Zenon DEF WorkerInv
<1>6. Len(finishedTaskInfos') = Len(finishedTaskInfos) - 1
    BY <1>1, <1>2, LastOfSeq, Zenon
<1>. QED
    BY <1>4, <1>5, <1>6, Zenon

\* A finished task adds only dummy requests.
LEMMA DummyRequests ==
    ASSUME TypeOK, NEW k \in Keys, FinishStep(k)
    PROVE  \A t \in Keys :
              RequestsOf(t, inputRequests') = RequestsOf(t, inputRequests)
<1> DEFINE deps == DiscoveredDependencies(k)
<1>1. inputRequests' = inputRequests \o InputRequestsFor(NoKey, deps)
    BY Zenon DEF FinishStep
<1>2. deps \in Seq(Dependency)
    BY DiscoveredDependenciesType, Zenon
<1>3. NoKey \in Keys \cup {NoKey} /\ NoKey \notin Keys
    BY ClientAssumption, Zenon
<1> HIDE DEF deps
<1>4. /\ InputRequestsFor(NoKey, deps) \in Seq(TaskInputRequest)
      /\ inputRequests \in Seq(TaskInputRequest)
    BY <1>2, <1>3, InputRequestsForType, Zenon DEF TypeOK
<1>5. TAKE t \in Keys
<1>6. RequestsOf(t, inputRequests \o InputRequestsFor(NoKey, deps)) =
        RequestsOf(t, inputRequests) + RequestsOf(t, InputRequestsFor(NoKey, deps))
    BY <1>4, CountConcat, Zenon
<1>7. RequestsOf(t, InputRequestsFor(NoKey, deps)) = 0
  <2>1. RequestsOf(t, InputRequestsFor(NoKey, deps)) = IF NoKey = t THEN Len(deps) ELSE 0
    BY <1>2, <1>3, CountRequestsFor, Zenon
  <2>. QED
    BY <1>3, <2>1, Zenon
<1>8. RequestsOf(t, inputRequests) \in Nat
    BY PendingType, Zenon
<1>. QED
    BY <1>1, <1>6, <1>7, <1>8

\* Changing what one task has been asked for changes the count by what it gains.
LEMMA RequestedByExcept ==
    ASSUME requestedBy \in [Keys -> Seq(TaskRequest)],
           requestedBy' \in [Keys -> Seq(TaskRequest)], NEW i \in Keys,
           \A j \in Keys : j # i => requestedBy'[j] = requestedBy[j], NEW t
    PROVE  RequestsHeld(t, requestedBy') = RequestsHeld(t, requestedBy)
             - RequestsOf(t, requestedBy[i]) + RequestsOf(t, requestedBy'[i])
BY HeldExcept, ZenonT(30)

\* A finished task hands its value to the tasks that requested it.
LEMMA FinishingKeepsRequests ==
    ASSUME TypeOK, RequestInv, WorkerInv,
           ProcessFinishedTask \/ SetRuleResultFails
    PROVE  RequestInv'
<1>1. ASSUME NEW k \in Keys, FinishStep(k)
      PROVE  /\ \A t \in Keys : Waiting(t)' <=> Waiting(t)
             /\ UNCHANGED <<waitCount, readyTaskInfos, pausedInputRequests>>
  <2>1. Computing(k)
    BY <1>1, FinishedTaskComputing, Zenon
  <2>2. state' = [state EXCEPT ![k] = "Complete"] /\ state \in [Keys -> StateKind]
    BY <1>1, Zenon DEF FinishStep, TypeOK
  <2>3. UNCHANGED <<waitCount, readyTaskInfos, pausedInputRequests>>
    BY <1>1, Zenon DEF FinishStep
  <2>. QED
    BY <2>1, <2>2, <2>3, Zenon DEF Waiting, Computing
<1>2. taskInfos \subseteq Keys
    BY Zenon DEF TypeOK
<1>3. CASE ProcessFinishedTask
  <2>1. PICK k \in Keys :
        /\ FinishStep(k)
        /\ finishedInputRequests' = finishedInputRequests \o requestedBy[k]
        /\ requestedBy' = [requestedBy EXCEPT ![k] = <<>>]
    BY <1>2, <1>3, Zenon DEF ProcessFinishedTask
  <2>2. /\ finishedInputRequests \in Seq(TaskRequest)
        /\ requestedBy \in [Keys -> Seq(TaskRequest)]
        /\ requestedBy[k] \in Seq(TaskRequest)
    BY Zenon DEF TypeOK
  <2>3. /\ requestedBy' \in [Keys -> Seq(TaskRequest)] /\ requestedBy'[k] = <<>>
        /\ \A j \in Keys : j # k => requestedBy'[j] = requestedBy[j]
    BY <2>1, <2>2
  <2>4. \A t \in Keys : Pending(t)' = Pending(t)
    <3>1. TAKE t \in Keys
    <3>2. RequestsOf(t, finishedInputRequests') =
            RequestsOf(t, finishedInputRequests) + RequestsOf(t, requestedBy[k])
        BY <2>1, <2>2, CountConcat, Zenon
    <3>3. RequestsHeld(t, requestedBy') =
            RequestsHeld(t, requestedBy) - RequestsOf(t, requestedBy[k])
                + RequestsOf(t, requestedBy'[k])
        BY <2>2, <2>3, RequestedByExcept, Zenon
    <3>4. RequestsOf(t, requestedBy'[k]) = 0 /\ RequestsOf(t, requestedBy[k]) \in Nat
        BY <2>2, <2>3, CountEmpty, PositionsFinite, Zenon
    <3>5. /\ RequestsOf(t, inputRequests') = RequestsOf(t, inputRequests)
          /\ RequestsHeld(t, pausedInputRequests') = RequestsHeld(t, pausedInputRequests)
        BY <1>1, <2>1, DummyRequests, Zenon
    <3>6. Pending(t)' = RequestsOf(t, inputRequests')
              + RequestsOf(t, finishedInputRequests')
              + RequestsHeld(t, requestedBy') + RequestsHeld(t, pausedInputRequests')
        BY Zenon DEF Pending
    <3>7. Pending(t) = RequestsOf(t, inputRequests)
              + RequestsOf(t, finishedInputRequests)
              + RequestsHeld(t, requestedBy) + RequestsHeld(t, pausedInputRequests)
        BY Zenon DEF Pending
    <3>. QED
        BY <3>2, <3>3, <3>4, <3>5, <3>6, <3>7, PendingType, SMTT(60)
  <2>. QED
    BY <1>1, <2>1, <2>4, MovedRequests, Zenon
<1>4. CASE SetRuleResultFails
  <2>1. PICK k \in Keys : FinishStep(k)
    BY <1>2, <1>4, Zenon DEF SetRuleResultFails
  <2>2. UNCHANGED <<requestedBy, finishedInputRequests>>
    BY <1>4, Zenon DEF SetRuleResultFails
  <2>3. \A t \in Keys : Pending(t)' = Pending(t)
    BY <1>1, <2>1, <2>2, DummyRequests, Zenon DEF Pending
  <2>. QED
    BY <1>1, <2>1, <2>3, MovedRequests, Zenon
<1>. QED
    BY <1>3, <1>4, Zenon

\* How a cycle is broken: a rule that is being scanned is forced to run, or a
\* task is given the prior value of an input whose task is under way.
LEMMA BreakCycleCases ==
    ASSUME BreakCycle
    PROVE  \/ \E k \in Keys : ForceBuild(k)
           \/ \E k, i \in Keys : SupplyPriorValue(k, i)
<1>1. PICK c \in CycleLists : \E n \in DOMAIN c :
        \/ ForceBuild(c[n])
        \/ n > 1 /\ SupplyPriorValue(c[n - 1], c[n])
    BY Zenon DEF BreakCycle
<1>2. PICK n \in DOMAIN c :
        \/ ForceBuild(c[n])
        \/ n > 1 /\ SupplyPriorValue(c[n - 1], c[n])
    BY <1>1, Zenon
<1>3. PICK m \in 2..(Cardinality(Keys) + 1) : c \in [1..m -> Keys]
    BY Zenon DEF CycleLists
<1>4. Cardinality(Keys) \in Nat
    BY BoundsAssumption, FS_CardinalityType, Zenon
<1>5. m \in Nat /\ n \in 1..m
    BY <1>3, <1>4
<1>6. c[n] \in Keys
    BY <1>3, <1>5, Zenon
<1>7. n > 1 => c[n - 1] \in Keys
    BY <1>3, <1>5
<1>. QED
    BY <1>2, <1>6, <1>7, Zenon

\* The request that is answered with a prior value leaves the task of its input.
LEMMA SuppliedRequests ==
    ASSUME TypeOK, NEW k \in Keys, NEW i \in Keys, SupplyPriorValue(k, i)
    PROVE  \A t \in Keys : Pending(t)' = Pending(t)
<1>1. PICK n \in DOMAIN requestedBy[i] :
        /\ finishedInputRequests' = Append(finishedInputRequests,
                [requestedBy[i][n] EXCEPT !.forcePriorValue = TRUE])
        /\ requestedBy' = [requestedBy EXCEPT ![i] = Erase(requestedBy[i], n)]
    BY Zenon DEF SupplyPriorValue
<1>2. UNCHANGED <<inputRequests, pausedInputRequests>>
    BY Zenon DEF SupplyPriorValue, scanVars
<1>3. /\ requestedBy \in [Keys -> Seq(TaskRequest)]
      /\ requestedBy[i] \in Seq(TaskRequest)
      /\ finishedInputRequests \in Seq(TaskRequest)
    BY Zenon DEF TypeOK
<1> DEFINE r == requestedBy[i][n]
           p == [r EXCEPT !.forcePriorValue = TRUE]
<1>4. r \in TaskRequest
    BY <1>3, LenProperties, ElementOfSeq, Zenon
<1>5. p \in TaskRequest /\ p.task = r.task
    BY <1>4, Zenon DEF TaskRequest, TaskInputRequest
<1>6. Erase(requestedBy[i], n) \in Seq(TaskRequest)
    BY <1>3, EraseType, Zenon
<1>7. /\ requestedBy' \in [Keys -> Seq(TaskRequest)]
      /\ requestedBy'[i] = Erase(requestedBy[i], n)
      /\ \A j \in Keys : j # i => requestedBy'[j] = requestedBy[j]
    BY <1>1, <1>3, <1>6, Zenon
<1>8. finishedInputRequests' = Append(finishedInputRequests, p)
    BY <1>1, Zenon
<1> HIDE DEF p
<1>9. TAKE t \in Keys
<1> DEFINE own == IF r.task = t THEN 1 ELSE 0
<1>10. RequestsOf(t, finishedInputRequests') =
         RequestsOf(t, finishedInputRequests) + own
  <2>1. RequestsOf(t, Append(finishedInputRequests, p)) =
          RequestsOf(t, finishedInputRequests) + IF p.task = t THEN 1 ELSE 0
    BY <1>3, <1>5, CountAppend, Zenon
  <2>. QED
    BY <1>5, <1>8, <2>1, Zenon
<1>11. RequestsHeld(t, requestedBy') = RequestsHeld(t, requestedBy)
         - RequestsOf(t, requestedBy[i]) + RequestsOf(t, requestedBy'[i])
  <2>1. \A j \in Keys : j # i => requestedBy'[j] = requestedBy[j]
    BY <1>7, Zenon
  <2>2. /\ requestedBy \in [Keys -> Seq(TaskRequest)]
        /\ requestedBy' \in [Keys -> Seq(TaskRequest)]
    BY <1>3, <1>7, Zenon
  <2>. QED
    BY <2>1, <2>2, RequestedByExcept, Zenon
<1>12. RequestsOf(t, requestedBy'[i]) = RequestsOf(t, requestedBy[i]) - own
  <2>1. RequestsOf(t, Erase(requestedBy[i], n)) = RequestsOf(t, requestedBy[i]) - own
    BY <1>3, CountErase, Zenon
  <2>. QED
    BY <1>7, <2>1, Zenon
<1>13. RequestsOf(t, requestedBy[i]) \in Nat /\ own \in Nat
    BY <1>3, PositionsFinite, Zenon
<1> HIDE DEF own
<1>14. /\ RequestsOf(t, inputRequests') = RequestsOf(t, inputRequests)
       /\ RequestsHeld(t, pausedInputRequests') = RequestsHeld(t, pausedInputRequests)
    BY <1>2, Zenon
<1>15. Pending(t)' = RequestsOf(t, inputRequests') + RequestsOf(t, finishedInputRequests')
          + RequestsHeld(t, requestedBy') + RequestsHeld(t, pausedInputRequests')
    BY Zenon DEF Pending
<1>16. Pending(t) = RequestsOf(t, inputRequests) + RequestsOf(t, finishedInputRequests)
          + RequestsHeld(t, requestedBy) + RequestsHeld(t, pausedInputRequests)
    BY Zenon DEF Pending
<1>. QED
    BY <1>10, <1>11, <1>12, <1>13, <1>14, <1>15, <1>16, PendingType

\* Breaking a cycle, or giving up on it.
LEMMA CycleKeepsRequests ==
    ASSUME TypeOK, RequestInv, BreakCycle \/ ReadPastCycle \/ CycleDetected
    PROVE  RequestInv'
<1>1. ASSUME NEW k \in Keys, ForceBuild(k)
      PROVE  RequestInv'
  <2>1. \A t \in Keys : Pending(t)' = Pending(t)
    BY <1>1, ResumedRequests, Zenon DEF ForceBuild
  <2>2. \A t \in Keys : Waiting(t)' <=> Waiting(t)
    BY <1>1, Zenon DEF ForceBuild, IsScanning, Waiting, TypeOK
  <2>. QED
    BY <1>1, <2>1, <2>2, MovedRequests, Zenon DEF ForceBuild, CycleStep
<1>2. ASSUME NEW k \in Keys, NEW i \in Keys, SupplyPriorValue(k, i)
      PROVE  RequestInv'
  <2>1. \A t \in Keys : Pending(t)' = Pending(t)
    BY <1>2, SuppliedRequests, Zenon
  <2>2. \A t \in Keys : Waiting(t)' <=> Waiting(t)
    BY <1>2, Zenon DEF SupplyPriorValue, Waiting
  <2>. QED
    BY <1>2, <2>1, <2>2, MovedRequests, Zenon DEF SupplyPriorValue, CycleStep
<1>3. CASE ReadPastCycle \/ CycleDetected
    BY <1>3, SameRequests, Zenon
       DEF ReadPastCycle, CycleDetected, CycleStep, scanVars, inputVars
<1>. QED
    BY <1>1, <1>2, <1>3, BreakCycleCases, Zenon

\* Without tasks there are no requests.
LEMMA NoRequests ==
    ASSUME \A k \in Keys : ~Waiting(k)',
           requestedBy' = [k \in Keys |-> <<>>],
           pausedInputRequests' = [k \in Keys |-> <<>>],
           inputRequests' = <<>>, finishedInputRequests' = <<>>,
           readyTaskInfos' = <<>>
    PROVE  RequestInv'
<1>1. \A t \in Keys : Pending(t)' = 0
    BY CountEmpty, HeldEmpty DEF Pending
<1>2. InRange(readyTaskInfos)' = {} /\ IsDistinct(readyTaskInfos)'
    BY DEF InRange, IsDistinct
<1>. QED
    BY <1>1, <1>2, Zenon DEF RequestInv

\* A new build starts with a dummy request.
LEMMA BuildKeepsRequests ==
    ASSUME TypeOK, RequestInv, QueueInv, NEW k \in Roots, Build(k)
    PROVE  RequestInv'
<1> DEFINE r == [task |-> NoKey, input |-> k, orderOnly |-> FALSE,
                 singleUse |-> FALSE, forcePriorValue |-> FALSE]
<1>1. /\ pc = "idle" /\ finishedInputRequests' = <<>>
      /\ inputRequests' = Append(inputRequests, r)
      /\ UNCHANGED <<state, waitCount, requestedBy, pausedInputRequests,
                     readyTaskInfos>>
    BY Zenon DEF Build, ruleVars, taskVars, scanVars
<1>2. finishedInputRequests = <<>> /\ inputRequests \in Seq(TaskInputRequest)
    BY <1>1, Zenon DEF QueueInv, TypeOK
<1>3. r \in TaskInputRequest /\ NoKey \notin Keys /\ r.task = NoKey
    BY ClientAssumption, Zenon DEF TaskInputRequest
<1> HIDE DEF r
<1>4. \A t \in Keys : Pending(t)' = Pending(t)
  <2>1. TAKE t \in Keys
  <2>2. RequestsOf(t, Append(inputRequests, r)) =
          RequestsOf(t, inputRequests) + IF r.task = t THEN 1 ELSE 0
    BY <1>2, <1>3, CountAppend, Zenon
  <2>3. RequestsOf(t, inputRequests') = RequestsOf(t, inputRequests)
    BY <1>1, <1>3, <2>2, PendingType
  <2>. QED
    BY <1>1, <1>2, <2>3, Zenon DEF Pending
<1>5. \A t \in Keys : Waiting(t)' <=> Waiting(t)
    BY <1>1, Zenon DEF Waiting
<1>. QED
    BY <1>1, <1>4, <1>5, MovedRequests, Zenon

\* Tasks are dropped by a cancellation or with their process.
LEMMA DroppingKeepsRequests ==
    ASSUME TypeOK, TaskInv, CancelTasks \/ Restart
    PROVE  RequestInv'
<1>1. CASE CancelTasks
  <2>1. \A k \in Keys : ~Waiting(k)'
    BY <1>1, Zenon DEF CancelTasks, CancelledState, TaskInv, Waiting
  <2>. QED
    BY <1>1, <2>1, NoRequests, Zenon DEF CancelTasks
<1>2. CASE Restart
  <2>1. \A k \in Keys : ~Waiting(k)'
    BY <1>2, Zenon DEF Restart, Waiting
  <2>. QED
    BY <1>2, <2>1, NoRequests, Zenon DEF Restart
<1>. QED
    BY <1>1, <1>2, Zenon

\* Every step keeps the requests accounted for.
LEMMA NextKeepsRequests ==
    ASSUME EngineInv, [Next]_vars
    PROVE  RequestInv'
<1>1. TypeOK /\ RequestInv /\ TaskInv /\ WorkerInv /\ QueueInv
    BY Zenon DEF EngineInv
<1>2. CASE LoopTop \/ NextQueue \/ LoopBottom \/ WaitForTask \/ SpuriousWakeup
    BY <1>1, <1>2, SameRequests, Zenon
       DEF LoopTop, NextQueue, LoopBottom, WaitForTask, SpuriousWakeup,
           Unchanged, ruleVars, taskVars, scanVars, inputVars
<1>3. CASE DrainFinishedTasks
    BY <1>1, <1>3, SameRequests, Zenon
       DEF DrainFinishedTasks, ruleVars, taskVars, scanVars, inputVars
<1>4. CASE BuildReturns \/ SetCurrentIterationFails
    BY <1>1, <1>4, SameRequests, Zenon
       DEF BuildReturns, SetCurrentIterationFails, FinishBuild, ruleVars,
           taskVars, scanVars, inputVars
<1>5. ASSUME NEW k \in Keys, Worker(k)
      PROVE  RequestInv'
    BY <1>1, <1>5, SameRequests, Zenon
       DEF Worker, TaskIsComplete, NotifyEngine, ruleVars, taskVars, scanVars,
           inputVars
<1>6. ASSUME NEW k \in Roots, BuildRefused(k)
      PROVE  RequestInv'
    BY <1>1, <1>6, SameRequests, Zenon
       DEF BuildRefused, ruleVars, taskVars, scanVars, inputVars
<1>7. CASE CancelBuild \/ ResetForBuild \/ EditFiles
    BY <1>1, <1>7, SameRequests, Zenon
       DEF CancelBuild, ResetForBuild, EditFiles, ruleVars, taskVars, scanVars,
           inputVars
<1>8. CASE Idle \/ UNCHANGED vars
    BY <1>1, <1>8, SameRequests, Zenon DEF Idle, vars
<1>9. CASE Engine
    BY <1>1, <1>2, <1>3, <1>4, <1>9, ScanKeepsRequests, InputsKeepRequests,
       ProvidingKeepsRequests, ReadyKeepsRequests, FinishingKeepsRequests,
       CycleKeepsRequests, DroppingKeepsRequests, Zenon DEF Engine
<1>10. CASE Client
    BY <1>1, <1>6, <1>7, <1>8, <1>10, BuildKeepsRequests, DroppingKeepsRequests, Zenon
       DEF Client
<1>11. CASE Fault
    BY <1>1, <1>2, <1>4, <1>11, FinishingKeepsRequests, Zenon DEF Fault
<1>. QED
    BY <1>5, <1>8, <1>9, <1>10, <1>11, Zenon DEF Next


-----------------------------------------------------------------------------
(* Tasks and workers.                                                      *)

\* Steps that change no task; only a cancellation ends a cancellation.
LEMMA SameTasks ==
    ASSUME TaskInv,
           \A k \in Keys : Waiting(k)' <=> Waiting(k),
           \A k \in Keys : Computing(k)' <=> Computing(k),
           taskInfos \subseteq Keys, UNCHANGED taskInfos,
           Cancelling => Cancelling',
           pc' \in {"idle", "end"} => taskInfos = {}
    PROVE  TaskInv'
BY Zenon DEF TaskInv

\* Steps that change no worker's task.
LEMMA SameWorkers ==
    ASSUME WorkerInv,
           executing \subseteq Keys, InRange(finishedTaskInfos) \subseteq Keys,
           \A k \in Keys : Computing(k)' <=> Computing(k),
           UNCHANGED <<executing, finishedTaskInfos, numOutstandingUnfinishedTasks>>,
           Cancelling => Cancelling'
    PROVE  WorkerInv'
BY Zenon DEF WorkerInv, InRange, IsDistinct, OutstandingAccounted

\* What the type invariant says of tasks.
LEMMA TaskTypes ==
    ASSUME TypeOK
    PROVE  /\ taskInfos \subseteq Keys /\ executing \subseteq Keys
           /\ InRange(finishedTaskInfos) \subseteq Keys
           /\ InRange(readyTaskInfos) \subseteq Keys
           /\ Len(finishedTaskInfos) \in Nat
           /\ finishedTaskInfos \in Seq(Keys)
           /\ IsFiniteSet(executing) /\ Cardinality(executing) \in Nat
           /\ numOutstandingUnfinishedTasks \in Int
<1>1. /\ taskInfos \subseteq Keys /\ executing \subseteq Keys
      /\ finishedTaskInfos \in Seq(Keys) /\ readyTaskInfos \in Seq(Keys)
      /\ numOutstandingUnfinishedTasks \in Int
    BY Zenon DEF TypeOK
<1>2. /\ InRange(finishedTaskInfos) \subseteq Keys
      /\ InRange(readyTaskInfos) \subseteq Keys
    BY <1>1 DEF InRange
<1>3. Len(finishedTaskInfos) \in Nat
    BY <1>1, LenProperties, Zenon
<1>4. executing \in SUBSET Keys /\ IsFiniteSet(Keys)
    BY <1>1, BoundsAssumption, Zenon
<1>5. IsFiniteSet(executing)
    BY <1>4, FS_Subset, Zenon
<1>6. Cardinality(executing) \in Nat
    BY <1>5, FS_CardinalityType, Zenon
<1>. QED
    BY <1>1, <1>2, <1>3, <1>5, <1>6, ZenonT(60)

\* A rule is demanded: its task may be registered, and it waits.
LEMMA DemandedTasks ==
    ASSUME TypeOK, TaskInv, WorkerInv, NEW k \in Keys,
           NEW queue \in Seq(TaskInputRequest),
           ScanAndDemand(k, queue), state' = StateDemanded(k),
           UNCHANGED <<pc, executing, finishedTaskInfos,
                       numOutstandingUnfinishedTasks>>,
           pc \notin {"idle", "end"}
    PROVE  TaskInv' /\ WorkerInv'
<1>1. /\ \A j \in Keys : j # k => state'[j] = state[j]
      /\ ScanRule(k) = "NeedsToRun" =>
            state'[k] = "InProgressWaiting" /\ ~Waiting(k) /\ ~Computing(k)
      /\ ScanRule(k) # "NeedsToRun" =>
            /\ state'[k] = "InProgressWaiting" <=> Waiting(k)
            /\ state'[k] = "InProgressComputing" <=> Computing(k)
    BY DemandState, Zenon
<1>2. taskInfos' = IF ScanRule(k) = "NeedsToRun" THEN taskInfos \cup {k}
                                                 ELSE taskInfos
    BY Zenon DEF ScanAndDemand
<1>3. \A j \in Keys : Computing(j)' <=> Computing(j)
    BY <1>1, Zenon DEF Computing
<1>4. \A j \in Keys : Waiting(j)' <=>
            Waiting(j) \/ (j = k /\ ScanRule(k) = "NeedsToRun")
    BY <1>1, Zenon DEF Waiting
<1>5. Cancelling' <=> Cancelling
    BY Zenon DEF Cancelling
<1>6. WorkerInv'
    BY <1>3, <1>5, TaskTypes, SameWorkers, Zenon
<1>7. TaskInv'
    BY <1>2, <1>3, <1>4, <1>5, TaskTypes, Zenon DEF TaskInv
<1>. QED
    BY <1>6, <1>7, Zenon

\* Scanning demands rules and settles verdicts, neither of which ends a task.
LEMMA ScanKeepsTasks ==
    ASSUME TypeOK, TaskInv, WorkerInv, ProcessRuleScanRequest
    PROVE  TaskInv' /\ WorkerInv'
<1>1. /\ pc = "scan" /\ ruleInfosToScan # <<>>
      /\ UNCHANGED <<pc, executing, finishedTaskInfos,
                     numOutstandingUnfinishedTasks>>
    BY Zenon DEF ProcessRuleScanRequest, ScanIgnored, ScanSingleUse, ScanDeferred,
           ScanNextInput, ScanInputRebuilt, ScanUpToDate, ScanStep, workerVars
<1>2. state \in [Keys -> StateKind] /\ inputRequests \in Seq(TaskInputRequest)
    BY Zenon DEF TypeOK
<1>3. CASE ScanDeferred \/ ScanNextInput
  <2> DEFINE i == dependency.key
  <2>1. HasInput
    BY <1>3, Zenon DEF ScanDeferred, ScanNextInput
  <2>2. i \in Keys
    BY <1>1, <2>1, ScanStackType, Zenon DEF Dependency
  <2>3. ScanAndDemand(i, inputRequests) /\ state' = StateDemanded(i)
    BY <1>3, Zenon DEF ScanDeferred, ScanNextInput
  <2> HIDE DEF i
  <2>4. pc \notin {"idle", "end"}
    BY <1>1, Zenon
  <2>. QED
    BY <1>1, <1>2, <2>2, <2>3, <2>4, DemandedTasks, Zenon
<1>4. ASSUME UNCHANGED taskInfos,
             \A k \in Keys : Waiting(k)' <=> Waiting(k),
             \A k \in Keys : Computing(k)' <=> Computing(k)
      PROVE  TaskInv' /\ WorkerInv'
  <2>1. (Cancelling => Cancelling') /\ (pc' \in {"idle", "end"} => taskInfos = {})
    BY <1>1, Zenon DEF Cancelling
  <2>2. TaskInv'
    BY <1>4, <2>1, TaskTypes, SameTasks, Zenon
  <2>3. WorkerInv'
    BY <1>1, <1>4, <2>1, TaskTypes, SameWorkers, Zenon
  <2>. QED
    BY <2>2, <2>3, Zenon
<1>5. CASE ScanIgnored \/ ScanSingleUse
  <2>1. UNCHANGED <<taskInfos, state>>
    BY <1>5, Zenon DEF ScanIgnored, ScanSingleUse, ruleVars, taskVars
  <2>. QED
    BY <1>4, <2>1, Zenon DEF Waiting, Computing
<1>6. CASE ScanInputRebuilt
  <2> DEFINE i == dependency.key
  <2>1. HasInput /\ IsAvailable(i) /\ UNCHANGED taskInfos
    BY <1>6, Zenon DEF ScanInputRebuilt, taskVars
  <2>2. i \in Keys /\ scanned \in Keys
    BY <1>1, <2>1, ScanStackType, Zenon DEF Dependency
  <2>3. state' = [StateDemanded(i) EXCEPT ![scanned] = "NeedsToRun"]
    BY <1>6, Zenon DEF ScanInputRebuilt
  <2>4. ScanRule(i) # "NeedsToRun" /\ state[scanned] = "IsScanning"
    BY <2>1, Zenon DEF IsAvailable, HasInput, IsScanning
  <2> HIDE DEF i
  <2>5. /\ StateDemanded(i) \in [Keys -> StateKind]
        /\ \A j \in Keys : j # i => StateDemanded(i)[j] = state[j]
        /\ StateDemanded(i)[i] = "InProgressWaiting" <=> Waiting(i)
        /\ StateDemanded(i)[i] = "InProgressComputing" <=> Computing(i)
    BY <2>2, <2>4, DemandState, Zenon
  <2>6. \A j \in Keys : (Waiting(j)' <=> Waiting(j)) /\ (Computing(j)' <=> Computing(j))
    BY <2>2, <2>3, <2>4, <2>5, Zenon DEF Waiting, Computing
  <2>. QED
    BY <1>4, <2>1, <2>6, Zenon
<1>7. CASE ScanUpToDate
  <2>1. /\ state' = [state EXCEPT ![scanned] = "DoesNotNeedToRun"]
        /\ state[scanned] = "IsScanning" /\ UNCHANGED taskInfos
    BY <1>7, Zenon DEF ScanUpToDate, IsScanning, taskVars
  <2>. QED
    BY <1>2, <1>4, <2>1, Zenon DEF Waiting, Computing
<1>. QED
    BY <1>3, <1>5, <1>6, <1>7, Zenon DEF ProcessRuleScanRequest

\* Taking an input request demands its rule.
LEMMA InputsKeepTasks ==
    ASSUME TypeOK, TaskInv, WorkerInv, PauseInputRequest \/ ProcessInputRequest
    PROVE  TaskInv' /\ WorkerInv'
<1> DEFINE i == inputRequest.input
<1>1. /\ inputRequests # <<>> /\ pc = "inputs"
      /\ UNCHANGED <<pc, executing, finishedTaskInfos,
                     numOutstandingUnfinishedTasks>>
      /\ ScanAndDemand(i, Tail(inputRequests)) /\ state' = StateDemanded(i)
    BY Zenon DEF PauseInputRequest, ProcessInputRequest, InputStep, workerVars
<1>2. inputRequests \in Seq(TaskInputRequest)
    BY Zenon DEF TypeOK
<1>3. Tail(inputRequests) \in Seq(TaskInputRequest) /\ inputRequest \in TaskInputRequest
    BY <1>1, <1>2, HeadTailProperties, Zenon DEF inputRequest
<1>4. i \in Keys /\ pc \notin {"idle", "end"}
    BY <1>1, <1>3, Zenon DEF TaskInputRequest
<1> HIDE DEF i
<1>. QED
    BY <1>1, <1>3, <1>4, DemandedTasks, Zenon

\* A ready task goes to a worker, which makes one more outstanding.
LEMMA ReadyKeepsTasks ==
    ASSUME TypeOK, RequestInv, TaskInv, WorkerInv, ProcessReadyTask
    PROVE  TaskInv' /\ WorkerInv'
<1>1. PICK k \in Keys :
      /\ k \in InRange(readyTaskInfos)
      /\ state' = [state EXCEPT ![k] = "InProgressComputing"]
      /\ executing' = executing \cup {k}
  <2>1. readyTaskInfos # <<>> /\ readyTaskInfos \in Seq(Keys)
    BY Zenon DEF ProcessReadyTask, TypeOK
  <2>2. IsDistinct(readyTaskInfos)
    BY Zenon DEF RequestInv
  <2>3. Head(readyTaskInfos) \in InRange(readyTaskInfos)
    BY <2>1, <2>2, TailDistinct, Zenon
  <2>4. Head(readyTaskInfos) \in Keys
    BY <2>1, HeadTailProperties, Zenon
  <2>. QED
    BY <2>3, <2>4, Zenon DEF ProcessReadyTask
<1>2. /\ pc = "ready" /\ UNCHANGED <<pc, taskInfos, finishedTaskInfos>>
      /\ numOutstandingUnfinishedTasks' = numOutstandingUnfinishedTasks + 1
    BY Zenon DEF ProcessReadyTask, taskVars
<1>3. Waiting(k) /\ ~Computing(k)
    BY <1>1, Zenon DEF RequestInv, Waiting, Computing
<1>4. /\ \A j \in Keys : Computing(j)' <=> Computing(j) \/ j = k
      /\ \A j \in Keys : Waiting(j)' <=> Waiting(j) /\ j # k
    BY <1>1, Zenon DEF Waiting, Computing, TypeOK
<1>5. ~Cancelling /\ ~Cancelling'
    BY <1>2, Zenon DEF Cancelling
<1>6. TaskInv'
    BY <1>2, <1>3, <1>4, <1>5, TaskTypes, Zenon DEF TaskInv
<1>7. k \notin executing /\ k \notin InRange(finishedTaskInfos)
    BY <1>3, Zenon DEF WorkerInv
<1>8. OutstandingAccounted'
  <2>1. IsFiniteSet(executing) /\ Cardinality(executing) \in Nat
        /\ Len(finishedTaskInfos) \in Nat
    BY TaskTypes, Zenon
  <2>2. Cardinality(executing') = Cardinality(executing) + 1
    BY <1>1, <1>7, <2>1, FS_AddElement, Zenon
  <2>3. numOutstandingUnfinishedTasks =
            Cardinality(executing) + Len(finishedTaskInfos)
    BY Zenon DEF WorkerInv, OutstandingAccounted
  <2>. QED
    BY <1>2, <2>1, <2>2, <2>3 DEF OutstandingAccounted
<1>9. InRange(finishedTaskInfos') = InRange(finishedTaskInfos)
      /\ (IsDistinct(finishedTaskInfos') <=> IsDistinct(finishedTaskInfos))
    BY <1>2, Zenon
<1>10. WorkerInv'
    BY <1>1, <1>3, <1>4, <1>5, <1>7, <1>8, <1>9, TaskTypes, Zenon DEF WorkerInv
<1>. QED
    BY <1>6, <1>10, Zenon

\* A finished task leaves the queue; its rule is complete, and it is no longer
\* registered unless the database refused its result.
LEMMA FinishingKeepsTasks ==
    ASSUME TypeOK, TaskInv, WorkerInv,
           ProcessFinishedTask \/ SetRuleResultFails
    PROVE  TaskInv' /\ WorkerInv'
<1>1. PICK k \in Keys :
      /\ FinishStep(k)
      /\ \/ pc' = pc /\ taskInfos' = taskInfos \ {k}
         \/ pc' = "cancel" /\ UNCHANGED taskInfos
    BY TaskTypes, Zenon DEF ProcessFinishedTask, SetRuleResultFails
<1>2. /\ pc = "finishedTasks" /\ UNCHANGED executing
      /\ state' = [state EXCEPT ![k] = "Complete"]
      /\ numOutstandingUnfinishedTasks' = numOutstandingUnfinishedTasks - 1
    BY <1>1, Zenon DEF FinishStep
<1>3. /\ k \in InRange(finishedTaskInfos) /\ Computing(k)
      /\ InRange(finishedTaskInfos') = InRange(finishedTaskInfos) \ {k}
      /\ IsDistinct(finishedTaskInfos')
      /\ Len(finishedTaskInfos') = Len(finishedTaskInfos) - 1
    BY <1>1, FinishedTaskComputing, Zenon
<1>4. /\ \A j \in Keys : Computing(j)' <=> Computing(j) /\ j # k
      /\ \A j \in Keys : Waiting(j)' <=> Waiting(j)
    BY <1>2, <1>3, Zenon DEF Waiting, Computing, TypeOK
<1>5. ~Cancelling /\ (pc' = "cancel" => Cancelling')
    BY <1>2, Zenon DEF Cancelling
<1>6. TaskInv'
  <2>1. /\ \A j \in Keys : Waiting(j) \/ Computing(j) => j \in taskInfos
        /\ \A j \in taskInfos : Waiting(j) \/ Computing(j)
        /\ taskInfos \subseteq Keys
    BY <1>5, TaskTypes, Zenon DEF TaskInv
  <2>2. pc' \notin {"idle", "end"}
    BY <1>1, <1>2, Zenon
  <2>3. ~Waiting(k)
    BY <1>3, Zenon DEF Waiting, Computing
  <2>4. \A j \in Keys : Waiting(j)' \/ Computing(j)' => j \in taskInfos'
    BY <1>1, <1>4, <2>1, <2>3, Zenon
  <2>5. \A j \in taskInfos' : Waiting(j)' \/ Computing(j)' \/ Cancelling'
    BY <1>1, <1>4, <1>5, <2>1, Zenon
  <2>. QED
    BY <2>2, <2>4, <2>5, Zenon DEF TaskInv
<1>7. OutstandingAccounted'
  <2>1. Cardinality(executing) \in Nat /\ Len(finishedTaskInfos) \in Nat
    BY TaskTypes, Zenon
  <2>2. numOutstandingUnfinishedTasks =
            Cardinality(executing) + Len(finishedTaskInfos)
    BY Zenon DEF WorkerInv, OutstandingAccounted
  <2>. QED
    BY <1>2, <1>3, <2>1, <2>2 DEF OutstandingAccounted
<1>8. k \notin executing
    BY <1>3, Zenon DEF WorkerInv
<1>9. WorkerInv'
    BY <1>2, <1>3, <1>4, <1>5, <1>7, <1>8, TaskTypes, Zenon DEF WorkerInv
<1>. QED
    BY <1>6, <1>9, Zenon

\* A worker queues its task.
LEMMA CompletionKeepsTasks ==
    ASSUME TypeOK, TaskInv, WorkerInv, NEW k \in Keys, TaskIsComplete(k)
    PROVE  TaskInv' /\ WorkerInv'
<1>1. /\ k \in executing /\ executing' = executing \ {k}
      /\ finishedTaskInfos' = Append(finishedTaskInfos, k)
      /\ UNCHANGED <<pc, state, taskInfos, numOutstandingUnfinishedTasks>>
    BY Zenon DEF TaskIsComplete, taskVars
<1>2. \A j \in Keys : (Waiting(j)' <=> Waiting(j)) /\ (Computing(j)' <=> Computing(j))
    BY <1>1, Zenon DEF Waiting, Computing
<1>3. Cancelling' <=> Cancelling
    BY <1>1, Zenon DEF Cancelling
<1>4. TaskInv'
    BY <1>1, <1>2, <1>3, TaskTypes, Zenon DEF TaskInv
<1>5. finishedTaskInfos \in Seq(Keys)
    BY TaskTypes, Zenon
<1>6. k \notin InRange(finishedTaskInfos) /\ IsDistinct(finishedTaskInfos)
    BY <1>1, Zenon DEF WorkerInv
<1>7. /\ InRange(finishedTaskInfos') = InRange(finishedTaskInfos) \cup {k}
      /\ IsDistinct(finishedTaskInfos')
    BY <1>1, <1>5, <1>6, AppendDistinct
<1>8. OutstandingAccounted'
  <2>1. /\ IsFiniteSet(executing) /\ Cardinality(executing) \in Nat
        /\ Len(finishedTaskInfos) \in Nat
    BY TaskTypes, Zenon
  <2>2. Cardinality(executing') = Cardinality(executing) - 1
    BY <1>1, <2>1, FS_RemoveElement, Zenon
  <2>3. Len(finishedTaskInfos') = Len(finishedTaskInfos) + 1
    BY <1>1, <1>5, AppendProperties, Zenon
  <2>4. numOutstandingUnfinishedTasks =
            Cardinality(executing) + Len(finishedTaskInfos)
    BY Zenon DEF WorkerInv, OutstandingAccounted
  <2>. QED
    BY <1>1, <2>1, <2>2, <2>3, <2>4 DEF OutstandingAccounted
<1>9. WorkerInv'
    BY <1>1, <1>2, <1>3, <1>6, <1>7, <1>8, TaskTypes, Zenon DEF WorkerInv
<1>. QED
    BY <1>4, <1>9, Zenon

\* A cancellation forgets the finished tasks.
LEMMA DrainKeepsTasks ==
    ASSUME TypeOK, TaskInv, WorkerInv, DrainFinishedTasks
    PROVE  TaskInv' /\ WorkerInv'
<1>1. /\ pc = "cancel" /\ pc' \in {"cancel", "drainWaiting"}
      /\ finishedTaskInfos' = <<>>
      /\ numOutstandingUnfinishedTasks' =
            numOutstandingUnfinishedTasks - Len(finishedTaskInfos)
      /\ UNCHANGED <<state, taskInfos, executing>>
    BY Zenon DEF DrainFinishedTasks, OutstandingAfterDrain, ruleVars, taskVars
<1>2. \A j \in Keys : (Waiting(j)' <=> Waiting(j)) /\ (Computing(j)' <=> Computing(j))
    BY <1>1, Zenon DEF Waiting, Computing
<1>3. Cancelling'
    BY <1>1, Zenon DEF Cancelling
<1>4. TaskInv'
    BY <1>1, <1>2, <1>3, TaskTypes, Zenon DEF TaskInv
<1>5. InRange(finishedTaskInfos') = {} /\ IsDistinct(finishedTaskInfos')
    BY <1>1 DEF InRange, IsDistinct
<1>6. OutstandingAccounted'
  <2>1. /\ Cardinality(executing) \in Nat /\ Len(finishedTaskInfos) \in Nat
        /\ Len(finishedTaskInfos') = 0
    BY <1>1, TaskTypes, Zenon
  <2>2. numOutstandingUnfinishedTasks =
            Cardinality(executing) + Len(finishedTaskInfos)
    BY Zenon DEF WorkerInv, OutstandingAccounted
  <2>. QED
    BY <1>1, <2>1, <2>2 DEF OutstandingAccounted
<1>7. WorkerInv'
    BY <1>1, <1>2, <1>3, <1>5, <1>6, TaskTypes, Zenon DEF WorkerInv
<1>. QED
    BY <1>4, <1>7, Zenon

\* With none outstanding, no worker has a task and none is queued as finished.
LEMMA NoneOutstanding ==
    ASSUME TypeOK, WorkerInv, numOutstandingUnfinishedTasks = 0
    PROVE  executing = {} /\ finishedTaskInfos = <<>>
<1>1. /\ IsFiniteSet(executing) /\ Cardinality(executing) \in Nat
      /\ Len(finishedTaskInfos) \in Nat /\ finishedTaskInfos \in Seq(Keys)
    BY TaskTypes, Zenon
<1>2. 0 = Cardinality(executing) + Len(finishedTaskInfos)
    BY Zenon DEF WorkerInv, OutstandingAccounted
<1>3. Cardinality(executing) = 0 /\ Len(finishedTaskInfos) = 0
    BY <1>1, <1>2
<1>. QED
    BY <1>1, <1>3, FS_EmptySet, EmptySeq, Zenon

\* A cancellation, once drained, and a restart leave no task behind.
LEMMA DroppingKeepsTasks ==
    ASSUME TypeOK, TaskInv, WorkerInv, CancelTasks \/ Restart
    PROVE  TaskInv' /\ WorkerInv'
<1>1. /\ taskInfos' = {} /\ finishedTaskInfos' = <<>>
      /\ numOutstandingUnfinishedTasks' = 0 /\ executing' = {}
    BY NoneOutstanding, Zenon DEF CancelTasks, Restart
<1>2. \A k \in Keys : ~Waiting(k)' /\ ~Computing(k)'
  <2>1. CASE CancelTasks
    BY <2>1, Zenon DEF CancelTasks, CancelledState, TaskInv, Waiting, Computing
  <2>2. CASE Restart
    BY <2>2, Zenon DEF Restart, Waiting, Computing
  <2>. QED
    BY <2>1, <2>2, Zenon
<1>3. TaskInv'
    BY <1>1, <1>2, Zenon DEF TaskInv
<1>4. InRange(finishedTaskInfos') = {} /\ IsDistinct(finishedTaskInfos')
    BY <1>1 DEF InRange, IsDistinct
<1>5. Cardinality(executing') = 0 /\ Len(finishedTaskInfos') = 0
    BY <1>1, FS_EmptySet, Zenon
<1>6. OutstandingAccounted'
    BY <1>1, <1>5 DEF OutstandingAccounted
<1>7. WorkerInv'
    BY <1>1, <1>2, <1>4, <1>6, Zenon DEF WorkerInv
<1>. QED
    BY <1>3, <1>7, Zenon

\* Breaking a cycle forces a scanned rule to run or answers a request.
LEMMA CycleKeepsTasks ==
    ASSUME TypeOK, TaskInv, WorkerInv,
           BreakCycle \/ ReadPastCycle \/ CycleDetected
    PROVE  TaskInv' /\ WorkerInv'
<1>1. /\ pc = "cycle" /\ pc' \in {"top", "undefined", "cancel"}
      /\ UNCHANGED <<taskInfos, executing, finishedTaskInfos,
                     numOutstandingUnfinishedTasks>>
      /\ UNCHANGED state \/ \E k \in Keys : IsScanning(k) /\
            state' = [state EXCEPT ![k] = "NeedsToRun"]
    BY BreakCycleCases, Zenon
       DEF ReadPastCycle, CycleDetected, ForceBuild, SupplyPriorValue, CycleStep,
           workerVars
<1>2. \A j \in Keys : (Waiting(j)' <=> Waiting(j)) /\ (Computing(j)' <=> Computing(j))
    BY <1>1, Zenon DEF Waiting, Computing, IsScanning, TypeOK
<1>3. (Cancelling => Cancelling') /\ (pc' \in {"idle", "end"} => taskInfos = {})
    BY <1>1, Zenon DEF Cancelling
<1>4. TaskInv'
    BY <1>1, <1>2, <1>3, TaskTypes, SameTasks, Zenon
<1>5. WorkerInv'
    BY <1>1, <1>2, <1>3, TaskTypes, SameWorkers, Zenon
<1>. QED
    BY <1>4, <1>5, Zenon

\* The steps that leave rules, tasks and workers alone: the engine's loop, the
\* values it provides, notifications and most of the client's calls.
LEMMA OtherStepsKeepTasks ==
    ASSUME TypeOK, TaskInv, WorkerInv,
           UNCHANGED <<state, taskInfos, executing, finishedTaskInfos,
                       numOutstandingUnfinishedTasks>>,
           \/ pc' = pc \/ pc' = Awake(pc)
           \/ pc \notin {"cancel", "drainWaiting"} /\ pc' \notin {"idle", "end"}
           \/ pc \notin {"cancel", "drainWaiting"} /\ taskInfos = {}
    PROVE  TaskInv' /\ WorkerInv'
<1>1. \A j \in Keys : (Waiting(j)' <=> Waiting(j)) /\ (Computing(j)' <=> Computing(j))
    BY Zenon DEF Waiting, Computing
<1>2. (Cancelling => Cancelling') /\ (pc' \in {"idle", "end"} => taskInfos = {})
    BY Zenon DEF Cancelling, Awake, TaskInv
<1>3. TaskInv'
    BY <1>1, <1>2, TaskTypes, SameTasks, Zenon
<1>4. WorkerInv'
    BY <1>1, <1>2, TaskTypes, SameWorkers, Zenon
<1>. QED
    BY <1>3, <1>4, Zenon

\* Every step keeps the invariants on tasks and workers.
LEMMA NextKeepsTasks ==
    ASSUME EngineInv, [Next]_vars
    PROVE  TaskInv' /\ WorkerInv'
<1>1. TypeOK /\ RequestInv /\ TaskInv /\ WorkerInv
    BY Zenon DEF EngineInv
<1>2. CASE LoopTop \/ NextQueue \/ LoopBottom \/ WaitForTask \/ SpuriousWakeup
  <2>1. UNCHANGED <<state, taskInfos, executing, finishedTaskInfos,
                    numOutstandingUnfinishedTasks>>
    BY <1>2, Zenon DEF LoopTop, NextQueue, LoopBottom, WaitForTask, SpuriousWakeup,
                Unchanged, ruleVars, taskVars, workerVars
  <2>2. \/ pc' = pc \/ pc' = Awake(pc)
        \/ pc \notin {"cancel", "drainWaiting"} /\ pc' \notin {"idle", "end"}
        \/ pc \notin {"cancel", "drainWaiting"} /\ taskInfos = {}
    BY <1>2, Zenon DEF LoopTop, NextQueue, LoopBottom, WaitForTask, SpuriousWakeup
  <2>. QED
    BY <1>1, <2>1, <2>2, OtherStepsKeepTasks, Zenon
<1>3. CASE ProcessFinishedInputRequest \/ (\E k \in Keys : NotifyEngine(k))
  <2>1. /\ UNCHANGED <<state, taskInfos, executing, finishedTaskInfos,
                       numOutstandingUnfinishedTasks>>
        /\ pc' = pc \/ pc' = Awake(pc)
    BY <1>3, Zenon DEF ProcessFinishedInputRequest, NotifyEngine, ruleVars, taskVars,
                workerVars
  <2>. QED
    BY <1>1, <2>1, OtherStepsKeepTasks, Zenon
<1>4. CASE BuildReturns \/ SetCurrentIterationFails
  <2>1. /\ UNCHANGED <<state, taskInfos, executing, finishedTaskInfos,
                       numOutstandingUnfinishedTasks>>
        /\ pc = "end"
    BY <1>4, Zenon DEF BuildReturns, SetCurrentIterationFails, FinishBuild, ruleVars,
                taskVars, workerVars
  <2>2. taskInfos = {}
    BY <1>1, <2>1, Zenon DEF TaskInv
  <2>. QED
    BY <1>1, <2>1, <2>2, OtherStepsKeepTasks, Zenon
<1>5. CASE \E k \in Roots : Build(k) \/ BuildRefused(k)
  <2>1. /\ UNCHANGED <<state, taskInfos, executing, finishedTaskInfos,
                       numOutstandingUnfinishedTasks>>
        /\ pc = "idle"
    BY <1>5, Zenon DEF Build, BuildRefused, ruleVars, taskVars, workerVars
  <2>2. taskInfos = {}
    BY <1>1, <2>1, Zenon DEF TaskInv
  <2>. QED
    BY <1>1, <2>1, <2>2, OtherStepsKeepTasks, Zenon
<1>6. CASE CancelBuild \/ ResetForBuild \/ EditFiles \/ Idle \/ UNCHANGED vars
  <2>1. /\ UNCHANGED <<state, taskInfos, executing, finishedTaskInfos,
                       numOutstandingUnfinishedTasks>>
        /\ pc' = pc
    BY <1>6, Zenon DEF CancelBuild, ResetForBuild, EditFiles, Idle, ruleVars, taskVars,
                workerVars, vars
  <2>. QED
    BY <1>1, <2>1, OtherStepsKeepTasks, Zenon
<1>7. CASE ProcessRuleScanRequest
    BY <1>1, <1>7, ScanKeepsTasks, Zenon
<1>8. CASE PauseInputRequest \/ ProcessInputRequest
    BY <1>1, <1>8, InputsKeepTasks, Zenon
<1>9. CASE ProcessReadyTask
    BY <1>1, <1>9, ReadyKeepsTasks, Zenon
<1>10. CASE ProcessFinishedTask \/ SetRuleResultFails
    BY <1>1, <1>10, FinishingKeepsTasks, Zenon
<1>11. CASE BreakCycle \/ ReadPastCycle \/ CycleDetected
    BY <1>1, <1>11, CycleKeepsTasks, Zenon
<1>12. CASE DrainFinishedTasks
    BY <1>1, <1>12, DrainKeepsTasks, Zenon
<1>13. CASE CancelTasks \/ Restart
    BY <1>1, <1>13, DroppingKeepsTasks, Zenon
<1>14. CASE \E k \in Keys : TaskIsComplete(k)
    BY <1>1, <1>14, CompletionKeepsTasks, Zenon
<1>. QED
    BY <1>2, <1>3, <1>4, <1>5, <1>6, <1>7, <1>8, <1>9, <1>10, <1>11, <1>12,
       <1>13, <1>14, Zenon
       DEF Next, Engine, Worker, Client, Fault

-----------------------------------------------------------------------------
(* Queues and wakeups.                                                     *)

\* Every step keeps the invariant on the queues: an iteration that added to one
\* of them has worked, so the loop goes round again.
LEMMA NextKeepsQueues ==
    ASSUME EngineInv, [Next]_vars
    PROVE  QueueInv'
<1>1. QueueInv
    BY Zenon DEF EngineInv
<1>2. CASE \/ ProcessRuleScanRequest \/ PauseInputRequest \/ ProcessInputRequest
           \/ ProcessFinishedInputRequest \/ ProcessReadyTask
           \/ ProcessFinishedTask
  <2>1. didWork' = TRUE /\ pc \in Phases /\ pc' = pc
    BY <1>2, Zenon
       DEF ProcessRuleScanRequest, ScanIgnored, ScanSingleUse, ScanDeferred,
           ScanNextInput, ScanInputRebuilt, ScanUpToDate, ScanStep,
           PauseInputRequest, ProcessInputRequest, InputStep,
           ProcessFinishedInputRequest, ProcessReadyTask, ProcessFinishedTask,
           FinishStep, Phases
  <2>. QED
    BY <2>1, Zenon DEF QueueInv, Phases
<1>3. ASSUME pc' \in {"top", "scan", "wait", "waiting", "cancel", "drainWaiting",
                      "undefined"}
      PROVE  QueueInv'
    BY <1>3, Zenon DEF QueueInv
<1>4. CASE LoopTop \/ WaitForTask \/ SpuriousWakeup \/ SetRuleResultFails
           \/ BreakCycle \/ ReadPastCycle \/ CycleDetected \/ DrainFinishedTasks
           \/ (\E k \in Roots : Build(k))
  <2>1. pc' \in {"top", "scan", "wait", "waiting", "cancel", "drainWaiting",
                 "undefined"}
    BY <1>4, BreakCycleCases, Zenon
       DEF LoopTop, WaitForTask, SpuriousWakeup, Awake, SetRuleResultFails,
           ForceBuild, SupplyPriorValue, ReadPastCycle, CycleDetected,
           DrainFinishedTasks, Build
  <2>. QED
    BY <1>3, <2>1, Zenon
<1>5. CASE NextQueue
  <2>1. UNCHANGED <<ruleInfosToScan, inputRequests, finishedInputRequests,
                    readyTaskInfos, didWork>>
    BY <1>5, Zenon DEF NextQueue, Unchanged, scanVars, inputVars
  <2>. QED
    BY <1>1, <1>5, <2>1, Zenon DEF NextQueue, QueueInv
<1>6. CASE LoopBottom
  <2>1. /\ pc = "finishedTasks"
        /\ UNCHANGED <<ruleInfosToScan, inputRequests, finishedInputRequests,
                       readyTaskInfos, numOutstandingUnfinishedTasks>>
    BY <1>6, Zenon DEF LoopBottom, Unchanged, scanVars, inputVars
  <2>2. \/ pc' \in {"top", "wait"}
        \/ ~didWork /\ numOutstandingUnfinishedTasks = 0 /\ pc' \in {"cycle", "end"}
    BY <1>6, Zenon DEF LoopBottom, MustWait, EngineInv, TypeOK
  <2>3. CASE pc' \in {"top", "wait"}
    BY <1>3, <2>3, Zenon
  <2>4. CASE ~didWork /\ numOutstandingUnfinishedTasks = 0 /\ pc' \in {"cycle", "end"}
    BY <1>1, <2>1, <2>4, Zenon DEF QueueInv
  <2>. QED
    BY <2>2, <2>3, <2>4, Zenon
<1>7. CASE CancelTasks \/ Restart
    BY <1>7, Zenon DEF CancelTasks, Restart, QueueInv
<1>8. CASE BuildReturns \/ SetCurrentIterationFails
    BY <1>1, <1>8, Zenon
       DEF BuildReturns, SetCurrentIterationFails, FinishBuild, scanVars, inputVars,
           QueueInv
<1>9. CASE \/ (\E k \in Roots : BuildRefused(k)) \/ CancelBuild \/ ResetForBuild
           \/ EditFiles \/ Idle \/ UNCHANGED vars
           \/ (\E k \in Keys : TaskIsComplete(k))
  <2>1. UNCHANGED <<ruleInfosToScan, inputRequests, finishedInputRequests,
                    readyTaskInfos, numOutstandingUnfinishedTasks, didWork, pc>>
    BY <1>9, Zenon DEF BuildRefused, CancelBuild, ResetForBuild, EditFiles, Idle,
                TaskIsComplete, scanVars, inputVars, vars
  <2>. QED
    BY <1>1, <2>1, Zenon DEF QueueInv
<1>10. CASE \E k \in Keys : NotifyEngine(k)
  <2>1. /\ UNCHANGED <<ruleInfosToScan, inputRequests, finishedInputRequests,
                       readyTaskInfos, numOutstandingUnfinishedTasks, didWork>>
        /\ pc' = pc \/ pc' \in {"top", "cancel"}
    BY <1>10, Zenon DEF NotifyEngine, Awake, scanVars, inputVars
  <2>. QED
    BY <1>1, <1>3, <2>1, Zenon DEF QueueInv
<1>. QED
    BY <1>2, <1>4, <1>5, <1>6, <1>7, <1>8, <1>9, <1>10, Zenon
       DEF Next, Engine, Worker, Client, Fault

\* Every step keeps the invariant on wakeups: the engine looks at the queue again
\* before it sleeps, and what is queued later is followed by a notification.
LEMMA NextKeepsWakeups ==
    ASSUME EngineInv, [Next]_vars
    PROVE  WakeupInv'
<1>1. TypeOK /\ WorkerInv /\ WakeupInv
    BY Zenon DEF EngineInv
<1>2. ASSUME pc' \notin {"wait", "waiting", "drainWaiting"}
      PROVE  WakeupInv'
    BY <1>2, Zenon DEF WakeupInv, NoLostWakeup
<1>3. ASSUME numOutstandingUnfinishedTasks # 0, finishedTaskInfos = <<>>
      PROVE  executing # {}
  <2>1. numOutstandingUnfinishedTasks =
            Cardinality(executing) + Len(finishedTaskInfos)
    BY <1>1, Zenon DEF WorkerInv, OutstandingAccounted
  <2>2. Len(finishedTaskInfos) = 0
    BY <1>3, Zenon
  <2>3. executing = {} => Cardinality(executing) = 0
    BY <1>1, TaskTypes, FS_EmptySet, Zenon
  <2>. QED
    BY <1>3, <2>1, <2>2, <2>3
<1>4. CASE \/ ProcessRuleScanRequest \/ PauseInputRequest \/ ProcessInputRequest
           \/ ProcessFinishedInputRequest \/ ProcessReadyTask
           \/ ProcessFinishedTask \/ SetRuleResultFails
  <2>1. pc' \notin {"wait", "waiting", "drainWaiting"}
    BY <1>4, Zenon
       DEF ProcessRuleScanRequest, ScanIgnored, ScanSingleUse, ScanDeferred,
           ScanNextInput, ScanInputRebuilt, ScanUpToDate, ScanStep,
           PauseInputRequest, ProcessInputRequest, InputStep,
           ProcessFinishedInputRequest, ProcessReadyTask, ProcessFinishedTask,
           FinishStep, SetRuleResultFails
  <2>. QED
    BY <1>2, <2>1, Zenon
<1>5. CASE \/ LoopTop \/ NextQueue \/ SpuriousWakeup \/ CancelTasks \/ Restart
           \/ BreakCycle \/ ReadPastCycle \/ CycleDetected
           \/ BuildReturns \/ SetCurrentIterationFails
           \/ (\E k \in Roots : Build(k))
  <2>1. pc' \notin {"wait", "waiting", "drainWaiting"}
    BY <1>5, BreakCycleCases, Zenon
       DEF LoopTop, NextQueue, SpuriousWakeup, Awake, CancelTasks, Restart,
           ForceBuild, SupplyPriorValue, ReadPastCycle, CycleDetected,
           BuildReturns, SetCurrentIterationFails, FinishBuild, Build
  <2>. QED
    BY <1>2, <2>1, Zenon
<1>6. CASE LoopBottom
  <2>1. \/ pc' \notin {"wait", "waiting", "drainWaiting"}
        \/ pc' = "wait" /\ numOutstandingUnfinishedTasks # 0
    BY <1>1, <1>6, Zenon DEF LoopBottom, MustWait, TypeOK
  <2>2. UNCHANGED numOutstandingUnfinishedTasks
    BY <1>6, Zenon DEF LoopBottom, Unchanged
  <2>. QED
    BY <1>2, <2>1, <2>2, Zenon DEF WakeupInv, NoLostWakeup
<1>7. CASE WaitForTask
  <2>1. /\ pc = "wait" /\ UNCHANGED <<finishedTaskInfos, executing, notifying>>
        /\ pc' = IF finishedTaskInfos = <<>> THEN "waiting" ELSE "top"
    BY <1>7, Zenon DEF WaitForTask, MaySleep, Unchanged, workerVars
  <2>2. numOutstandingUnfinishedTasks # 0
    BY <1>1, <2>1, Zenon DEF WakeupInv
  <2>. QED
    BY <1>3, <2>1, <2>2, Zenon DEF WakeupInv, NoLostWakeup
<1>8. CASE DrainFinishedTasks
  <2>1. /\ numOutstandingUnfinishedTasks # 0 /\ UNCHANGED <<executing, notifying>>
        /\ pc' = IF finishedTaskInfos = <<>> THEN "drainWaiting" ELSE "cancel"
        /\ finishedTaskInfos' = <<>>
    BY <1>8, Zenon DEF DrainFinishedTasks, MaySleep
  <2>. QED
    BY <1>3, <2>1, Zenon DEF WakeupInv, NoLostWakeup
<1>9. CASE \E k \in Keys : TaskIsComplete(k)
  <2>1. PICK k \in Keys : TaskIsComplete(k)
    BY <1>9, Zenon
  <2>2. notifying' # {} /\ UNCHANGED <<pc, numOutstandingUnfinishedTasks>>
    BY <2>1, Zenon DEF TaskIsComplete
  <2>. QED
    BY <1>1, <2>2, Zenon DEF WakeupInv, NoLostWakeup
<1>10. CASE \E k \in Keys : NotifyEngine(k)
  <2>1. /\ UNCHANGED numOutstandingUnfinishedTasks
        /\ pc' = Awake(pc)
    BY <1>10, Zenon DEF NotifyEngine
  <2>2. pc' \notin {"waiting", "drainWaiting"} /\ (pc' = "wait" => pc = "wait")
    BY <2>1, Zenon DEF Awake
  <2>. QED
    BY <1>1, <2>1, <2>2, Zenon DEF WakeupInv, NoLostWakeup
<1>11. CASE \/ (\E k \in Roots : BuildRefused(k)) \/ CancelBuild \/ ResetForBuild
            \/ EditFiles \/ Idle \/ UNCHANGED vars
  <2>1. UNCHANGED <<pc, numOutstandingUnfinishedTasks, finishedTaskInfos, executing,
                    notifying>>
    BY <1>11, Zenon DEF BuildRefused, CancelBuild, ResetForBuild, EditFiles, Idle,
                 workerVars, vars
  <2>. QED
    BY <1>1, <2>1, Zenon DEF WakeupInv, NoLostWakeup
<1>. QED
    BY <1>4, <1>5, <1>6, <1>7, <1>8, <1>9, <1>10, <1>11, Zenon
       DEF Next, Engine, Worker, Client, Fault

-----------------------------------------------------------------------------
(* The theorems.                                                           *)

\* A new engine has nothing to account for.
LEMMA InitAccounted == Init => EngineInv
<1>. SUFFICES ASSUME Init PROVE EngineInv
    BY Zenon
<1>1. TypeOK
    BY InitType, Zenon
<1>2. /\ requestedBy = [k \in Keys |-> <<>>]
      /\ pausedInputRequests = [k \in Keys |-> <<>>]
      /\ ruleInfosToScan = <<>> /\ inputRequests = <<>>
      /\ finishedInputRequests = <<>> /\ readyTaskInfos = <<>>
      /\ finishedTaskInfos = <<>> /\ numOutstandingUnfinishedTasks = 0
      /\ taskInfos = {} /\ executing = {} /\ pc = "idle"
    BY Zenon DEF Init
<1>3. \A k \in Keys : ~Waiting(k) /\ ~Computing(k)
    BY Zenon DEF Init, Waiting, Computing
<1>4. RequestInv
  <2>1. \A t \in Keys : Pending(t) = 0
    BY <1>2, CountEmpty, HeldEmpty DEF Pending
  <2>2. InRange(readyTaskInfos) = {} /\ IsDistinct(readyTaskInfos)
    BY <1>2 DEF InRange, IsDistinct
  <2>. QED
    BY <1>3, <2>1, <2>2, Zenon DEF RequestInv
<1>5. TaskInv
    BY <1>2, <1>3, Zenon DEF TaskInv
<1>6. WorkerInv
  <2>1. InRange(finishedTaskInfos) = {} /\ IsDistinct(finishedTaskInfos)
    BY <1>2 DEF InRange, IsDistinct
  <2>2. Cardinality(executing) = 0 /\ Len(finishedTaskInfos) = 0
    BY <1>2, FS_EmptySet, Zenon
  <2>3. OutstandingAccounted
    BY <1>2, <2>2 DEF OutstandingAccounted
  <2>. QED
    BY <1>2, <1>3, <2>1, <2>3, Zenon DEF WorkerInv
<1>7. QueueInv /\ WakeupInv
    BY <1>2, Zenon DEF QueueInv, WakeupInv, NoLostWakeup
<1>. QED
    BY <1>1, <1>4, <1>5, <1>6, <1>7, Zenon DEF EngineInv

\* The bookkeeping invariant of executeTasks() is kept by every step of the
\* engine, the workers and the client, and by every failure modelled.
THEOREM EngineAccounted == Spec => []EngineInv
<1>1. EngineInv /\ [Next]_vars => EngineInv'
  <2>. SUFFICES ASSUME EngineInv, [Next]_vars PROVE EngineInv'
    BY Zenon
  <2>1. TypeOK'
    BY NextPreservesType, Zenon DEF EngineInv
  <2>. QED
    BY <2>1, NextKeepsRequests, NextKeepsTasks, NextKeepsQueues, NextKeepsWakeups, Zenon
       DEF EngineInv
<1>. QED
    BY <1>1, InitAccounted, PTL DEF Spec

\* A task's wait count is the number of its requests in inputRequests, on scan
\* records, with the tasks of their inputs and in finishedInputRequests, however
\* scans, completions, broken cycles and cancellations interleave; so a task is
\* handed to a worker when, and only when, its last input was provided.
THEOREM NoRequestLost == Spec => []RequestsAccounted
<1>1. EngineInv => RequestsAccounted
    BY TaskTypes, Zenon DEF EngineInv, RequestInv, RequestsAccounted, Pending, Waiting
<1>. QED
    BY <1>1, EngineAccounted, PTL

\* numOutstandingUnfinishedTasks is exact at every step of the engine and the
\* workers, so cancelRemainingTasks() waits for all of them and for no more.
THEOREM OutstandingExact == Spec => []OutstandingAccounted
<1>1. EngineInv => OutstandingAccounted
    BY Zenon DEF EngineInv, WorkerInv
<1>. QED
    BY <1>1, EngineAccounted, PTL

\* Wherever taskIsComplete() falls between the engine's look at the queue, its
\* second look under finishedTaskInfosMutex and its wait, the engine is not left
\* asleep with a completion nobody will tell it of.
THEOREM WakeupNeverLost == Spec => []NoLostWakeup
<1>1. EngineInv => NoLostWakeup
    BY Zenon DEF EngineInv, WakeupInv
<1>. QED
    BY <1>1, EngineAccounted, PTL

\* resolveCycle() runs only when the loop can do nothing else: all queues are
\* empty, no worker is at work, and every task waits for an input.
THEOREM CycleOnlyWhenStuck == Spec => []NoFalseCycle
<1>1. EngineInv => NoFalseCycle
  <2>. SUFFICES ASSUME EngineInv, pc = "cycle"
                PROVE  /\ ruleInfosToScan = <<>> /\ inputRequests = <<>>
                       /\ finishedInputRequests = <<>> /\ readyTaskInfos = <<>>
                       /\ executing = {} /\ finishedTaskInfos = <<>>
                       /\ \A k \in taskInfos :
                             state[k] = "InProgressWaiting" /\ waitCount[k] > 0
    BY Zenon DEF NoFalseCycle
  <2>1. TypeOK /\ RequestInv /\ TaskInv /\ WorkerInv
    BY Zenon DEF EngineInv
  <2>2. /\ ruleInfosToScan = <<>> /\ inputRequests = <<>>
        /\ finishedInputRequests = <<>> /\ readyTaskInfos = <<>>
        /\ numOutstandingUnfinishedTasks = 0
    BY Zenon DEF EngineInv, QueueInv
  <2>3. executing = {} /\ finishedTaskInfos = <<>>
    BY <2>1, <2>2, NoneOutstanding, Zenon
  <2>4. ASSUME NEW k \in taskInfos
        PROVE  state[k] = "InProgressWaiting" /\ waitCount[k] > 0
    <3>1. k \in Keys
        BY <2>1, TaskTypes, Zenon
    <3>2. ~Cancelling /\ InRange(readyTaskInfos) = {}
          /\ InRange(finishedTaskInfos) = {}
        BY <2>2, <2>3 DEF Cancelling, InRange
    <3>3. ~Computing(k)
        BY <2>1, <2>3, <3>1, <3>2, Zenon DEF WorkerInv
    <3>4. Waiting(k)
        BY <2>1, <2>4, <3>2, <3>3, Zenon DEF TaskInv
    <3>5. waitCount[k] # 0 /\ Pending(k) = waitCount[k]
        BY <2>1, <3>1, <3>2, <3>4, Zenon DEF RequestInv
    <3>6. Pending(k) \in Nat
        BY <2>1, <3>1, PendingType DEF Pending
    <3>. QED
        BY <3>4, <3>5, <3>6 DEF Waiting
  <2>. QED
    BY <2>2, <2>3, <2>4, Zenon
<1>. QED
    BY <1>1, EngineAccounted, PTL

\* However build() ends, with a value, cancelled, on a cycle or on a failure of
\* the database, no task is left registered, queued, computing or waiting, and
\* no request is left in a queue for the next build() to take for its own.
THEOREM NothingLeftOver ==
    Spec => [](pc = "idle" =>
                /\ taskInfos = {} /\ executing = {} /\ finishedTaskInfos = <<>>
                /\ ruleInfosToScan = <<>> /\ inputRequests = <<>>
                /\ finishedInputRequests = <<>> /\ readyTaskInfos = <<>>
                /\ \A k \in Keys : ~IsInProgress(k))
<1> DEFINE Clean == pc = "idle" =>
                /\ taskInfos = {} /\ executing = {} /\ finishedTaskInfos = <<>>
                /\ ruleInfosToScan = <<>> /\ inputRequests = <<>>
                /\ finishedInputRequests = <<>> /\ readyTaskInfos = <<>>
                /\ \A k \in Keys : ~IsInProgress(k)
<1>1. EngineInv => Clean
  <2>. SUFFICES ASSUME EngineInv, pc = "idle" PROVE Clean
    BY Zenon
  <2>1. TypeOK /\ TaskInv /\ WorkerInv
    BY Zenon DEF EngineInv
  <2>2. /\ ruleInfosToScan = <<>> /\ inputRequests = <<>>
        /\ finishedInputRequests = <<>> /\ readyTaskInfos = <<>>
        /\ numOutstandingUnfinishedTasks = 0
    BY Zenon DEF EngineInv, QueueInv
  <2>3. executing = {} /\ finishedTaskInfos = <<>>
    BY <2>1, <2>2, NoneOutstanding, Zenon
  <2>4. taskInfos = {} /\ \A k \in Keys : ~IsInProgress(k)
    BY <2>1, Zenon DEF TaskInv, IsInProgress, Waiting, Computing
  <2>. QED
    BY <2>2, <2>3, <2>4, Zenon
<1>. QED
    BY <1>1, EngineAccounted, PTL
=============================================================================
