---------------------------- MODULE KeyIDProofs -----------------------------
(***************************************************************************)
(* The loops of SQLiteBuildDB.tla over keys, IDs and rows, for every set   *)
(* of keys and of results: getKeyID and getKeyIDForID keep the caches of   *)
(* IDs in agreement with key_names, and a row that is written reads back   *)
(* as the result it was written for.                                       *)
(*                                                                         *)
(* The loops are functions on an interval.  What holds of them is proved   *)
(* by induction in the form of Upto: a set of numbers that has 0, and has  *)
(* i when it has i - 1, has all numbers up to n.                           *)
(***************************************************************************)
EXTENDS SQLiteBuildDB, FiniteSetTheorems, TLAPS

-----------------------------------------------------------------------------
(***************************************************************************)
(* Contents that a sequence of builds can leave, and the caches of IDs.    *)
(***************************************************************************)
Faithful(names) == \A i \in 1 .. Len(names) : ~Unfaithful(names[i])

\* The caches are inverse to each other and repeat key_names.
Agrees(names, db, engine) ==
    /\ \A k \in Keys : db[k] # 0 => engine[db[k]] = k
    /\ \A i \in IDs : engine[i] # NoKey =>
           /\ db[engine[i]] = i
           /\ i \in 1 .. Len(names)
           /\ names[i] = engine[i]

DecodedRow(c, i) ==
    Decode(c.rows[i], [d \in 1 .. Len(c.rows[i].deps) |->
                           c.names[DecodedID(c.rows[i].deps[d])]])

\* Contents as some sequence of builds can have left them.
Sound(c) ==
    /\ c.schema # "current" => c = Contents(c.schema)
    /\ Faithful(c.names)
    /\ \A i \in IDs : c.rows[i] # NoRow =>
           /\ i \in 1 .. Len(c.names)
           /\ \A d \in 1 .. Len(c.rows[i].deps) :
                 DecodedID(c.rows[i].deps[d]) \in 1 .. Len(c.names)
           /\ DecodedRow(c, i) \in Results

-----------------------------------------------------------------------------
(***************************************************************************)
(* Induction and loops.                                                    *)
(***************************************************************************)
\* A set of numbers that is not empty has a least member: what the loops over
\* key_names and over the dependencies of a row are reasoned about with.
LEMMA Least ==
    ASSUME NEW T \in SUBSET Nat, T # {}
    PROVE  \E n \in T : \A m \in T : n <= m
<1>. DEFINE R == OpToRel(<, Nat)
<1>1. \E x \in T : \A y \in T : ~(<<y, x>> \in R)
  <2>1. IsWellFoundedOn(R, Nat)
    BY NatLessThanWellFounded, Zenon
  <2>. HIDE DEF R
  <2>. QED
    BY <2>1, WFMin, Zenon
<1>2. \A x, y \in Nat : y < x => <<y, x>> \in R
  <2>. SUFFICES ASSUME NEW x \in Nat, NEW y \in Nat, y < x
                PROVE  <<y, x>> \in R
    BY Zenon
  <2>1. <<y, x>> \in Nat \X Nat /\ <<y, x>>[1] < <<y, x>>[2]
    BY Zenon
  <2>. QED
    BY <2>1, Zenon DEF OpToRel
<1>. HIDE DEF R
<1>3. PICK n \in T : \A y \in T : ~(<<y, n>> \in R)
  BY <1>1, Zenon
<1>4. \A m \in T : n <= m
  <2>1. \A m \in T : m \in Nat /\ ~(m < n)
    BY <1>2, <1>3, Zenon
  <2>. QED
    BY <2>1
<1>. QED
  BY <1>3, <1>4, Zenon

\* Induction up to n, as the loops of SQLiteBuildDB.cpp go through their keys,
\* dependencies and rows.
LEMMA Upto ==
    ASSUME NEW n \in Nat, NEW P, 0 \in P,
           \A i \in 1 .. n : i - 1 \in P => i \in P
    PROVE  \A i \in 0 .. n : i \in P
<1>. DEFINE T == {i \in 0 .. n : i \notin P}
<1>1. ASSUME T # {} PROVE FALSE
  <2>1. T \in SUBSET Nat
    OBVIOUS
  <2>2. PICK i \in T : \A m \in T : i <= m
    BY <1>1, <2>1, Least, Zenon
  <2>3. i # 0 /\ i \in 1 .. n /\ i - 1 \in 0 .. n /\ ~(i <= i - 1)
    BY <2>2
  <2>4. i - 1 \in P
    BY <2>2, <2>3, Zenon
  <2>. QED
    BY <2>2, <2>3, <2>4, Zenon
<1>. QED
  BY <1>1, Zenon

Runs(D, b, n, F, c, m) ==
    /\ c \in [0 .. n -> D] /\ c[0] = b
    /\ \A i \in 1 .. m : c[i] = F[i][c[i - 1]]

\* A step for every number up to n, taken in turn from a first value, passes
\* through values that satisfy the equations of the loop.
LEMMA LoopExists ==
    ASSUME NEW D, NEW b \in D, NEW n \in Nat, NEW F \in [1 .. n -> [D -> D]]
    PROVE  \E c : Runs(D, b, n, F, c, n)
<1>. DEFINE P == {m \in Nat : \E c : Runs(D, b, n, F, c, m)}
<1>1. 0 \in P
  <2>1. Runs(D, b, n, F, [i \in 0 .. n |-> b], 0)
    BY DEF Runs
  <2>. QED
    BY <2>1, Zenon
<1>2. ASSUME NEW m \in 1 .. n, m - 1 \in P PROVE m \in P
  <2>1. PICK c : Runs(D, b, n, F, c, m - 1)
    BY <1>2, Zenon
  <2>. DEFINE d == [c EXCEPT ![m] = F[m][c[m - 1]]]
  <2>2. m \in Nat /\ m - 1 \in 0 .. n /\ m \in 0 .. n /\ F[m] \in [D -> D]
    BY <1>2
  <2>3. d \in [0 .. n -> D] /\ d[0] = b
    BY <2>1, <2>2 DEF Runs
  <2>4. ASSUME NEW i \in 1 .. m PROVE d[i] = F[i][d[i - 1]]
    <3>1. i - 1 # m /\ i - 1 \in 0 .. n /\ i \in 0 .. n
      BY <2>2
    <3>2. d[i - 1] = c[i - 1]
      BY <2>1, <3>1, Zenon DEF Runs
    <3>3. CASE i = m
      BY <2>1, <2>2, <3>2, <3>3, Zenon DEF Runs
    <3>4. CASE i # m
      <4>1. i \in 1 .. m - 1
        BY <2>2, <3>4
      <4>. QED
        BY <2>1, <3>1, <3>2, <3>4, <4>1, Zenon DEF Runs
    <3>. QED
      BY <3>3, <3>4, Zenon
  <2>. HIDE DEF d
  <2>5. Runs(D, b, n, F, d, m)
    BY <2>3, <2>4, Zenon DEF Runs
  <2>. QED
    BY <2>2, <2>5, Zenon
<1>3. n \in P
  <2>. HIDE DEF P
  <2>1. \A i \in 1 .. n : i - 1 \in P => i \in P
    BY <1>2, Zenon
  <2>2. \A i \in 0 .. n : i \in P
    BY <1>1, <2>1, Upto, Zenon
  <2>. QED
    BY <2>2
<1>. QED
  BY <1>3, Zenon

-----------------------------------------------------------------------------
(***************************************************************************)
(* The names of keys.                                                      *)
(***************************************************************************)
\* There are as many IDs as keys, and 0.
LEMMA IDsAre ==
    /\ MaxID \in Nat /\ 0 \in IDs
    /\ \A i : i \in IDs <=> i \in Nat /\ i <= MaxID
<1>1. MaxID \in Nat
  BY SQLiteAssumption, FS_CardinalityType, Zenon DEF MaxID
<1>. QED
  BY <1>1 DEF IDs

\* key_names holds distinct keys.
Distinct(names) ==
    \A i, j \in 1 .. Len(names) : names[i] = names[j] => i = j

\* The members of KeyNames, and that distinct keys are never more than IDs:
\* a new row of key_names always has an ID.
LEMMA KeyNamesAre ==
    \A names : names \in KeyNames <=> names \in Seq(Keys) /\ Distinct(names)
<1>1. ASSUME NEW names \in KeyNames
      PROVE  names \in Seq(Keys) /\ Distinct(names)
  <2>1. PICK n \in IDs : names \in [1 .. n -> Keys]
    BY Zenon DEF KeyNames
  <2>2. n \in Nat /\ names \in Seq(Keys) /\ Len(names) = n
    BY <2>1, IDsAre
  <2>3. DOMAIN names = 1 .. n /\ IsInjective(names)
    BY <2>1, Zenon DEF KeyNames
  <2>4. \A a, b \in DOMAIN names : names[a] = names[b] => a = b
    BY <2>3, Zenon DEF IsInjective
  <2>. QED
    BY <2>2, <2>3, <2>4, Zenon DEF Distinct
<1>2. ASSUME NEW names \in Seq(Keys), Distinct(names)
      PROVE  names \in KeyNames
  <2>. DEFINE n == Len(names)
  <2>1. n \in Nat /\ names \in [1 .. n -> Keys] /\ DOMAIN names = 1 .. n
    OBVIOUS
  <2>. HIDE DEF n
  <2>2. \A a, b \in DOMAIN names : names[a] = names[b] => a = b
    BY <1>2, <2>1, Zenon DEF Distinct, n
  <2>3. IsInjective(names)
    BY <2>2, Zenon DEF IsInjective
  <2>4. names \in Injection(1 .. n, Keys)
    BY <2>1, <2>3, Zenon DEF Injection
  <2>5. Cardinality(1 .. n) <= Cardinality(Keys)
    BY <2>4, SQLiteAssumption, FS_Injection, Zenon
  <2>6. Cardinality(1 .. n) = n
    <3>1. 1 \in Int /\ n \in Int /\ (IF 1 > n THEN 0 ELSE n - 1 + 1) = n
      BY <2>1
    <3>. QED
      BY <3>1, FS_Interval, Zenon
  <2>7. n \in IDs
    BY <2>1, <2>5, <2>6, IDsAre, Zenon DEF MaxID
  <2>. QED
    BY <2>1, <2>3, <2>7, Zenon DEF KeyNames
<1>. QED
  BY <1>1, <1>2, Zenon

\* The facts about key_names that the lemmas below use.
LEMMA NamesAre ==
    ASSUME NEW names \in KeyNames
    PROVE  /\ names \in Seq(Keys) /\ Len(names) \in Nat /\ Len(names) <= MaxID
           /\ \A i \in 1 .. Len(names) : i \in IDs /\ i # 0 /\ names[i] \in Keys
           /\ \A i, j \in 1 .. Len(names) : names[i] = names[j] => i = j
<1>1. names \in Seq(Keys) /\ Distinct(names)
  BY KeyNamesAre, Zenon
<1>2. Len(names) \in Nat /\ \A i \in 1 .. Len(names) : names[i] \in Keys
  BY <1>1
<1>3. Len(names) <= MaxID
  <2>1. PICK n \in IDs : names \in [1 .. n -> Keys]
    BY Zenon DEF KeyNames
  <2>2. Len(names) = n /\ n <= MaxID
    BY <2>1, IDsAre
  <2>. QED
    BY <2>2, Zenon
<1>4. \A i \in 1 .. Len(names) : i \in IDs /\ i # 0
  BY <1>2, <1>3, IDsAre
<1>. QED
  BY <1>1, <1>2, <1>3, <1>4, Zenon DEF Distinct

\* getKeyIDFromDB finds the row of a key, and a key it does not find can be
\* given the next row.
LEMMA NamedIDIs ==
    ASSUME NEW names \in KeyNames, NEW k \in Keys
    PROVE  /\ Column[k] \in Keys
           /\ NamedID(names, k) \in IDs
           /\ NamedID(names, k) # 0 =>
                 /\ NamedID(names, k) \in 1 .. Len(names)
                 /\ names[NamedID(names, k)] = Column[k]
           /\ \A i \in 1 .. Len(names) :
                 names[i] = Column[k] => NamedID(names, k) = i
           /\ NamedID(names, k) = 0 =>
                 Append(names, Column[k]) \in KeyNames
<1>. DEFINE found == {i \in 1 .. Len(names) : names[i] = Column[k]}
<1>0. Column[k] \in Keys
  BY SQLiteAssumption, Zenon
<1>1. CASE found = {}
  <2>1. NamedID(names, k) = 0
    BY <1>1, Zenon DEF NamedID
  <2>2. \A i \in 1 .. Len(names) : names[i] # Column[k]
    BY <1>1, Zenon
  <2>. DEFINE more == Append(names, Column[k])
  <2>3. /\ more \in Seq(Keys) /\ Len(more) = Len(names) + 1
        /\ \A i \in 1 .. Len(names) : more[i] = names[i]
        /\ more[Len(names) + 1] = Column[k]
    BY <1>0, NamesAre
  <2>. HIDE DEF more
  <2>4. \A i \in 1 .. Len(more) : i \in 1 .. Len(names) \/ i = Len(names) + 1
    BY <2>3, NamesAre
  <2>5. ASSUME NEW i \in 1 .. Len(more), NEW j \in 1 .. Len(more),
               more[i] = more[j]
        PROVE  i = j
    <3>1. CASE i \in 1 .. Len(names) /\ j \in 1 .. Len(names)
      BY <2>3, <2>5, <3>1, NamesAre, ZenonT(60)
    <3>2. i \in 1 .. Len(names) <=> j \in 1 .. Len(names)
      BY <2>2, <2>3, <2>4, <2>5, Zenon
    <3>. QED
      BY <2>4, <3>1, <3>2, Zenon
  <2>6. more \in KeyNames
    BY <2>3, <2>5, KeyNamesAre, Zenon DEF Distinct
  <2>. QED
    BY <1>0, <2>1, <2>2, <2>6, IDsAre, Zenon DEF more
<1>2. CASE found # {}
  <2>1. NamedID(names, k) \in found
    BY <1>2, Zenon DEF NamedID
  <2>2. NamedID(names, k) \in 1 .. Len(names) /\ names[NamedID(names, k)] = Column[k]
    BY <2>1, Zenon
  <2>. QED
    BY <1>0, <2>2, NamesAre, Zenon
<1>. QED
  BY <1>1, <1>2, Zenon

-----------------------------------------------------------------------------
(***************************************************************************)
(* One key, one ID.                                                        *)
(***************************************************************************)
CachedIDs == [Keys -> IDs]
CachedKeys == [IDs -> Keys \cup {NoKey}]

Cursors(S) == [names : KeyNames, db : CachedIDs, engine : CachedKeys,
               found : Seq(S)]

CursorOf(names, db, engine, found) ==
    [names |-> names, db |-> db, engine |-> engine, found |-> found]

Extends(names, more) ==
    /\ Len(names) <= Len(more)
    /\ \A i \in 1 .. Len(names) : more[i] = names[i]

\* What the caches take from a row of key_names leaves them in agreement with
\* the table: no other key had the ID, and the key no other ID.
LEMMA LearningAgrees ==
    ASSUME NEW names \in KeyNames, NEW db \in CachedIDs,
           NEW engine \in CachedKeys, Agrees(names, db, engine),
           NEW id \in 1 .. Len(names)
    PROVE  Agrees(names, [db EXCEPT ![names[id]] = id],
                         [engine EXCEPT ![id] = names[id]])
<1>. DEFINE k == names[id]
            ndb == [db EXCEPT ![k] = id]
            nengine == [engine EXCEPT ![id] = k]
<1>0. id \in IDs /\ id # 0 /\ k \in Keys /\ k # NoKey
  BY NamesAre, SQLiteAssumption, ZenonT(60)
<1>1. /\ \A j \in Keys : ndb[j] = IF j = k THEN id ELSE db[j]
      /\ \A i \in IDs : nengine[i] = IF i = id THEN k ELSE engine[i]
      /\ \A j \in Keys : db[j] \in IDs
      /\ \A i \in IDs : engine[i] \in Keys \cup {NoKey}
  BY <1>0, Zenon DEF CachedIDs, CachedKeys
<1>. HIDE DEF ndb, nengine, k
<1>2. ASSUME NEW j \in Keys, ndb[j] # 0 PROVE nengine[ndb[j]] = j
  <2>1. CASE j = k
    BY <1>0, <1>1, <2>1, Zenon
  <2>2. CASE j # k
    <3>1. ndb[j] = db[j] /\ db[j] \in IDs /\ engine[db[j]] = j
      BY <1>1, <1>2, <2>2, Zenon DEF Agrees
    <3>2. j # NoKey
      BY SQLiteAssumption, Zenon
    <3>3. db[j] # id
      BY <2>2, <3>1, <3>2, Zenon DEF Agrees, k
    <3>. QED
      BY <1>1, <3>1, <3>3, Zenon
  <2>. QED
    BY <2>1, <2>2, Zenon
<1>3. ASSUME NEW i \in IDs, nengine[i] # NoKey
      PROVE  ndb[nengine[i]] = i /\ i \in 1 .. Len(names) /\ names[i] = nengine[i]
  <2>1. CASE i = id
    BY <1>0, <1>1, <2>1, Zenon DEF k
  <2>2. CASE i # id
    <3>1. /\ nengine[i] = engine[i] /\ engine[i] \in Keys
          /\ db[engine[i]] = i /\ i \in 1 .. Len(names) /\ names[i] = engine[i]
      BY <1>1, <1>3, <2>2, Zenon DEF Agrees
    <3>2. engine[i] # k
      BY <2>2, <3>1, NamesAre, Zenon DEF k
    <3>. QED
      BY <1>1, <3>1, <3>2, Zenon
  <2>. QED
    BY <2>1, <2>2, Zenon
<1>4. Agrees(names, ndb, nengine)
  BY <1>2, <1>3, Zenon DEF Agrees
<1>. QED
  BY <1>4, Zenon DEF ndb, nengine, k

\* Rows added to key_names leave the others where they are.
LEMMA ExtendsAt ==
    ASSUME NEW names \in KeyNames, NEW more \in KeyNames, Extends(names, more),
           NEW i \in 1 .. Len(names)
    PROVE  i \in 1 .. Len(more) /\ more[i] = names[i]
BY NamesAre DEF Extends

\* Rows added by one call and then by another.
LEMMA ExtendsFurther ==
    ASSUME NEW names \in KeyNames, NEW more \in KeyNames, NEW most \in KeyNames,
           Extends(names, more), Extends(more, most)
    PROVE  Extends(names, most)
<1>1. Len(names) <= Len(most)
  BY NamesAre DEF Extends
<1>2. ASSUME NEW i \in 1 .. Len(names) PROVE most[i] = names[i]
  <2>1. i \in 1 .. Len(more) /\ more[i] = names[i]
    BY ExtendsAt, Zenon
  <2>2. most[i] = more[i]
    BY <2>1, ExtendsAt, Zenon
  <2>. QED
    BY <2>1, <2>2, Zenon
<1>. QED
  BY <1>1, <1>2, Zenon DEF Extends

\* Caches that agree with key_names agree with it when rows are added.
LEMMA MoreNamesAgree ==
    ASSUME NEW names \in KeyNames, NEW more \in KeyNames, Extends(names, more),
           NEW db, NEW engine, Agrees(names, db, engine)
    PROVE  Agrees(more, db, engine)
<1>1. \A i \in 1 .. Len(names) : i \in 1 .. Len(more) /\ more[i] = names[i]
  BY ExtendsAt, Zenon
<1>. QED
  BY <1>1, Zenon DEF Agrees

\* What Learn does to a cursor, with the IDs found so far and without.
LEMMA LearnIs ==
    ASSUME NEW S, NEW c \in Cursors(S), NEW k \in Keys, NEW id \in IDs
    PROVE  /\ c.names \in KeyNames /\ c.db \in CachedIDs
           /\ c.engine \in CachedKeys /\ c.found \in Seq(S)
           /\ id = 0 =>
                 Learn(c, k, id) = CursorOf(c.names, c.db, c.engine,
                                            Append(c.found, id))
           /\ id # 0 =>
                 Learn(c, k, id) = CursorOf(c.names, [c.db EXCEPT ![k] = id],
                                            [c.engine EXCEPT ![id] = k],
                                            Append(c.found, id))
           /\ [c.db EXCEPT ![k] = id] \in CachedIDs
           /\ [c.engine EXCEPT ![id] = k] \in CachedKeys
<1>1. /\ c.names \in KeyNames /\ c.db \in CachedIDs
      /\ c.engine \in CachedKeys /\ c.found \in Seq(S)
      /\ c = [names |-> c.names, db |-> c.db, engine |-> c.engine,
              found |-> c.found]
  BY Zenon DEF Cursors
<1>2. /\ [c.db EXCEPT ![k] = id] \in CachedIDs
      /\ [c.engine EXCEPT ![id] = k] \in CachedKeys
  BY <1>1, Zenon DEF CachedIDs, CachedKeys
<1>3. id = 0 => Learn(c, k, id) = CursorOf(c.names, c.db, c.engine,
                                           Append(c.found, id))
  BY <1>1, Zenon DEF Learn, CursorOf
<1>4. id # 0 => Learn(c, k, id) = CursorOf(c.names, [c.db EXCEPT ![k] = id],
                                           [c.engine EXCEPT ![id] = k],
                                           Append(c.found, id))
  BY <1>1, Zenon DEF Learn, CursorOf
<1>. QED
  BY <1>1, <1>2, <1>3, <1>4, Zenon

\* What makes a cursor of getKeyID and getKeyIDForID.
LEMMA CursorIs ==
    ASSUME NEW S, NEW names \in KeyNames, NEW db \in CachedIDs,
           NEW engine \in CachedKeys, NEW found \in Seq(S)
    PROVE  CursorOf(names, db, engine, found) \in Cursors(S)
BY Zenon DEF CursorOf, Cursors

\* A cursor that getKeyID has moved on: other rows, or other IDs found.
LEMMA CursorWith ==
    ASSUME NEW S, NEW c \in Cursors(S)
    PROVE  /\ c.names \in KeyNames /\ c.db \in CachedIDs
           /\ c.engine \in CachedKeys /\ c.found \in Seq(S)
           /\ \A x : [c EXCEPT !.names = x]
                        = CursorOf(x, c.db, c.engine, c.found)
           /\ \A x : [c EXCEPT !.found = x]
                        = CursorOf(c.names, c.db, c.engine, x)
BY DEF CursorOf, Cursors

\* What getKeyID can make of a cursor: the ID is the one in the cache, or that
\* of a row that was there or is the last one now, which is cached.
Identifies(c, k, g, id) ==
    /\ id # 0 /\ g.found = Append(c.found, id)
    /\ \/ /\ id = c.db[k] /\ g.names = c.names
          /\ g.db = c.db /\ g.engine = c.engine
       \/ /\ id \in 1 .. Len(g.names) /\ g.names[id] = Column[k]
          /\ Extends(c.names, g.names)
          /\ \A i \in 1 .. Len(g.names) : i \in 1 .. Len(c.names) \/ i = id
          /\ g.db = [c.db EXCEPT ![k] = id]
          /\ g.engine = [c.engine EXCEPT ![id] = k]

\* getKeyID does so, and keeps key_names and the caches of their types.
LEMMA GetKeyIDIs ==
    ASSUME NEW c \in Cursors(IDs), NEW k \in Keys
    PROVE  /\ GetKeyID(c, k) \in Cursors(IDs)
           /\ \E id \in IDs : Identifies(c, k, GetKeyID(c, k), id)
<1>. DEFINE known == NamedID(c.names, k)
            g == GetKeyID(c, k)
<1>0. /\ c.names \in KeyNames /\ c.db \in CachedIDs /\ c.engine \in CachedKeys
      /\ c.found \in Seq(IDs) /\ c.db[k] \in IDs /\ known \in IDs
  <2>1. c.names \in KeyNames /\ c.db \in CachedIDs
    BY CursorWith, Zenon
  <2>. QED
    BY <2>1, CursorWith, NamedIDIs, Zenon DEF CachedIDs
<1>. HIDE DEF g, known
<1>9. \A x : [c EXCEPT !.found = x] = CursorOf(c.names, c.db, c.engine, x)
  BY CursorWith, Zenon
<1>1. \A id \in IDs : Append(c.found, id) \in Seq(IDs)
  BY <1>0
<1>2. CASE c.db[k] # 0
  <2>1. g = [c EXCEPT !.found = Append(@, c.db[k])]
    BY <1>2, Zenon DEF GetKeyID, g, known
  <2>2. g = CursorOf(c.names, c.db, c.engine, Append(c.found, c.db[k]))
    BY <1>9, <2>1, Zenon
  <2>3. /\ g \in Cursors(IDs)
        /\ g.names = c.names /\ g.db = c.db /\ g.engine = c.engine
        /\ g.found = Append(c.found, c.db[k])
    <3>1. g \in Cursors(IDs)
      BY <1>0, <1>1, <2>2, CursorIs, Zenon
    <3>. QED
      BY <2>2, <3>1, Zenon DEF CursorOf
  <2>. QED
    BY <1>0, <1>2, <2>3, Zenon DEF Identifies, g
<1>3. CASE c.db[k] = 0 /\ known # 0
  <2>1. g = Learn(c, k, known)
    BY <1>3, Zenon DEF GetKeyID, g, known
  <2>2. g = CursorOf(c.names, [c.db EXCEPT ![k] = known],
                     [c.engine EXCEPT ![known] = k], Append(c.found, known))
    BY <1>0, <1>3, <2>1, LearnIs, Zenon
  <2>3. /\ [c.db EXCEPT ![k] = known] \in CachedIDs
        /\ [c.engine EXCEPT ![known] = k] \in CachedKeys
    BY <1>0, LearnIs, Zenon
  <2>4. /\ g \in Cursors(IDs)
        /\ g.names = c.names /\ g.db = [c.db EXCEPT ![k] = known]
        /\ g.engine = [c.engine EXCEPT ![known] = k]
        /\ g.found = Append(c.found, known)
    <3>1. g \in Cursors(IDs)
      BY <1>0, <1>1, <2>2, <2>3, CursorIs, Zenon
    <3>. QED
      BY <2>2, <3>1, Zenon DEF CursorOf
  <2>5. Extends(c.names, c.names)
    BY <1>0, NamesAre DEF Extends
  <2>6. known \in 1 .. Len(c.names) /\ c.names[known] = Column[k]
    BY <1>0, <1>3, NamedIDIs, Zenon DEF known
  <2>. QED
    BY <1>0, <1>3, <2>4, <2>5, <2>6, Zenon DEF g, Identifies
<1>4. CASE c.db[k] = 0 /\ known = 0
  <2>. DEFINE more == Append(c.names, Column[k])
              d == CursorOf(more, c.db, c.engine, c.found)
              id == Len(c.names) + 1
  <2>1. more \in KeyNames
    BY <1>0, <1>4, NamedIDIs, Zenon DEF known
  <2>2. /\ Len(more) = id /\ more[id] = Column[k] /\ id \in 1 .. Len(more)
        /\ Extends(c.names, more)
        /\ \A i \in 1 .. Len(more) : i \in 1 .. Len(c.names) \/ i = id
    <3>1. Column[k] \in Keys /\ c.names \in Seq(Keys)
      BY <1>0, NamedIDIs, NamesAre, Zenon
    <3>. QED
      BY <3>1 DEF Extends
  <2>3. id \in IDs /\ id # 0
    BY <2>1, <2>2, NamesAre, Zenon
  <2>4. g = Learn([c EXCEPT !.names = Append(@, Column[k])], k, id)
    BY <1>4, Zenon DEF GetKeyID, g, known
  <2>5. [c EXCEPT !.names = Append(@, Column[k])] = d
    BY CursorWith, Zenon
  <2>. HIDE DEF more, id
  <2>6. /\ d \in Cursors(IDs) /\ d.names = more /\ d.db = c.db
        /\ d.engine = c.engine /\ d.found = c.found
    <3>1. d \in Cursors(IDs)
      BY <1>0, <2>1, CursorIs, Zenon
    <3>. QED
      BY <3>1, Zenon DEF CursorOf
  <2>. HIDE DEF d
  <2>7. g = CursorOf(more, [c.db EXCEPT ![k] = id],
                     [c.engine EXCEPT ![id] = k], Append(c.found, id))
    BY <2>3, <2>4, <2>5, <2>6, LearnIs, Zenon
  <2>8. /\ [c.db EXCEPT ![k] = id] \in CachedIDs
        /\ [c.engine EXCEPT ![id] = k] \in CachedKeys
    BY <2>3, LearnIs, Zenon
  <2>9. /\ g \in Cursors(IDs)
        /\ g.names = more /\ g.db = [c.db EXCEPT ![k] = id]
        /\ g.engine = [c.engine EXCEPT ![id] = k]
        /\ g.found = Append(c.found, id)
    <3>1. g \in Cursors(IDs)
      BY <1>1, <2>1, <2>3, <2>7, <2>8, CursorIs, Zenon
    <3>. QED
      BY <2>7, <3>1, Zenon DEF CursorOf
  <2>. QED
    BY <2>2, <2>3, <2>9, Zenon DEF g, Identifies
<1>. QED
  BY <1>2, <1>3, <1>4, Zenon DEF g

\* A cursor whose caches agree with a key_names of faithful keys.
Agreeing(c) == Faithful(c.names) /\ Agrees(c.names, c.db, c.engine)

\* getKeyID gives a faithful key its own row: the one that is cached, the one
\* that is found or a new one, and the caches go on agreeing.
LEMMA GetKeyIDAgrees ==
    ASSUME NEW c \in Cursors(IDs), Agreeing(c),
           NEW k \in Keys, ~Unfaithful(k)
    PROVE  /\ Agreeing(GetKeyID(c, k))
           /\ Extends(c.names, GetKeyID(c, k).names)
           /\ \E id \in 1 .. Len(GetKeyID(c, k).names) :
                 /\ GetKeyID(c, k).found = Append(c.found, id)
                 /\ GetKeyID(c, k).names[id] = k
<1>. DEFINE g == GetKeyID(c, k)
<1>. HIDE DEF g
<1>1. /\ c.names \in KeyNames /\ c.db \in CachedIDs /\ c.engine \in CachedKeys
      /\ g \in Cursors(IDs) /\ g.names \in KeyNames
  <2>1. g \in Cursors(IDs)
    BY GetKeyIDIs, Zenon DEF g
  <2>. QED
    BY <2>1, Zenon DEF Cursors
<1>2. PICK id \in IDs : Identifies(c, k, g, id)
  BY GetKeyIDIs, Zenon DEF g
<1>0. g.found = Append(c.found, id) /\ id # 0
  BY <1>2, Zenon DEF Identifies
<1>3. CASE g.names = c.names /\ id = c.db[k] /\ g.db = c.db /\ g.engine = c.engine
  <2>1. k # NoKey
    BY SQLiteAssumption, Zenon
  <2>2. id \in 1 .. Len(c.names) /\ c.names[id] = k
    BY <1>0, <1>3, <2>1, Zenon DEF Agreeing, Agrees
  <2>3. Extends(c.names, c.names)
    BY <1>1, NamesAre DEF Extends
  <2>. QED
    BY <1>0, <1>3, <2>2, <2>3, Zenon DEF Agreeing, g
<1>4. CASE /\ id \in 1 .. Len(g.names) /\ g.names[id] = Column[k]
           /\ Extends(c.names, g.names)
           /\ \A i \in 1 .. Len(g.names) : i \in 1 .. Len(c.names) \/ i = id
           /\ g.db = [c.db EXCEPT ![k] = id]
           /\ g.engine = [c.engine EXCEPT ![id] = k]
  <2>1. g.names[id] = k
    BY <1>4, Zenon DEF Unfaithful
  <2>2. Agrees(g.names, c.db, c.engine)
    BY <1>1, <1>4, MoreNamesAgree, Zenon DEF Agreeing
  <2>3. Agrees(g.names, [c.db EXCEPT ![g.names[id]] = id],
                        [c.engine EXCEPT ![id] = g.names[id]])
    BY <1>1, <1>4, <2>2, LearningAgrees, Zenon
  <2>4. Agrees(g.names, g.db, g.engine)
    BY <1>4, <2>1, <2>3, Zenon
  <2>5. Faithful(g.names)
    BY <1>4, <2>1, Zenon DEF Faithful, Extends, Agreeing
  <2>. QED
    BY <1>0, <1>4, <2>1, <2>4, <2>5, Zenon DEF Agreeing, g
<1>. QED
  BY <1>2, <1>3, <1>4, Zenon DEF Identifies

-----------------------------------------------------------------------------
(***************************************************************************)
(* The keys a result names, one after the other.                           *)
(***************************************************************************)
\* The loop of setRuleResult over its dependencies, a step at a time.
LEMMA IdentifiedUnfolds ==
    ASSUME NEW c \in Cursors(IDs), NEW ks \in Seq(Keys)
    PROVE  /\ Identified(c, ks, 0) = c
           /\ \A n \in 1 .. Len(ks) :
                 Identified(c, ks, n) = GetKeyID(Identified(c, ks, n - 1), ks[n])
<1>. DEFINE N == Len(ks)
            D == Cursors(IDs)
            F == [i \in 1 .. N |-> [d \in D |-> GetKeyID(d, ks[i])]]
            Step(a) == [i \in 0 .. N |->
                           IF i = 0 THEN c ELSE GetKeyID(a[i - 1], ks[i])]
            at == CHOOSE a : a = Step(a)
<1>1. N \in Nat /\ \A i \in 1 .. N : ks[i] \in Keys
  OBVIOUS
<1>2. \A n : Identified(c, ks, n) = at[n]
  BY Zenon DEF Identified
<1>. HIDE DEF N, D, F
<1>3. F \in [1 .. N -> [D -> D]]
  BY <1>1, GetKeyIDIs, Zenon DEF F, D
<1>4. PICK a : Runs(D, c, N, F, a, N)
  <2>1. c \in D
    BY Zenon DEF D
  <2>. QED
    BY <1>1, <1>3, <2>1, LoopExists, Zenon
<1>5. \A i \in 0 .. N : i # 0 => i \in 1 .. N /\ i - 1 \in 0 .. N
  BY <1>1
<1>6. \A i \in 1 .. N : \A d \in D : F[i][d] = GetKeyID(d, ks[i])
  BY Zenon DEF F
<1>7. \A i \in 0 .. N : a[i] = IF i = 0 THEN c ELSE GetKeyID(a[i - 1], ks[i])
  <2>. SUFFICES ASSUME NEW i \in 0 .. N
                PROVE  a[i] = IF i = 0 THEN c ELSE GetKeyID(a[i - 1], ks[i])
    BY Zenon
  <2>1. a[i] = IF i = 0 THEN c ELSE F[i][a[i - 1]]
    BY <1>4, <1>5, Zenon DEF Runs
  <2>2. i # 0 => F[i][a[i - 1]] = GetKeyID(a[i - 1], ks[i])
    BY <1>4, <1>5, <1>6, Zenon DEF Runs
  <2>. QED
    BY <2>1, <2>2, Zenon
<1>8. a = Step(a)
  BY <1>4, <1>7, Zenon DEF Runs
<1>9. at = Step(at)
  BY <1>8, Zenon
<1>. HIDE DEF at
<1>10. \A i \in 0 .. N : at[i] = IF i = 0 THEN c ELSE GetKeyID(at[i - 1], ks[i])
  BY <1>9, Zenon
<1>11. 0 \in 0 .. N /\ \A i \in 1 .. N : i \in 0 .. N /\ i # 0
  BY <1>1
<1>. QED
  BY <1>2, <1>10, <1>11, Zenon DEF N

\* Every key is given an ID, in order.
LEMMA IdentifiedTyped ==
    ASSUME NEW c \in Cursors(IDs), NEW ks \in Seq(Keys), NEW n \in 0 .. Len(ks)
    PROVE  /\ Identified(c, ks, n) \in Cursors(IDs)
           /\ Len(Identified(c, ks, n).found) = Len(c.found) + n
<1>. DEFINE g(i) == Identified(c, ks, i)
            P == {i \in Nat : g(i) \in Cursors(IDs)
                              /\ Len(g(i).found) = Len(c.found) + i}
<1>1. c.found \in Seq(IDs) /\ Len(c.found) \in Nat /\ Len(ks) \in Nat
  BY CursorWith
<1>2. 0 \in P
  <2>1. g(0) = c
    BY IdentifiedUnfolds, Zenon
  <2>. HIDE DEF g
  <2>. QED
    BY <1>1, <2>1
<1>3. ASSUME NEW i \in 1 .. Len(ks), i - 1 \in P PROVE i \in P
  <2>1. ks[i] \in Keys /\ i \in Nat
    BY <1>1
  <2>2. g(i) = GetKeyID(g(i - 1), ks[i])
    BY IdentifiedUnfolds, Zenon
  <2>. HIDE DEF g
  <2>3. g(i - 1) \in Cursors(IDs) /\ Len(g(i - 1).found) = Len(c.found) + (i - 1)
    BY <1>3, Zenon
  <2>4. g(i) \in Cursors(IDs)
    BY <2>1, <2>2, <2>3, GetKeyIDIs, Zenon
  <2>5. PICK id \in IDs : Identifies(g(i - 1), ks[i], g(i), id)
    BY <2>1, <2>2, <2>3, GetKeyIDIs, Zenon
  <2>8. g(i).found = Append(g(i - 1).found, id)
    BY <2>5, Zenon DEF Identifies
  <2>6. g(i - 1).found \in Seq(IDs)
    BY <2>3, CursorWith, Zenon
  <2>7. Len(g(i).found) = Len(c.found) + i
    BY <1>1, <2>1, <2>3, <2>6, <2>8
  <2>. QED
    BY <2>1, <2>4, <2>7, Zenon
<1>. HIDE DEF P
<1>4. \A i \in 0 .. Len(ks) : i \in P
  BY <1>1, <1>2, <1>3, Upto, Zenon
<1>. QED
  BY <1>4, Zenon DEF P

\* Keys that the column keeps are found under the IDs they are given.
LEMMA IdentifiedAgrees ==
    ASSUME NEW c \in Cursors(IDs), Agreeing(c), c.found = <<>>,
           NEW ks \in Seq(Keys), \A i \in 1 .. Len(ks) : ~Unfaithful(ks[i]),
           NEW n \in 0 .. Len(ks)
    PROVE  /\ Agreeing(Identified(c, ks, n))
           /\ Extends(c.names, Identified(c, ks, n).names)
           /\ \A j \in 1 .. n :
                 /\ Identified(c, ks, n).found[j]
                       \in 1 .. Len(Identified(c, ks, n).names)
                 /\ Identified(c, ks, n).names[Identified(c, ks, n).found[j]]
                       = ks[j]
<1>. DEFINE Right(g, i) ==
                /\ Agreeing(g) /\ Extends(c.names, g.names)
                /\ \A j \in 1 .. i : /\ g.found[j] \in 1 .. Len(g.names)
                                     /\ g.names[g.found[j]] = ks[j]
            g(i) == Identified(c, ks, i)
            P == {i \in Nat : Right(g(i), i)}
<1>1. c.names \in KeyNames /\ Len(ks) \in Nat
  BY CursorWith
<1>2. 0 \in P
  <2>1. g(0) = c
    BY IdentifiedUnfolds, Zenon
  <2>. HIDE DEF g
  <2>2. Extends(c.names, c.names)
    BY <1>1, NamesAre DEF Extends
  <2>. QED
    BY <2>1, <2>2
<1>3. ASSUME NEW i \in 1 .. Len(ks), i - 1 \in P PROVE i \in P
  <2>1. ks[i] \in Keys /\ i \in Nat /\ i - 1 \in 0 .. Len(ks)
    BY <1>1
  <2>2. g(i) = GetKeyID(g(i - 1), ks[i])
    BY IdentifiedUnfolds, Zenon
  <2>3. g(i - 1) \in Cursors(IDs) /\ Len(g(i - 1).found) = i - 1
    <3>1. Len(c.found) = 0
      OBVIOUS
    <3>2. g(i - 1) \in Cursors(IDs) /\ Len(g(i - 1).found) = Len(c.found) + (i - 1)
      BY <2>1, IdentifiedTyped, Zenon
    <3>. HIDE DEF g
    <3>. QED
      BY <2>1, <3>1, <3>2
  <2>. HIDE DEF g
  <2>4. Right(g(i - 1), i - 1)
    BY <1>3, Zenon
  <2>. DEFINE b == g(i - 1)
              e == g(i)
  <2>5. /\ Agreeing(e) /\ Extends(b.names, e.names)
        /\ \E id \in 1 .. Len(e.names) :
              e.found = Append(b.found, id) /\ e.names[id] = ks[i]
    <3>1. b \in Cursors(IDs) /\ Agreeing(b) /\ ~Unfaithful(ks[i])
      BY <2>3, <2>4, Zenon
    <3>2. e = GetKeyID(b, ks[i])
      BY <2>2, Zenon
    <3>. HIDE DEF b, e
    <3>. QED
      BY <2>1, <3>1, <3>2, GetKeyIDAgrees, Zenon
  <2>6. PICK id \in 1 .. Len(e.names) :
           e.found = Append(b.found, id) /\ e.names[id] = ks[i]
    BY <2>5, Zenon
  <2>7. b.found \in Seq(IDs) /\ b.names \in KeyNames /\ e.names \in KeyNames
    <3>1. e \in Cursors(IDs)
      BY <2>1, <2>2, <2>3, GetKeyIDIs, Zenon
    <3>. QED
      BY <2>3, <3>1, CursorWith, Zenon
  <2>. HIDE DEF b, e
  <2>8. Extends(c.names, e.names)
    <3>1. Extends(c.names, b.names)
      BY <2>4, Zenon DEF b
    <3>. QED
      BY <1>1, <2>5, <2>7, <3>1, ExtendsFurther, Zenon
  <2>9. ASSUME NEW j \in 1 .. i
        PROVE  e.found[j] \in 1 .. Len(e.names) /\ e.names[e.found[j]] = ks[j]
    <3>1. CASE j = i
      <4>1. e.found[i] = id
        BY <2>1, <2>3, <2>6, <2>7 DEF b
      <4>. QED
        BY <2>6, <3>1, <4>1, Zenon
    <3>2. CASE j # i
      <4>1. j \in 1 .. i - 1
        BY <2>1, <3>2
      <4>2. e.found[j] = b.found[j]
        BY <2>1, <2>3, <2>6, <2>7, <4>1 DEF b
      <4>3. b.found[j] \in 1 .. Len(b.names) /\ b.names[b.found[j]] = ks[j]
        BY <2>4, <4>1, Zenon DEF b
      <4>4. b.found[j] \in 1 .. Len(e.names) /\ e.names[b.found[j]] = ks[j]
        BY <2>5, <2>7, <4>3, ExtendsAt, ZenonT(60)
      <4>. QED
        BY <4>2, <4>4, Zenon
    <3>. QED
      BY <3>1, <3>2, Zenon
  <2>10. Right(g(i), i)
    BY <2>5, <2>8, <2>9, Zenon DEF e
  <2>. QED
    BY <2>1, <2>10, Zenon
<1>. HIDE DEF P
<1>4. \A i \in 0 .. Len(ks) : i \in P
  BY <1>1, <1>2, <1>3, Upto, Zenon
<1>. QED
  BY <1>4, Zenon DEF P

-----------------------------------------------------------------------------
(***************************************************************************)
(* The dependencies of a row, one after the other.                         *)
(***************************************************************************)
KeysFound == Keys \cup {NoKey}
Blobs == Seq(0 .. 4 * MaxID + 3)

\* Taking the flags off leaves the ID.
LEMMA DecodedIDTyped ==
    ASSUME NEW raw \in 0 .. 4 * MaxID + 3
    PROVE  DecodedID(raw) \in IDs
BY IDsAre DEF DecodedID

\* Every entry of a dependencies blob decodes to an ID.
LEMMA BlobsAre ==
    ASSUME NEW deps \in Blobs
    PROVE  /\ Len(deps) \in Nat
           /\ \A i \in 1 .. Len(deps) : /\ deps[i] \in 0 .. 4 * MaxID + 3
                                       /\ DecodedID(deps[i]) \in IDs
<1>. DEFINE S == 0 .. 4 * MaxID + 3
<1>1. deps \in Seq(S)
  BY Zenon DEF Blobs
<1>. HIDE DEF S
<1>2. Len(deps) \in Nat /\ \A i \in 1 .. Len(deps) : deps[i] \in S
  BY <1>1
<1>. QED
  BY <1>2, DecodedIDTyped, Zenon DEF S

\* What getKeyIDForID makes of a cursor: a key read from key_names is cached,
\* and any key is added to those found.
LEMMA GetKeyIDForIDIs ==
    ASSUME NEW c \in Cursors(KeysFound), NEW id \in IDs
    PROVE  /\ GetKeyIDForID(c, id) \in Cursors(KeysFound)
           /\ GetKeyIDForID(c, id).names = c.names
           /\ GetKeyIDForID(c, id).found = Append(c.found, KeyOf(c, id))
           /\ \/ /\ GetKeyIDForID(c, id).db = c.db
                 /\ GetKeyIDForID(c, id).engine = c.engine
              \/ /\ id \in 1 .. Len(c.names)
                 /\ GetKeyIDForID(c, id).db = [c.db EXCEPT ![c.names[id]] = id]
                 /\ GetKeyIDForID(c, id).engine
                       = [c.engine EXCEPT ![id] = c.names[id]]
<1>. DEFINE g == GetKeyIDForID(c, id)
            k == KeyOf(c, id)
<1>. HIDE DEF g, k
<1>1. /\ c.names \in KeyNames /\ c.db \in CachedIDs /\ c.engine \in CachedKeys
      /\ c.found \in Seq(KeysFound)
      /\ \A x : [c EXCEPT !.found = x] = CursorOf(c.names, c.db, c.engine, x)
  BY CursorWith, Zenon
<1>2. c.engine[id] \in KeysFound
  BY <1>1, Zenon DEF CachedKeys, KeysFound
<1>3. k \in KeysFound
  BY <1>1, <1>2, NamesAre, Zenon DEF k, KeyOf, KeysFound
<1>4. Append(c.found, k) \in Seq(KeysFound)
  BY <1>1, <1>3
<1>5. CASE c.engine[id] # NoKey \/ k = NoKey
  <2>1. g = [c EXCEPT !.found = Append(@, k)]
    BY <1>5, Zenon DEF g, k, GetKeyIDForID
  <2>2. g = CursorOf(c.names, c.db, c.engine, Append(c.found, k))
    BY <1>1, <2>1, Zenon
  <2>3. g \in Cursors(KeysFound)
    BY <1>1, <1>4, <2>2, CursorIs, Zenon
  <2>4. /\ g.names = c.names /\ g.db = c.db /\ g.engine = c.engine
        /\ g.found = Append(c.found, k)
    BY <2>2, Zenon DEF CursorOf
  <2>. QED
    BY <2>3, <2>4, Zenon DEF g, k
<1>6. CASE c.engine[id] = NoKey /\ k # NoKey
  <2>1. id \in 1 .. Len(c.names) /\ k = c.names[id]
    BY <1>6, Zenon DEF k, KeyOf
  <2>2. k \in Keys
    BY <1>1, <2>1, NamesAre, Zenon
  <2>3. g = [c EXCEPT !.engine[id] = k, !.db[k] = id, !.found = Append(@, k)]
    BY <1>6, Zenon DEF g, k, GetKeyIDForID
  <2>. DEFINE ndb == [c.db EXCEPT ![k] = id]
              nengine == [c.engine EXCEPT ![id] = k]
              nfound == Append(c.found, k)
  <2>4. ndb \in CachedIDs /\ nengine \in CachedKeys
    BY <2>2, LearnIs, Zenon
  <2>5. g = CursorOf(c.names, ndb, nengine, nfound)
    <3>1. c = [names |-> c.names, db |-> c.db, engine |-> c.engine,
               found |-> c.found]
      BY Zenon DEF Cursors
    <3>. QED
      BY <2>3, <3>1, Zenon DEF CursorOf
  <2>. HIDE DEF ndb, nengine, nfound
  <2>6. g \in Cursors(KeysFound)
    BY <1>1, <1>4, <2>4, <2>5, CursorIs, Zenon DEF nfound
  <2>7. /\ g.names = c.names /\ g.db = ndb /\ g.engine = nengine
        /\ g.found = nfound
    BY <2>5, Zenon DEF CursorOf
  <2>. QED
    BY <2>1, <2>6, <2>7, Zenon DEF g, k, ndb, nengine, nfound
<1>. QED
  BY <1>5, <1>6, Zenon

\* What is cached is a row of key_names, and is found under its ID whether it
\* was in the cache or not.
LEMMA GetKeyIDForIDAgrees ==
    ASSUME NEW c \in Cursors(KeysFound), Agreeing(c), NEW id \in IDs
    PROVE  /\ Agreeing(GetKeyIDForID(c, id))
           /\ id \in 1 .. Len(c.names) => KeyOf(c, id) = c.names[id]
<1>. DEFINE g == GetKeyIDForID(c, id)
<1>. HIDE DEF g
<1>1. c.names \in KeyNames /\ c.db \in CachedIDs /\ c.engine \in CachedKeys
  BY CursorWith, Zenon
<1>2. id \in 1 .. Len(c.names) => KeyOf(c, id) = c.names[id]
  BY Zenon DEF KeyOf, Agreeing, Agrees
<1>3. g.names = c.names
  BY GetKeyIDForIDIs, Zenon DEF g
<1>4. CASE g.db = c.db /\ g.engine = c.engine
  BY <1>2, <1>3, <1>4, Zenon DEF g, Agreeing
<1>5. CASE /\ id \in 1 .. Len(c.names)
           /\ g.db = [c.db EXCEPT ![c.names[id]] = id]
           /\ g.engine = [c.engine EXCEPT ![id] = c.names[id]]
  <2>1. Agrees(c.names, g.db, g.engine)
    <3>1. Agrees(c.names, [c.db EXCEPT ![c.names[id]] = id],
                          [c.engine EXCEPT ![id] = c.names[id]])
      BY <1>1, <1>5, LearningAgrees, Zenon DEF Agreeing
    <3>. QED
      BY <1>5, <3>1, Zenon
  <2>. QED
    BY <1>2, <1>3, <2>1, Zenon DEF g, Agreeing
<1>. QED
  BY <1>4, <1>5, GetKeyIDForIDIs, Zenon DEF g

\* The loop of lookupRuleResult over the IDs in the blob, a step at a time.
LEMMA ResolvedUnfolds ==
    ASSUME NEW c \in Cursors(KeysFound), NEW deps \in Blobs
    PROVE  /\ Resolved(c, deps, 0) = c
           /\ \A n \in 1 .. Len(deps) :
                 Resolved(c, deps, n)
                    = GetKeyIDForID(Resolved(c, deps, n - 1),
                                    DecodedID(deps[n]))
<1>. DEFINE N == Len(deps)
            D == Cursors(KeysFound)
            F == [i \in 1 .. N |->
                     [d \in D |-> GetKeyIDForID(d, DecodedID(deps[i]))]]
            Step(a) == [i \in 0 .. N |->
                           IF i = 0 THEN c
                           ELSE GetKeyIDForID(a[i - 1], DecodedID(deps[i]))]
            at == CHOOSE a : a = Step(a)
<1>1. N \in Nat /\ \A i \in 1 .. N : DecodedID(deps[i]) \in IDs
  BY BlobsAre, Zenon
<1>2. \A n : Resolved(c, deps, n) = at[n]
  BY Zenon DEF Resolved
<1>. HIDE DEF N, D, F
<1>3. F \in [1 .. N -> [D -> D]]
  BY <1>1, GetKeyIDForIDIs, Zenon DEF F, D
<1>4. PICK a : Runs(D, c, N, F, a, N)
  <2>1. c \in D
    BY Zenon DEF D
  <2>. QED
    BY <1>1, <1>3, <2>1, LoopExists, Zenon
<1>5. \A i \in 0 .. N : i # 0 => i \in 1 .. N /\ i - 1 \in 0 .. N
  BY <1>1
<1>6. \A i \in 1 .. N : \A d \in D :
         F[i][d] = GetKeyIDForID(d, DecodedID(deps[i]))
  BY Zenon DEF F
<1>7. ASSUME NEW i \in 0 .. N
      PROVE  a[i] = IF i = 0 THEN c
                    ELSE GetKeyIDForID(a[i - 1], DecodedID(deps[i]))
  <2>1. a[i] = IF i = 0 THEN c ELSE F[i][a[i - 1]]
    BY <1>4, <1>5, Zenon DEF Runs
  <2>2. i # 0 => F[i][a[i - 1]] = GetKeyIDForID(a[i - 1], DecodedID(deps[i]))
    BY <1>4, <1>5, <1>6, Zenon DEF Runs
  <2>. QED
    BY <2>1, <2>2, Zenon
<1>8. a = Step(a)
  BY <1>4, <1>7, Zenon DEF Runs
<1>9. at = Step(at)
  BY <1>8, Zenon
<1>. HIDE DEF at
<1>10. \A i \in 0 .. N : at[i] = IF i = 0 THEN c
                         ELSE GetKeyIDForID(at[i - 1], DecodedID(deps[i]))
  BY <1>9, Zenon
<1>11. 0 \in 0 .. N /\ \A i \in 1 .. N : i \in 0 .. N /\ i # 0
  BY <1>1
<1>. QED
  BY <1>2, <1>10, <1>11, Zenon DEF N

\* A key is found, or found missing, for every ID, and key_names stays as it is.
LEMMA ResolvedTyped ==
    ASSUME NEW c \in Cursors(KeysFound), NEW deps \in Blobs,
           NEW n \in 0 .. Len(deps)
    PROVE  /\ Resolved(c, deps, n) \in Cursors(KeysFound)
           /\ Resolved(c, deps, n).names = c.names
           /\ Len(Resolved(c, deps, n).found) = Len(c.found) + n
<1>. DEFINE g(i) == Resolved(c, deps, i)
            P == {i \in Nat : /\ g(i) \in Cursors(KeysFound)
                              /\ g(i).names = c.names
                              /\ Len(g(i).found) = Len(c.found) + i}
<1>1. c.found \in Seq(KeysFound) /\ Len(c.found) \in Nat /\ Len(deps) \in Nat
  BY CursorWith, BlobsAre
<1>2. 0 \in P
  <2>1. g(0) = c
    BY ResolvedUnfolds, Zenon
  <2>. HIDE DEF g
  <2>. QED
    BY <1>1, <2>1
<1>3. ASSUME NEW i \in 1 .. Len(deps), i - 1 \in P PROVE i \in P
  <2>1. DecodedID(deps[i]) \in IDs /\ i \in Nat
    <3>1. i \in Nat
      BY <1>1
    <3>. QED
      BY <3>1, BlobsAre, Zenon
  <2>2. g(i) = GetKeyIDForID(g(i - 1), DecodedID(deps[i]))
    BY ResolvedUnfolds, Zenon
  <2>. HIDE DEF g
  <2>3. /\ g(i - 1) \in Cursors(KeysFound) /\ g(i - 1).names = c.names
        /\ Len(g(i - 1).found) = Len(c.found) + (i - 1)
    BY <1>3, Zenon
  <2>4. /\ g(i) \in Cursors(KeysFound) /\ g(i).names = c.names
        /\ g(i).found = Append(g(i - 1).found,
                               KeyOf(g(i - 1), DecodedID(deps[i])))
    <3>. DEFINE b == g(i - 1)
                id == DecodedID(deps[i])
    <3>0. b \in Cursors(KeysFound) /\ id \in IDs
      BY <2>1, <2>3, Zenon
    <3>. HIDE DEF b, id
    <3>3. /\ GetKeyIDForID(b, id) \in Cursors(KeysFound)
          /\ GetKeyIDForID(b, id).names = b.names
          /\ GetKeyIDForID(b, id).found = Append(b.found, KeyOf(b, id))
      BY <3>0, GetKeyIDForIDIs, Zenon
    <3>1. g(i) \in Cursors(KeysFound) /\ g(i).names = g(i - 1).names
      BY <2>2, <3>3, Zenon DEF b, id
    <3>2. g(i).found = Append(g(i - 1).found,
                              KeyOf(g(i - 1), DecodedID(deps[i])))
      BY <2>2, <3>3, Zenon DEF b, id
    <3>. QED
      BY <2>3, <3>1, <3>2, Zenon
  <2>5. g(i - 1).found \in Seq(KeysFound) /\ g(i).found \in Seq(KeysFound)
    BY <2>3, <2>4, CursorWith, Zenon
  <2>6. Len(g(i).found) = Len(c.found) + i
    BY <1>1, <2>1, <2>3, <2>4, <2>5
  <2>. QED
    BY <2>1, <2>4, <2>6, Zenon
<1>. HIDE DEF P
<1>4. \A i \in 0 .. Len(deps) : i \in P
  BY <1>1, <1>2, <1>3, Upto, Zenon
<1>. QED
  BY <1>4, Zenon DEF P

\* The caches go on agreeing, and every ID that has a name is resolved to it.
LEMMA ResolvedAgrees ==
    ASSUME NEW c \in Cursors(KeysFound), Agreeing(c), c.found = <<>>,
           NEW deps \in Blobs, NEW n \in 0 .. Len(deps)
    PROVE  /\ Agreeing(Resolved(c, deps, n))
           /\ \A j \in 1 .. n :
                 DecodedID(deps[j]) \in 1 .. Len(c.names) =>
                    Resolved(c, deps, n).found[j] = c.names[DecodedID(deps[j])]
<1>. DEFINE Right(g, i) ==
                /\ Agreeing(g)
                /\ \A j \in 1 .. i :
                      DecodedID(deps[j]) \in 1 .. Len(c.names) =>
                         g.found[j] = c.names[DecodedID(deps[j])]
            g(i) == Resolved(c, deps, i)
            P == {i \in Nat : Right(g(i), i)}
<1>1. Len(deps) \in Nat
  BY BlobsAre, Zenon
<1>2. 0 \in P
  <2>1. g(0) = c
    BY ResolvedUnfolds, Zenon
  <2>. HIDE DEF g
  <2>. QED
    BY <2>1
<1>3. ASSUME NEW i \in 1 .. Len(deps), i - 1 \in P PROVE i \in P
  <2>. DEFINE id == DecodedID(deps[i])
  <2>1. i \in Nat /\ i - 1 \in 0 .. Len(deps)
    BY <1>1
  <2>2. id \in IDs
    BY BlobsAre, Zenon
  <2>3. g(i) = GetKeyIDForID(g(i - 1), id)
    BY ResolvedUnfolds, Zenon
  <2>4. /\ g(i - 1) \in Cursors(KeysFound) /\ g(i - 1).names = c.names
        /\ Len(g(i - 1).found) = i - 1
    <3>1. Len(c.found) = 0
      OBVIOUS
    <3>2. /\ g(i - 1) \in Cursors(KeysFound) /\ g(i - 1).names = c.names
          /\ Len(g(i - 1).found) = Len(c.found) + (i - 1)
      BY <2>1, ResolvedTyped, Zenon
    <3>. HIDE DEF g
    <3>. QED
      BY <2>1, <3>1, <3>2
  <2>. HIDE DEF g
  <2>5. Right(g(i - 1), i - 1)
    BY <1>3, Zenon
  <2>. DEFINE b == g(i - 1)
              e == g(i)
              k == KeyOf(b, id)
  <2>. HIDE DEF b, e, k, id
  <2>6. /\ Agreeing(e) /\ e.found = Append(b.found, k)
        /\ id \in 1 .. Len(b.names) => k = b.names[id]
    <3>1. b \in Cursors(KeysFound) /\ Agreeing(b) /\ e = GetKeyIDForID(b, id)
      BY <2>3, <2>4, <2>5, Zenon DEF b, e
    <3>2. Agreeing(e) /\ (id \in 1 .. Len(b.names) => k = b.names[id])
      BY <2>2, <3>1, GetKeyIDForIDAgrees, Zenon DEF k
    <3>3. e.found = Append(b.found, k)
      BY <2>2, <3>1, GetKeyIDForIDIs, Zenon DEF k
    <3>. QED
      BY <3>2, <3>3, Zenon
  <2>7. b.found \in Seq(KeysFound) /\ Len(b.found) = i - 1 /\ b.names = c.names
    BY <2>4, CursorWith, Zenon DEF b
  <2>8. ASSUME NEW j \in 1 .. i, DecodedID(deps[j]) \in 1 .. Len(c.names)
        PROVE  e.found[j] = c.names[DecodedID(deps[j])]
    <3>1. CASE j = i
      <4>1. e.found[i] = k
        BY <2>1, <2>6, <2>7
      <4>. QED
        BY <2>6, <2>7, <2>8, <3>1, <4>1, Zenon DEF id
    <3>2. CASE j # i
      <4>1. j \in 1 .. i - 1
        BY <2>1, <3>2
      <4>2. e.found[j] = b.found[j]
        BY <2>1, <2>6, <2>7, <4>1
      <4>. QED
        BY <2>5, <2>8, <4>1, <4>2, Zenon DEF b
    <3>. QED
      BY <3>1, <3>2, Zenon
  <2>9. Right(g(i), i)
    BY <2>6, <2>8, Zenon DEF e
  <2>. QED
    BY <2>1, <2>9, Zenon
<1>. HIDE DEF P
<1>4. \A i \in 0 .. Len(deps) : i \in P
  BY <1>1, <1>2, <1>3, Upto, Zenon
<1>. QED
  BY <1>4, Zenon DEF P

\* A key that is cached under its own row before the dependencies are read.
LEMMA NamedStart ==
    ASSUME NEW S, NEW c \in Cursors(S), NEW k \in Keys, NEW id \in IDs
    PROVE  /\ [Learn(c, k, id) EXCEPT !.found = <<>>] \in Cursors(KeysFound)
           /\ [Learn(c, k, id) EXCEPT !.found = <<>>].names = c.names
           /\ [Learn(c, k, id) EXCEPT !.found = <<>>].found = <<>>
           /\ Agreeing(c) /\ id \in 1 .. Len(c.names) /\ c.names[id] = k =>
                 Agreeing([Learn(c, k, id) EXCEPT !.found = <<>>])
<1>. DEFINE x == [Learn(c, k, id) EXCEPT !.found = <<>>]
            ndb == IF id = 0 THEN c.db ELSE [c.db EXCEPT ![k] = id]
            nengine == IF id = 0 THEN c.engine ELSE [c.engine EXCEPT ![id] = k]
<1>1. /\ c.names \in KeyNames /\ c.db \in CachedIDs /\ c.engine \in CachedKeys
      /\ ndb \in CachedIDs /\ nengine \in CachedKeys
  BY LearnIs, Zenon
<1>2. Learn(c, k, id) = CursorOf(c.names, ndb, nengine, Append(c.found, id))
  BY LearnIs, Zenon
<1>. HIDE DEF ndb, nengine
<1>3. x = CursorOf(c.names, ndb, nengine, <<>>)
  BY <1>2 DEF CursorOf
<1>. HIDE DEF x
<1>4. <<>> \in Seq(KeysFound)
  OBVIOUS
<1>5. x \in Cursors(KeysFound)
  BY <1>1, <1>3, <1>4, CursorIs, Zenon
<1>6. x.names = c.names /\ x.found = <<>> /\ x.db = ndb /\ x.engine = nengine
  BY <1>3, Zenon DEF CursorOf
<1>7. ASSUME Agreeing(c), id \in 1 .. Len(c.names), c.names[id] = k
      PROVE  Agreeing(x)
  <2>1. id # 0
    BY <1>1, <1>7, NamesAre, Zenon
  <2>2. Agrees(c.names, [c.db EXCEPT ![c.names[id]] = id],
                        [c.engine EXCEPT ![id] = c.names[id]])
    BY <1>1, <1>7, LearningAgrees, Zenon DEF Agreeing
  <2>3. ndb = [c.db EXCEPT ![k] = id] /\ nengine = [c.engine EXCEPT ![id] = k]
    BY <2>1, Zenon DEF ndb, nengine
  <2>4. Agrees(x.names, x.db, x.engine)
    BY <1>6, <1>7, <2>2, <2>3, Zenon
  <2>. QED
    BY <1>6, <1>7, <2>4, Zenon DEF Agreeing
<1>. QED
  BY <1>5, <1>6, <1>7, Zenon DEF x

-----------------------------------------------------------------------------
(***************************************************************************)
(* All rows, one after the other.                                          *)
(***************************************************************************)
\* What is in tables of the right type.
LEMMA TablesAre ==
    ASSUME NEW c \in Tables
    PROVE  /\ c.schema \in {"none", "current", "other"}
           /\ c.names \in KeyNames
           /\ c.rows \in [IDs -> Rows]
           /\ c.iteration \in 0 .. MaxIteration
           /\ c = [schema |-> c.schema, names |-> c.names, rows |-> c.rows,
                   iteration |-> c.iteration]
           /\ \A i \in IDs : c.rows[i] \in Rows /\ c.rows[i].deps \in Blobs
<1>1. /\ c.schema \in {"none", "current", "other"} /\ c.names \in KeyNames
      /\ c.rows \in [IDs -> Rows] /\ c.iteration \in 0 .. MaxIteration
      /\ c = [schema |-> c.schema, names |-> c.names, rows |-> c.rows,
              iteration |-> c.iteration]
  BY Zenon DEF Tables
<1>2. \A row \in Rows : row.deps \in Blobs
  BY Zenon DEF Rows, Blobs
<1>. QED
  BY <1>1, <1>2, Zenon

\* A row that getKeysWithResult comes to leaves the caches in agreement.
LEMMA ListRowIs ==
    ASSUME NEW view \in Tables, NEW c \in Cursors(KeysFound),
           c.names = view.names, NEW i \in 1 .. Len(view.names)
    PROVE  /\ NameRow(c, view, i) \in Cursors(KeysFound)
           /\ NameRow(c, view, i).names = view.names
           /\ NameRow(c, view, i).found = <<>>
           /\ Agreeing(c) => Agreeing(NameRow(c, view, i))
           /\ ListRow(c, view, i) \in Cursors(KeysFound)
           /\ ListRow(c, view, i).names = view.names
           /\ Agreeing(c) => Agreeing(ListRow(c, view, i))
<1>. DEFINE k == view.names[i]
            x == NameRow(c, view, i)
            deps == view.rows[i].deps
            y == Resolved(x, deps, Len(deps))
<1>1. i \in IDs /\ k \in Keys /\ deps \in Blobs
  BY TablesAre, NamesAre, Zenon
<1>2. /\ x \in Cursors(KeysFound) /\ x.names = view.names /\ x.found = <<>>
      /\ Agreeing(c) => Agreeing(x)
  BY <1>1, NamedStart, Zenon DEF NameRow
<1>. HIDE DEF k, x, deps
<1>3. Len(deps) \in 0 .. Len(deps)
  BY <1>1, BlobsAre
<1>4. y \in Cursors(KeysFound) /\ y.names = view.names
  BY <1>1, <1>2, <1>3, ResolvedTyped, Zenon
<1>5. Agreeing(c) => Agreeing(y)
  BY <1>1, <1>2, <1>3, ResolvedAgrees, Zenon
<1>. HIDE DEF y
<1>6. ListRow(c, view, i) = IF view.rows[i] = NoRow THEN c ELSE y
  BY Zenon DEF ListRow, y, x, deps
<1>. QED
  BY <1>2, <1>4, <1>5, <1>6, Zenon DEF x

\* A cursor starts with the caches, and nothing found.
LEMMA CursorStarts ==
    ASSUME NEW names \in KeyNames, NEW S,
           dbKeyIDs \in CachedIDs, engineKeyIDs \in CachedKeys
    PROVE  /\ Cursor(names) \in Cursors(S)
           /\ Cursor(names).names = names /\ Cursor(names).found = <<>>
           /\ Cursor(names).db = dbKeyIDs
           /\ Cursor(names).engine = engineKeyIDs
<1>1. <<>> \in Seq(S)
  OBVIOUS
<1>2. Cursor(names) = CursorOf(names, dbKeyIDs, engineKeyIDs, <<>>)
  BY Zenon DEF Cursor, CursorOf
<1>3. Cursor(names) \in Cursors(S)
  BY <1>1, <1>2, CursorIs, Zenon
<1>. QED
  BY <1>3, Zenon DEF Cursor

\* The loop of getKeysWithResult over the rows, a step at a time.
LEMMA ListingUnfolds ==
    ASSUME NEW view \in Tables,
           dbKeyIDs \in CachedIDs, engineKeyIDs \in CachedKeys
    PROVE  /\ Listing(view, 0) = Cursor(view.names)
           /\ \A n \in 1 .. Len(view.names) :
                 Listing(view, n) = ListRow(Listing(view, n - 1), view, n)
<1>. DEFINE N == Len(view.names)
            c == Cursor(view.names)
            D == {d \in Cursors(KeysFound) : d.names = view.names}
            F == [i \in 1 .. N |-> [d \in D |-> ListRow(d, view, i)]]
            Step(a) == [i \in 0 .. N |->
                           IF i = 0 THEN c ELSE ListRow(a[i - 1], view, i)]
            at == CHOOSE a : a = Step(a)
<1>1. N \in Nat /\ view.names \in KeyNames
  BY TablesAre, NamesAre, Zenon
<1>2. \A n : Listing(view, n) = at[n]
  BY Zenon DEF Listing
<1>3. \A d \in D : d \in Cursors(KeysFound) /\ d.names = view.names
  BY Zenon
<1>4. \A d \in Cursors(KeysFound) : d.names = view.names => d \in D
  BY Zenon
<1>5. c \in D
  BY <1>1, <1>4, CursorStarts, Zenon
<1>. HIDE DEF N, D, F, c
<1>6. \A i \in 1 .. N : \A d \in D : ListRow(d, view, i) \in D
  BY <1>3, <1>4, ListRowIs, ZenonT(60) DEF N
<1>7. F \in [1 .. N -> [D -> D]]
  BY <1>6, Zenon DEF F
<1>8. PICK a : Runs(D, c, N, F, a, N)
  BY <1>1, <1>5, <1>7, LoopExists, Zenon
<1>9. \A i \in 0 .. N : i # 0 => i \in 1 .. N /\ i - 1 \in 0 .. N
  BY <1>1
<1>10. \A i \in 1 .. N : \A d \in D : F[i][d] = ListRow(d, view, i)
  BY Zenon DEF F
<1>11. ASSUME NEW i \in 0 .. N
       PROVE  a[i] = IF i = 0 THEN c ELSE ListRow(a[i - 1], view, i)
  <2>1. a[i] = IF i = 0 THEN c ELSE F[i][a[i - 1]]
    BY <1>8, <1>9, Zenon DEF Runs
  <2>2. i # 0 => F[i][a[i - 1]] = ListRow(a[i - 1], view, i)
    BY <1>8, <1>9, <1>10, Zenon DEF Runs
  <2>. QED
    BY <2>1, <2>2, Zenon
<1>12. a = Step(a)
  BY <1>8, <1>11, Zenon DEF Runs
<1>13. at = Step(at)
  BY <1>12, Zenon
<1>. HIDE DEF at
<1>14. \A i \in 0 .. N : at[i] = IF i = 0 THEN c ELSE ListRow(at[i - 1], view, i)
  BY <1>13, Zenon
<1>15. 0 \in 0 .. N /\ \A i \in 1 .. N : i \in 0 .. N /\ i # 0
  BY <1>1
<1>. QED
  BY <1>2, <1>14, <1>15, Zenon DEF N, c

\* The caches after some rows: of their types, and in agreement if they were.
LEMMA ListingIs ==
    ASSUME NEW view \in Tables,
           dbKeyIDs \in CachedIDs, engineKeyIDs \in CachedKeys,
           NEW n \in 0 .. Len(view.names)
    PROVE  /\ Listing(view, n) \in Cursors(KeysFound)
           /\ Listing(view, n).names = view.names
           /\ Agreeing(Cursor(view.names)) => Agreeing(Listing(view, n))
<1>. DEFINE g(i) == Listing(view, i)
            Good == Agreeing(Cursor(view.names))
            P == {i \in Nat : /\ g(i) \in Cursors(KeysFound)
                              /\ g(i).names = view.names
                              /\ Good => Agreeing(g(i))}
<1>1. Len(view.names) \in Nat /\ view.names \in KeyNames
  BY TablesAre, NamesAre, Zenon
<1>2. 0 \in P
  <2>1. g(0) = Cursor(view.names)
    BY ListingUnfolds, Zenon
  <2>2. g(0) \in Cursors(KeysFound) /\ g(0).names = view.names
    BY <1>1, <2>1, CursorStarts, Zenon
  <2>. HIDE DEF g
  <2>. QED
    BY <2>1, <2>2, Zenon
<1>3. ASSUME NEW i \in 1 .. Len(view.names), i - 1 \in P PROVE i \in P
  <2>1. i \in Nat
    BY <1>1
  <2>2. g(i) = ListRow(g(i - 1), view, i)
    BY ListingUnfolds, Zenon
  <2>. HIDE DEF g, Good
  <2>3. /\ g(i - 1) \in Cursors(KeysFound) /\ g(i - 1).names = view.names
        /\ Good => Agreeing(g(i - 1))
    BY <1>3, Zenon
  <2>4. g(i) \in Cursors(KeysFound) /\ g(i).names = view.names
    <3>1. /\ ListRow(g(i - 1), view, i) \in Cursors(KeysFound)
          /\ ListRow(g(i - 1), view, i).names = view.names
      BY <2>3, ListRowIs, Zenon
    <3>. QED
      BY <2>2, <3>1, Zenon
  <2>5. Good => Agreeing(g(i))
    BY <2>2, <2>3, ListRowIs, Zenon
  <2>. QED
    BY <2>1, <2>4, <2>5, Zenon
<1>. HIDE DEF P
<1>4. \A i \in 0 .. Len(view.names) : i \in P
  BY <1>1, <1>2, <1>3, Upto, Zenon
<1>. QED
  BY <1>4, Zenon DEF P

-----------------------------------------------------------------------------
(***************************************************************************)
(* Rows, and what they mean.                                               *)
(***************************************************************************)
\* An empty table means nothing and is sound.
LEMMA ContentsSound ==
    ASSUME NEW schema \in {"none", "current", "other"}
    PROVE  /\ Contents(schema) \in Tables /\ Sound(Contents(schema))
           /\ Contents(schema).schema = schema /\ Contents(schema).names = <<>>
           /\ Contents(schema).iteration = 0
           /\ \A i \in IDs : Contents(schema).rows[i] = NoRow
<1>. DEFINE c == Contents(schema)
<1>1. /\ c.schema = schema /\ c.names = <<>> /\ c.iteration = 0
      /\ c.rows = [i \in IDs |-> NoRow]
      /\ c = [schema |-> c.schema, names |-> c.names, rows |-> c.rows,
              iteration |-> c.iteration]
  BY Zenon DEF Contents
<1>. HIDE DEF c
<1>2. \A i \in IDs : c.rows[i] = NoRow
  BY <1>1, Zenon
<1>3. <<>> \in KeyNames
  <2>1. <<>> \in Seq(Keys) /\ Distinct(<<>>)
    BY DEF Distinct
  <2>. QED
    BY <2>1, KeyNamesAre, Zenon
<1>4. NoRow \in Rows
  BY DEF NoRow, Rows
<1>5. c.rows \in [IDs -> Rows]
  BY <1>1, <1>4, Zenon
<1>6. 0 \in 0 .. MaxIteration
  BY SQLiteAssumption
<1>7. c \in Tables
  BY <1>1, <1>3, <1>5, <1>6, Zenon DEF Tables
<1>8. Faithful(c.names)
  BY <1>1 DEF Faithful
<1>9. c = Contents(c.schema)
  BY <1>1, Zenon DEF c
<1>10. Sound(c)
  BY <1>2, <1>8, <1>9, Zenon DEF Sound
<1>. QED
  BY <1>1, <1>2, <1>7, <1>10, Zenon DEF c

\* The dependencies of a result.
LEMMA ResultsAre ==
    ASSUME NEW r \in Results
    PROVE  /\ r = [val |-> r.val, deps |-> r.deps]
           /\ r.val # NoResult /\ r.deps \in Seq(Dependencies)
           /\ Len(r.deps) \in Nat
           /\ \A i \in 1 .. Len(r.deps) :
                 /\ r.deps[i] \in Dependencies /\ r.deps[i].key \in Keys
                 /\ i + 1 \in 1 .. Len(r.deps) + 1
           /\ r.deps = [i \in 1 .. Len(r.deps) |-> r.deps[i]]
<1>1. /\ r = [val |-> r.val, deps |-> r.deps]
      /\ r.val # NoResult /\ r.deps \in Seq(Dependencies)
  BY SQLiteAssumption, Zenon
<1>2. /\ Len(r.deps) \in Nat
      /\ \A i \in 1 .. Len(r.deps) : r.deps[i] \in Dependencies
      /\ r.deps = [i \in 1 .. Len(r.deps) |-> r.deps[i]]
  BY <1>1
<1>3. \A d \in Dependencies : d.key \in Keys
  BY Zenon DEF Dependencies
<1>4. \A i \in 1 .. Len(r.deps) : i + 1 \in 1 .. Len(r.deps) + 1
  BY <1>2
<1>. QED
  BY <1>1, <1>2, <1>3, <1>4, Zenon

\* A result names its own key first, and then those of its dependencies.
LEMMA NamedKeysAre ==
    ASSUME NEW k \in Keys, NEW r \in Results
    PROVE  /\ NamedKeys(k, r) \in Seq(Keys)
           /\ Len(NamedKeys(k, r)) = Len(r.deps) + 1
           /\ NamedKeys(k, r)[1] = k
           /\ \A i \in 1 .. Len(r.deps) : NamedKeys(k, r)[i + 1] = r.deps[i].key
<1>. DEFINE N == Len(r.deps)
            f(i) == IF i = 1 THEN k ELSE r.deps[i - 1].key
            ks == [i \in 1 .. N + 1 |-> f(i)]
<1>1. N \in Nat /\ \A i \in 1 .. N : r.deps[i].key \in Keys
  BY ResultsAre, Zenon
<1>2. \A i \in 1 .. N + 1 : i = 1 \/ i - 1 \in 1 .. N
  BY <1>1
<1>3. \A i \in 1 .. N + 1 : f(i) \in Keys
  BY <1>1, <1>2, Zenon
<1>4. NamedKeys(k, r) = ks
  BY Zenon DEF NamedKeys
<1>5. \A i \in 1 .. N : i + 1 \in 1 .. N + 1 /\ i + 1 # 1 /\ (i + 1) - 1 = i
  BY <1>1
<1>. HIDE DEF N
<1>6. \A i \in 1 .. N : ks[i + 1] = r.deps[i].key
  <2>. SUFFICES ASSUME NEW i \in 1 .. N PROVE ks[i + 1] = r.deps[i].key
    BY Zenon
  <2>1. ks[i + 1] = r.deps[(i + 1) - 1].key
    BY <1>5, Zenon
  <2>. QED
    BY <1>5, <2>1, Zenon
<1>7. 1 \in 1 .. N + 1
  BY <1>1
<1>8. ks[1] = k
  BY <1>7, Zenon
<1>. HIDE DEF f
<1>9. ks \in Seq(Keys) /\ Len(ks) = N + 1
  <2>1. N + 1 \in Nat
    BY <1>1
  <2>2. ks \in [1 .. N + 1 -> Keys]
    BY <1>3, Zenon
  <2>. HIDE DEF ks
  <2>. QED
    BY <2>1, <2>2
<1>. QED
  BY <1>4, <1>6, <1>8, <1>9, Zenon DEF N

\* Two bits of flags below the ID: what setRuleResult puts together is what
\* lookupRuleResult takes apart.
LEMMA EncodeDecodes ==
    ASSUME NEW id \in IDs, NEW d \in Dependencies
    PROVE  /\ Encode(id, d) \in 0 .. 4 * MaxID + 3
           /\ DecodedID(Encode(id, d)) = id
           /\ Decoded(d.key, Encode(id, d)) = d
<1>1. /\ d = [key |-> d.key, orderOnly |-> d.orderOnly,
              singleUse |-> d.singleUse]
      /\ d.orderOnly \in 0 .. 1 /\ d.singleUse \in 0 .. 1
  BY Zenon DEF Dependencies
<1>. DEFINE o == d.orderOnly
            s == d.singleUse
            raw == 4 * id + 2 * s + o
<1>2. Encode(id, d) = raw
  BY Zenon DEF Encode
<1>3. o \in 0 .. 1 /\ s \in 0 .. 1
  BY <1>1, Zenon
<1>. HIDE DEF o, s
<1>4. /\ raw \in 0 .. 4 * MaxID + 3 /\ raw \div 4 = id
      /\ raw % 2 = o /\ (raw \div 2) % 2 = s
  BY <1>3, IDsAre
<1>. HIDE DEF raw
<1>5. Decoded(d.key, raw) = [key |-> d.key, orderOnly |-> o, singleUse |-> s]
  BY <1>4, Zenon DEF Decoded
<1>. QED
  BY <1>1, <1>2, <1>4, <1>5, Zenon DEF DecodedID, o, s

\* The row of a result: the IDs found for its dependencies, in order, and their
\* flags.
LEMMA StoredRowIs ==
    ASSUME NEW r \in Results, NEW found \in Seq(IDs),
           Len(found) = Len(r.deps) + 1
    PROVE  /\ StoredRow(r, found) \in Rows /\ StoredRow(r, found) # NoRow
           /\ StoredRow(r, found).val = r.val
           /\ Len(StoredRow(r, found).deps) = Len(r.deps)
           /\ \A i \in 1 .. Len(r.deps) :
                 /\ found[i + 1] \in IDs
                 /\ StoredRow(r, found).deps[i] = Encode(found[i + 1], r.deps[i])
<1>. DEFINE N == Len(r.deps)
            S == 0 .. 4 * MaxID + 3
            row == StoredRow(r, found)
            f == [i \in 1 .. N |-> Encode(found[i + 1], r.deps[i])]
<1>1. N \in Nat /\ \A i \in 1 .. N : i + 1 \in 1 .. N + 1
  BY ResultsAre, Zenon
<1>2. \A i \in 1 .. N : found[i + 1] \in IDs
  <2>1. \A j \in 1 .. N + 1 : found[j] \in IDs
    OBVIOUS
  <2>. QED
    BY <1>1, <2>1, Zenon
<1>3. f \in [1 .. N -> S]
  BY <1>2, ResultsAre, EncodeDecodes, Zenon
<1>4. row = [val |-> r.val, deps |-> f]
  BY Zenon DEF StoredRow
<1>5. \A i \in 1 .. N : f[i] = Encode(found[i + 1], r.deps[i])
  BY Zenon
<1>. HIDE DEF f, N, S, row
<1>6. f \in Seq(S) /\ Len(f) = N
  BY <1>1, <1>3
<1>7. row.val = r.val /\ row.deps = f
  BY <1>4, Zenon
<1>8. row \in Rows
  BY <1>4, <1>6, Zenon DEF Rows, S
<1>9. row # NoRow
  <2>1. r.val # NoResult
    BY ResultsAre, Zenon
  <2>2. NoRow.val = NoResult
    BY Zenon DEF NoRow
  <2>. QED
    BY <1>7, <2>1, <2>2, Zenon
<1>. QED
  BY <1>2, <1>5, <1>6, <1>7, <1>8, <1>9, Zenon DEF row, N

\* Keys that agree give the same result.
LEMMA DecodeSame ==
    ASSUME NEW row, NEW f, NEW g,
           \A d \in 1 .. Len(row.deps) : f[d] = g[d]
    PROVE  Decode(row, f) = Decode(row, g)
BY Zenon DEF Decode

\* Names that are added to key_names do not change what a row means.
LEMMA RowKept ==
    ASSUME NEW c \in Tables, NEW d \in Tables, Sound(c),
           Extends(c.names, d.names), NEW i \in IDs,
           d.rows[i] = c.rows[i], c.rows[i] # NoRow
    PROVE  /\ i \in 1 .. Len(d.names)
           /\ \A j \in 1 .. Len(d.rows[i].deps) :
                 DecodedID(d.rows[i].deps[j]) \in 1 .. Len(d.names)
           /\ DecodedRow(d, i) = DecodedRow(c, i)
           /\ DecodedRow(d, i) \in Results
<1>. DEFINE row == c.rows[i]
            id(j) == DecodedID(row.deps[j])
            f == [j \in 1 .. Len(row.deps) |-> c.names[id(j)]]
            g == [j \in 1 .. Len(row.deps) |-> d.names[id(j)]]
<1>1. c.names \in KeyNames /\ d.names \in KeyNames
  BY TablesAre, Zenon
<1>2. /\ i \in 1 .. Len(c.names) /\ DecodedRow(c, i) \in Results
      /\ \A j \in 1 .. Len(row.deps) : id(j) \in 1 .. Len(c.names)
  BY Zenon DEF Sound
<1>3. /\ i \in 1 .. Len(d.names)
      /\ \A j \in 1 .. Len(row.deps) :
            id(j) \in 1 .. Len(d.names) /\ d.names[id(j)] = c.names[id(j)]
  BY <1>1, <1>2, ExtendsAt, Zenon
<1>4. DecodedRow(c, i) = Decode(row, f) /\ DecodedRow(d, i) = Decode(row, g)
  BY Zenon DEF DecodedRow
<1>5. f = g
  BY <1>3, Zenon
<1>. QED
  BY <1>2, <1>3, <1>4, <1>5, Zenon

\* What a lookup of a key should find.
ResultOf(c, k) ==
    IF Unfaithful(k) \/ c.rows[NamedID(c.names, k)] = NoRow THEN NoResult
    ELSE DecodedRow(c, NamedID(c.names, k))

\* The meaning of tables, in these words.
LEMMA MeaningIs ==
    ASSUME NEW c
    PROVE  Meaning(c) = [results |-> [k \in Keys |-> ResultOf(c, k)],
                         iteration |-> IF c.schema = "other" THEN 0
                                       ELSE c.iteration]
BY Zenon DEF Meaning, ResultOf, DecodedRow

\* There is no row at 0, and the row of a key that is named is its own.
LEMMA ResultAt ==
    ASSUME NEW c \in Tables, Sound(c), NEW k \in Keys
    PROVE  /\ c.rows[0] = NoRow
           /\ ResultOf(c, k) \in Results \cup {NoResult}
           /\ \A i \in 1 .. Len(c.names) : c.names[i] = k =>
                 /\ NamedID(c.names, k) = i /\ ~Unfaithful(k)
                 /\ ResultOf(c, k) = IF c.rows[i] = NoRow THEN NoResult
                                     ELSE DecodedRow(c, i)
           /\ (\A i \in 1 .. Len(c.names) : c.names[i] # k) =>
                 ResultOf(c, k) = NoResult
<1>1. c.names \in KeyNames
  BY TablesAre, Zenon
<1>2. 0 \notin 1 .. Len(c.names)
  BY <1>1, NamesAre, Zenon
<1>3. c.rows[0] = NoRow
  BY <1>2, IDsAre, Zenon DEF Sound
<1>4. NamedID(c.names, k) \in IDs
  BY <1>1, NamedIDIs, Zenon
<1>5. ResultOf(c, k) \in Results \cup {NoResult}
  BY <1>4, Zenon DEF ResultOf, Sound
<1>6. ASSUME NEW i \in 1 .. Len(c.names), c.names[i] = k
      PROVE  /\ NamedID(c.names, k) = i /\ ~Unfaithful(k)
             /\ ResultOf(c, k) = IF c.rows[i] = NoRow THEN NoResult
                                 ELSE DecodedRow(c, i)
  <2>1. ~Unfaithful(k)
    BY <1>6, Zenon DEF Sound, Faithful
  <2>2. NamedID(c.names, k) = i
    BY <1>1, <1>6, <2>1, NamedIDIs, Zenon DEF Unfaithful
  <2>. QED
    BY <2>1, <2>2, Zenon DEF ResultOf
<1>7. ASSUME \A i \in 1 .. Len(c.names) : c.names[i] # k
      PROVE  ResultOf(c, k) = NoResult
  <2>1. CASE Unfaithful(k)
    BY <2>1, Zenon DEF ResultOf
  <2>2. CASE ~Unfaithful(k)
    <3>1. NamedID(c.names, k) = 0
      <4>1. Column[k] = k
        BY <2>2, Zenon DEF Unfaithful
      <4>2. NamedID(c.names, k) # 0 =>
               /\ NamedID(c.names, k) \in 1 .. Len(c.names)
               /\ c.names[NamedID(c.names, k)] = Column[k]
        BY <1>1, NamedIDIs, Zenon
      <4>. QED
        BY <1>7, <4>1, <4>2, Zenon
    <3>. QED
      BY <1>3, <3>1, Zenon DEF ResultOf
  <2>. QED
    BY <2>1, <2>2, Zenon
<1>. QED
  BY <1>3, <1>5, <1>6, <1>7, Zenon

\* The result of a key is the same in tables with more names, if no row of that
\* key was written.
LEMMA ResultKept ==
    ASSUME NEW c \in Tables, NEW d \in Tables, Sound(c), Sound(d),
           Extends(c.names, d.names), NEW k \in Keys,
           \A i \in 1 .. Len(d.names) : d.names[i] = k => d.rows[i] = c.rows[i]
    PROVE  ResultOf(d, k) = ResultOf(c, k)
<1>1. c.names \in KeyNames /\ d.names \in KeyNames
  BY TablesAre, Zenon
<1>2. CASE \A i \in 1 .. Len(d.names) : d.names[i] # k
  <2>1. \A i \in 1 .. Len(c.names) : c.names[i] # k
    BY <1>1, <1>2, ExtendsAt, Zenon
  <2>. QED
    <3>1. ResultOf(d, k) = NoResult
      BY <1>2, ResultAt, Zenon
    <3>2. ResultOf(c, k) = NoResult
      BY <2>1, ResultAt, Zenon
    <3>. QED
      BY <3>1, <3>2, Zenon
<1>3. ASSUME NEW i \in 1 .. Len(d.names), d.names[i] = k
      PROVE  ResultOf(d, k) = ResultOf(c, k)
  <2>0. i \in IDs /\ d.rows[i] = c.rows[i]
    BY <1>1, <1>3, NamesAre, Zenon
  <2>1. ResultOf(d, k) = IF c.rows[i] = NoRow THEN NoResult ELSE DecodedRow(d, i)
    <3>1. ResultOf(d, k) = IF d.rows[i] = NoRow THEN NoResult
                           ELSE DecodedRow(d, i)
      BY <1>3, ResultAt, Zenon
    <3>. QED
      BY <2>0, <3>1, Zenon
  <2>2. CASE i \in 1 .. Len(c.names)
    <3>1. c.names[i] = k
      BY <1>1, <1>3, <2>2, ExtendsAt, Zenon
    <3>2. ResultOf(c, k) = IF c.rows[i] = NoRow THEN NoResult
                           ELSE DecodedRow(c, i)
      BY <2>2, <3>1, ResultAt, Zenon
    <3>3. c.rows[i] # NoRow => DecodedRow(d, i) = DecodedRow(c, i)
      BY <2>0, RowKept, Zenon
    <3>. QED
      <4>1. CASE c.rows[i] = NoRow
        BY <2>1, <3>2, <4>1, Zenon
      <4>2. CASE c.rows[i] # NoRow
        BY <2>1, <3>2, <3>3, <4>2, Zenon
      <4>. QED
        BY <4>1, <4>2, Zenon
  <2>3. CASE i \notin 1 .. Len(c.names)
    <3>1. c.rows[i] = NoRow
      BY <2>0, <2>3, Zenon DEF Sound
    <3>2. \A j \in 1 .. Len(c.names) : c.names[j] # k
      <4>. SUFFICES ASSUME NEW j \in 1 .. Len(c.names), c.names[j] = k
                    PROVE  FALSE
        BY Zenon
      <4>1. j \in 1 .. Len(d.names) /\ d.names[j] = k
        BY <1>1, ExtendsAt, Zenon
      <4>. QED
        BY <1>1, <1>3, <2>3, <4>1, NamesAre, Zenon
    <3>. QED
      BY <2>1, <3>1, <3>2, ResultAt, Zenon
  <2>. QED
    BY <2>2, <2>3, Zenon
<1>. QED
  BY <1>2, <1>3, Zenon

-----------------------------------------------------------------------------
(***************************************************************************)
(* What is written.                                                        *)
(***************************************************************************)
TablesOf(schema, names, rows, iteration) ==
    [schema |-> schema, names |-> names, rows |-> rows,
     iteration |-> iteration]

Written(c, g, r, n) ==
    TablesOf(c.schema, g.names,
             [c.rows EXCEPT ![g.found[1]] = StoredRow(r, g.found)], n)

\* The IDs found for the keys a result names are the IDs of those keys.
FoundFor(g, ks) ==
    \A j \in 1 .. Len(ks) : /\ g.found[j] \in 1 .. Len(g.names)
                            /\ g.names[g.found[j]] = ks[j]

\* There is an ID for the key of a result and for each it depends on.
Sized(g, r) == Len(g.found) = Len(r.deps) + 1

Current(c) == c.schema = "current"

\* A row that is written is of the right type.
LEMMA WrittenTyped ==
    ASSUME NEW c \in Tables, NEW g \in Cursors(IDs), NEW r \in Results,
           Sized(g, r), NEW n \in 0 .. MaxIteration
    PROVE  /\ Written(c, g, r, n) \in Tables
           /\ g.found[1] \in IDs
           /\ Written(c, g, r, n).schema = c.schema
           /\ Written(c, g, r, n).names = g.names
           /\ Written(c, g, r, n).iteration = n
           /\ \A i \in IDs : Written(c, g, r, n).rows[i]
                                = IF i = g.found[1] THEN StoredRow(r, g.found)
                                  ELSE c.rows[i]
<1>. DEFINE id == g.found[1]
            row == StoredRow(r, g.found)
            rows == [c.rows EXCEPT ![id] = row]
            w == Written(c, g, r, n)
<1>1. g.found \in Seq(IDs) /\ g.names \in KeyNames
  BY CursorWith, Zenon
<1>2. id \in IDs
  <2>1. Len(r.deps) \in Nat
    BY ResultsAre, Zenon
  <2>. QED
    BY <1>1, <2>1 DEF Sized
<1>3. row \in Rows
  BY <1>1, StoredRowIs, Zenon DEF Sized
<1>4. c.rows \in [IDs -> Rows] /\ c.schema \in {"none", "current", "other"}
  BY TablesAre, Zenon
<1>. HIDE DEF row, id
<1>5. /\ rows \in [IDs -> Rows]
      /\ \A i \in IDs : rows[i] = IF i = id THEN row ELSE c.rows[i]
  BY <1>2, <1>3, <1>4, Zenon
<1>6. w = TablesOf(c.schema, g.names, rows, n)
  BY Zenon DEF Written, row, id
<1>. HIDE DEF rows, w
<1>7. w.schema = c.schema /\ w.names = g.names /\ w.rows = rows /\ w.iteration = n
  BY <1>6, Zenon DEF TablesOf
<1>8. w \in Tables
  BY <1>1, <1>4, <1>5, <1>6, Zenon DEF Tables, TablesOf
<1>. QED
  BY <1>2, <1>5, <1>7, <1>8, Zenon DEF w, row, id

\* The row of a result means the result.
LEMMA StoredMeans ==
    ASSUME NEW d \in Tables, NEW i \in IDs, NEW r \in Results, NEW k \in Keys,
           NEW found \in Seq(IDs), Len(found) = Len(r.deps) + 1,
           \A j \in 1 .. Len(r.deps) : /\ found[j + 1] \in 1 .. Len(d.names)
                                       /\ d.names[found[j + 1]] = r.deps[j].key,
           d.rows[i] = StoredRow(r, found)
    PROVE  /\ d.rows[i] # NoRow
           /\ \A j \in 1 .. Len(d.rows[i].deps) :
                 DecodedID(d.rows[i].deps[j]) \in 1 .. Len(d.names)
           /\ DecodedRow(d, i) = r
<1>. DEFINE row == StoredRow(r, found)
            N == Len(r.deps)
            f == [j \in 1 .. Len(row.deps) |-> d.names[DecodedID(row.deps[j])]]
            deps == [j \in 1 .. N |-> Decoded(f[j], row.deps[j])]
<1>1. /\ row # NoRow /\ row.val = r.val /\ Len(row.deps) = N
      /\ \A j \in 1 .. N : /\ found[j + 1] \in IDs
                           /\ row.deps[j] = Encode(found[j + 1], r.deps[j])
  BY StoredRowIs, Zenon
<1>2. /\ \A j \in 1 .. N : r.deps[j] \in Dependencies
      /\ r = [val |-> r.val, deps |-> r.deps]
      /\ r.deps = [j \in 1 .. N |-> r.deps[j]]
  BY ResultsAre, Zenon
<1>3. DecodedRow(d, i) = Decode(row, f)
  BY Zenon DEF DecodedRow
<1>. HIDE DEF row, N
<1>4. \A j \in 1 .. N : /\ DecodedID(row.deps[j]) = found[j + 1]
                        /\ Decoded(r.deps[j].key, row.deps[j]) = r.deps[j]
  <2>. SUFFICES ASSUME NEW j \in 1 .. N
                PROVE  /\ DecodedID(row.deps[j]) = found[j + 1]
                       /\ Decoded(r.deps[j].key, row.deps[j]) = r.deps[j]
    BY Zenon
  <2>1. r.deps[j] \in Dependencies /\ found[j + 1] \in IDs
    BY <1>1, <1>2, Zenon
  <2>2. /\ DecodedID(Encode(found[j + 1], r.deps[j])) = found[j + 1]
        /\ Decoded(r.deps[j].key, Encode(found[j + 1], r.deps[j])) = r.deps[j]
    BY <2>1, EncodeDecodes, Zenon
  <2>3. row.deps[j] = Encode(found[j + 1], r.deps[j])
    BY <1>1, Zenon
  <2>. QED
    BY <2>2, <2>3, Zenon
<1>5. \A j \in 1 .. N : f[j] = d.names[DecodedID(row.deps[j])]
  BY <1>1, Zenon
<1>. HIDE DEF f
<1>6. ASSUME NEW j \in 1 .. N
      PROVE  /\ DecodedID(row.deps[j]) \in 1 .. Len(d.names)
             /\ Decoded(f[j], row.deps[j]) = r.deps[j]
  <2>1. /\ found[j + 1] \in 1 .. Len(d.names)
        /\ d.names[found[j + 1]] = r.deps[j].key
    BY Zenon DEF N
  <2>2. f[j] = r.deps[j].key
    BY <1>4, <1>5, <2>1, Zenon
  <2>. QED
    BY <1>4, <2>1, <2>2, Zenon
<1>7. deps = r.deps
  BY <1>2, <1>6, Zenon
<1>8. Decode(row, f) = [val |-> r.val, deps |-> deps]
  BY <1>1, Zenon DEF Decode
<1>. QED
  BY <1>1, <1>2, <1>3, <1>6, <1>7, <1>8, Zenon DEF row

\* Some tables mean the same as others but for a result.
Replaces(d, c, k, r) ==
    \A j \in Keys : ResultOf(d, j) = IF j = k THEN r ELSE ResultOf(c, j)

\* setRuleResult replaces the result of its key and leaves the others.
LEMMA WrittenSound ==
    ASSUME NEW c \in Tables, Sound(c), Current(c),
           NEW g \in Cursors(IDs), NEW k \in Keys, NEW r \in Results,
           Sized(g, r), NEW n \in 0 .. MaxIteration,
           Agreeing(g), Extends(c.names, g.names), FoundFor(g, NamedKeys(k, r))
    PROVE  /\ Sound(Written(c, g, r, n))
           /\ Replaces(Written(c, g, r, n), c, k, r)
<1>. DEFINE id == g.found[1]
            row == StoredRow(r, g.found)
            w == Written(c, g, r, n)
<1>1. /\ w \in Tables /\ id \in IDs /\ w.schema = c.schema
      /\ w.names = g.names
      /\ \A i \in IDs : w.rows[i] = IF i = id THEN row ELSE c.rows[i]
  <2>1. w \in Tables /\ id \in IDs
    BY WrittenTyped, Zenon
  <2>2. /\ w.schema = c.schema /\ w.names = g.names
        /\ w.rows = [c.rows EXCEPT ![id] = row]
    BY Zenon DEF Written, TablesOf
  <2>3. c.rows \in [IDs -> Rows]
    BY TablesAre, Zenon
  <2>. HIDE DEF w, row, id
  <2>4. \A i \in IDs : w.rows[i] = IF i = id THEN row ELSE c.rows[i]
    BY <2>2, <2>3, Zenon
  <2>. QED
    BY <2>1, <2>2, <2>3, <2>4, Zenon
<1>2. /\ Len(NamedKeys(k, r)) = Len(r.deps) + 1 /\ NamedKeys(k, r)[1] = k
      /\ \A j \in 1 .. Len(r.deps) :
            /\ NamedKeys(k, r)[j + 1] = r.deps[j].key
            /\ j + 1 \in 1 .. Len(r.deps) + 1
  BY NamedKeysAre, ResultsAre, ZenonT(60)
<1>3. id \in 1 .. Len(w.names) /\ w.names[id] = k
  <2>1. Len(r.deps) \in Nat
    BY ResultsAre, Zenon
  <2>2. 1 \in 1 .. Len(r.deps) + 1
    BY <2>1
  <2>. QED
    BY <1>1, <1>2, <2>2, Zenon DEF FoundFor
<1>4. \A j \in 1 .. Len(r.deps) : /\ g.found[j + 1] \in 1 .. Len(w.names)
                                  /\ w.names[g.found[j + 1]] = r.deps[j].key
  BY <1>1, <1>2, ZenonT(60) DEF FoundFor
<1>5. w.names \in KeyNames /\ g.found \in Seq(IDs) /\ Extends(c.names, w.names)
  BY <1>1, CursorWith, TablesAre, Zenon
<1>. HIDE DEF w, row, id
<1>6. w.rows[id] = row
  BY <1>1, Zenon
<1>7. /\ w.rows[id] # NoRow
      /\ \A j \in 1 .. Len(w.rows[id].deps) :
            DecodedID(w.rows[id].deps[j]) \in 1 .. Len(w.names)
      /\ DecodedRow(w, id) = r
  <2>1. w.rows[id] = StoredRow(r, g.found)
    BY <1>6, Zenon DEF row
  <2>. QED
    BY <1>1, <1>4, <1>5, <2>1, StoredMeans, Zenon DEF Sized
<1>8. ASSUME NEW i \in IDs, w.rows[i] # NoRow
      PROVE  /\ i \in 1 .. Len(w.names)
             /\ \A j \in 1 .. Len(w.rows[i].deps) :
                   DecodedID(w.rows[i].deps[j]) \in 1 .. Len(w.names)
             /\ DecodedRow(w, i) \in Results
  <2>1. CASE i = id
    BY <1>3, <1>7, <2>1, Zenon
  <2>2. CASE i # id
    <3>1. w.rows[i] = c.rows[i]
      BY <1>1, <2>2, Zenon
    <3>2. c.rows[i] # NoRow
      BY <1>8, <3>1, Zenon
    <3>. QED
      BY <1>1, <1>5, <3>1, <3>2, RowKept, Zenon
  <2>. QED
    BY <2>1, <2>2, Zenon
<1>9. Sound(w)
  BY <1>1, <1>8, Zenon DEF Sound, Agreeing, Current
<1>10. ASSUME NEW j \in Keys
       PROVE  ResultOf(w, j) = IF j = k THEN r ELSE ResultOf(c, j)
  <2>1. CASE j = k
    <3>1. ResultOf(w, k) = IF w.rows[id] = NoRow THEN NoResult
                           ELSE DecodedRow(w, id)
      BY <1>1, <1>3, <1>9, ResultAt, Zenon
    <3>. QED
      BY <1>7, <2>1, <3>1, Zenon
  <2>2. CASE j # k
    <3>1. \A i \in 1 .. Len(w.names) : w.names[i] = j => w.rows[i] = c.rows[i]
      BY <1>1, <1>3, <1>5, <2>2, NamesAre, Zenon
    <3>2. ResultOf(w, j) = ResultOf(c, j)
      BY <1>1, <1>5, <1>9, <3>1, ResultKept, Zenon
    <3>. QED
      BY <2>2, <3>2, Zenon
  <2>. QED
    BY <2>1, <2>2, Zenon
<1>. QED
  BY <1>9, <1>10, Zenon DEF w, Replaces

Grown(c, names) == TablesOf(c.schema, names, c.rows, c.iteration)

\* Keys that are named and not used mean nothing.
LEMMA GrownSound ==
    ASSUME NEW c \in Tables, NEW names \in KeyNames
    PROVE  /\ Grown(c, names) \in Tables
           /\ Grown(c, names).schema = c.schema
           /\ Grown(c, names).names = names
           /\ Grown(c, names).iteration = c.iteration
           /\ Sound(c) /\ c.schema = "current" /\ Extends(c.names, names)
                 /\ Faithful(names) =>
                 /\ Sound(Grown(c, names))
                 /\ \A k \in Keys :
                       ResultOf(Grown(c, names), k) = ResultOf(c, k)
<1>. DEFINE w == Grown(c, names)
<1>1. w.schema = c.schema /\ w.names = names /\ w.rows = c.rows
         /\ w.iteration = c.iteration
  BY Zenon DEF Grown, TablesOf
<1>2. w \in Tables
  <2>1. /\ c.rows \in [IDs -> Rows] /\ c.schema \in {"none", "current", "other"}
        /\ c.iteration \in 0 .. MaxIteration
    BY TablesAre, Zenon
  <2>. QED
    BY <2>1, Zenon DEF Grown, TablesOf, Tables
<1>. HIDE DEF w
<1>3. ASSUME Sound(c), c.schema = "current", Extends(c.names, names),
             Faithful(names)
      PROVE  Sound(w) /\ \A k \in Keys : ResultOf(w, k) = ResultOf(c, k)
  <2>1. Extends(c.names, w.names) /\ \A i \in IDs : w.rows[i] = c.rows[i]
    BY <1>1, <1>3, Zenon
  <2>2. \A i \in IDs : w.rows[i] # NoRow =>
           /\ i \in 1 .. Len(w.names)
           /\ \A j \in 1 .. Len(w.rows[i].deps) :
                 DecodedID(w.rows[i].deps[j]) \in 1 .. Len(w.names)
           /\ DecodedRow(w, i) \in Results
    <3>. SUFFICES ASSUME NEW i \in IDs, w.rows[i] # NoRow
                  PROVE  /\ i \in 1 .. Len(w.names)
                         /\ \A j \in 1 .. Len(w.rows[i].deps) :
                               DecodedID(w.rows[i].deps[j]) \in 1 .. Len(w.names)
                         /\ DecodedRow(w, i) \in Results
      BY Zenon
    <3>1. w.rows[i] = c.rows[i] /\ c.rows[i] # NoRow
      BY <2>1, Zenon
    <3>. QED
      BY <1>2, <1>3, <2>1, <3>1, RowKept, Zenon
  <2>3. Sound(w)
    BY <1>1, <1>3, <2>2, Zenon DEF Sound
  <2>4. \A i \in 1 .. Len(w.names) : w.rows[i] = c.rows[i]
    BY <1>1, Zenon
  <2>. QED
    BY <1>2, <1>3, <2>1, <2>3, <2>4, ResultKept, Zenon
<1>. QED
  BY <1>1, <1>2, <1>3, Zenon DEF w
=============================================================================
