---------------------------- MODULE SQLiteProofs ----------------------------
(***************************************************************************)
(* What SQLiteBuildDB.tla promises, for every set of keys and of results   *)
(* and every column: the caches of key IDs agree with key_names, every ID  *)
(* that is stored has a name, and the database implements ResultStore.     *)
(***************************************************************************)
EXTENDS KeyIDProofs

-----------------------------------------------------------------------------
(***************************************************************************)
(* The inductive invariant.                                                *)
(***************************************************************************)
ConnectionInv ==
    /\ building => conn # "closed"
    /\ ~building => txn = NoFile
    /\ conn = "open" => /\ file.schema = "current"
                        /\ building => txn.schema = "current"

SoundInv ==
    /\ Sound(file) /\ Sound(txn)
    /\ Agrees(ConnView.names, dbKeyIDs, engineKeyIDs)
    /\ ConnectionInv

SInv == TypeOK /\ (~void => SoundInv)

-----------------------------------------------------------------------------
(***************************************************************************)
(* The invariant: opening and reading.                                     *)
(***************************************************************************)
Conns == {"closed", "open", "unprepared"}

\* The types of the variables, in the words of the lemmas above.
LEMMA TypesAre ==
    TypeOK <=>
        /\ recreateOnUnmatchedVersion \in BOOLEAN
        /\ file \in Tables /\ txn \in Tables
        /\ building \in BOOLEAN /\ void \in BOOLEAN
        /\ conn \in Conns
        /\ dbKeyIDs \in CachedIDs /\ engineKeyIDs \in CachedKeys
BY Zenon DEF TypeOK, Conns, CachedIDs, CachedKeys

\* What open() can leave: a file that was there or an empty one, and for a call
\* that goes on a connection.
LEMMA OpeningTyped ==
    ASSUME TypeOK, NEW o \in OpenOutcomes
    PROVE  /\ o.file \in Tables /\ o.conn \in Conns
           /\ o.ok => o.conn # "closed"
           /\ o.file \in {file, Fresh, NoFile}
           /\ o.file # file => file.schema # "current" /\ conn = "closed"
           /\ conn # "closed" => o.file = file /\ o.conn = conn /\ o.ok
           /\ conn = "closed" /\ o.conn = "open" => o.file.schema = "current"
<1>1. file \in Tables /\ conn \in Conns
  BY TypesAre, Zenon
<1>2. Fresh \in Tables /\ Fresh.schema = "current" /\ NoFile \in Tables
  BY ContentsSound, Zenon DEF Fresh, NoFile
<1>4. CASE conn # "closed"
  <2>1. o = Outcome(conn, file, TRUE)
    BY <1>4, Zenon DEF OpenOutcomes
  <2>2. o.conn = conn /\ o.file = file /\ o.ok = TRUE
    BY <2>1, Zenon DEF Outcome
  <2>. QED
    BY <1>1, <1>4, <2>1, <2>2, Zenon
<1>5. CASE conn = "closed"
  <2>1. \/ o = Outcome("unprepared", file, FALSE)
        \/ file.schema = "current" /\ o = Outcome("open", file, TRUE)
        \/ file.schema # "current" /\ o = Outcome("closed", file, FALSE)
        \/ file.schema # "current" /\ o = Outcome("open", Fresh, TRUE)
        \/ file.schema # "current" /\ o = Outcome("unprepared", Fresh, FALSE)
        \/ file.schema # "current" /\ o = Outcome("closed", NoFile, FALSE)
    BY <1>5, Zenon DEF OpenOutcomes
  <2>2. "open" # "closed" /\ "unprepared" # "open"
           /\ "open" \in Conns /\ "closed" \in Conns /\ "unprepared" \in Conns
    BY Zenon DEF Conns
  <2>3. CASE o = Outcome("unprepared", file, FALSE)
    <3>1. o.conn = "unprepared" /\ o.file = file /\ o.ok = FALSE
      BY <2>3, Zenon DEF Outcome
    <3>. QED
      BY <1>1, <1>5, <2>2, <2>3, <3>1, Zenon
  <2>4. CASE file.schema = "current" /\ o = Outcome("open", file, TRUE)
    <3>1. o.conn = "open" /\ o.file = file /\ o.ok = TRUE
      BY <2>4, Zenon DEF Outcome
    <3>. QED
      BY <1>1, <1>5, <2>2, <2>4, <3>1, Zenon
  <2>5. CASE file.schema # "current" /\ o = Outcome("closed", file, FALSE)
    <3>1. o.conn = "closed" /\ o.file = file /\ o.ok = FALSE
      BY <2>5, Zenon DEF Outcome
    <3>. QED
      BY <1>1, <1>5, <2>2, <2>5, <3>1, Zenon
  <2>6. CASE file.schema # "current" /\ o = Outcome("open", Fresh, TRUE)
    <3>1. o.conn = "open" /\ o.file = Fresh /\ o.ok = TRUE
      BY <2>6, Zenon DEF Outcome
    <3>. QED
      BY <1>1, <1>2, <1>5, <2>2, <2>6, <3>1, Zenon
  <2>7. CASE file.schema # "current" /\ o = Outcome("unprepared", Fresh, FALSE)
    <3>1. o.conn = "unprepared" /\ o.file = Fresh /\ o.ok = FALSE
      BY <2>7, Zenon DEF Outcome
    <3>. QED
      BY <1>1, <1>2, <1>5, <2>2, <2>7, <3>1, Zenon
  <2>8. CASE file.schema # "current" /\ o = Outcome("closed", NoFile, FALSE)
    <3>1. o.conn = "closed" /\ o.file = NoFile /\ o.ok = FALSE
      BY <2>8, Zenon DEF Outcome
    <3>. QED
      BY <1>1, <1>2, <1>5, <2>2, <2>8, <3>1, Zenon
  <2>. QED
    BY <2>1, <2>3, <2>4, <2>5, <2>6, <2>7, <2>8, Zenon
<1>. QED
  BY <1>4, <1>5, Zenon

Empty == [results |-> [k \in Keys |-> NoResult], iteration |-> 0]

\* Tables of no or another version mean nothing, and so do new ones.
LEMMA EmptyMeans ==
    ASSUME NEW schema \in {"none", "current", "other"}
    PROVE  Meaning(Contents(schema)) = Empty
<1>. DEFINE c == Contents(schema)
<1>1. \A k \in Keys : ResultOf(c, k) = NoResult
  <2>1. c \in Tables /\ Sound(c) /\ c.names = <<>>
    BY ContentsSound, Zenon
  <2>. HIDE DEF c
  <2>2. \A k \in Keys : \A i \in 1 .. Len(c.names) : c.names[i] # k
    BY <2>1
  <2>. QED
    BY <2>1, <2>2, ResultAt, Zenon
<1>2. (IF c.schema = "other" THEN 0 ELSE c.iteration) = 0
  BY ContentsSound, Zenon
<1>. HIDE DEF c
<1>3. [k \in Keys |-> ResultOf(c, k)] = [k \in Keys |-> NoResult]
  BY <1>1, Zenon
<1>. QED
  BY <1>2, <1>3, MeaningIs, Zenon DEF Empty, c

\* Opening keeps the names and the meaning of the file: only a file that means
\* nothing is replaced.
LEMMA OpeningSound ==
    ASSUME TypeOK, SoundInv, NEW o \in OpenOutcomes
    PROVE  /\ Sound(o.file) /\ o.file.names = file.names
           /\ Meaning(o.file) = Meaning(file)
           /\ o.conn = "open" => o.file.schema = "current"
           /\ building => o.file = file /\ o.conn = conn /\ o.ok
<1>1. /\ Sound(file) /\ (building => conn # "closed")
      /\ conn = "open" => file.schema = "current"
      /\ file \in Tables
  BY TypesAre, Zenon DEF SoundInv, ConnectionInv
<1>2. conn # "closed" => o.file = file /\ o.conn = conn /\ o.ok
  BY OpeningTyped, Zenon
<1>3. o.conn = "open" => o.file.schema = "current"
  BY <1>1, <1>2, OpeningTyped, Zenon
<1>4. CASE o.file = file
  BY <1>1, <1>2, <1>3, <1>4, Zenon
<1>5. CASE o.file # file
  <2>1. file.schema # "current" /\ conn = "closed" /\ o.file \in {Fresh, NoFile}
    BY <1>5, OpeningTyped, Zenon
  <2>2. file = Contents(file.schema) /\ file.schema \in {"none", "current", "other"}
    BY <1>1, <2>1, TablesAre, Zenon DEF Sound
  <2>3. file.names = <<>> /\ Meaning(file) = Empty
    <3>. DEFINE s == file.schema
    <3>. HIDE DEF s
    <3>1. Contents(s).names = <<>> /\ Meaning(Contents(s)) = Empty
      BY <2>2, ContentsSound, EmptyMeans, Zenon DEF s
    <3>. QED
      BY <2>2, <3>1, Zenon DEF s
  <2>4. Sound(o.file) /\ o.file.names = <<>> /\ Meaning(o.file) = Empty
    <3>1. /\ Sound(Fresh) /\ Fresh.names = <<>> /\ Meaning(Fresh) = Empty
          /\ Sound(NoFile) /\ NoFile.names = <<>> /\ Meaning(NoFile) = Empty
      BY ContentsSound, EmptyMeans, Zenon DEF Fresh, NoFile
    <3>. QED
      BY <2>1, <3>1, Zenon
  <2>. QED
    BY <1>1, <1>3, <2>1, <2>3, <2>4, Zenon
<1>. QED
  BY <1>4, <1>5, Zenon

\* What a call sees once the connection is open.
LEMMA ViewIs ==
    ASSUME TypeOK, SoundInv, NEW o \in OpenOutcomes
    PROVE  /\ View(o) \in Tables /\ Sound(View(o))
           /\ Agrees(View(o).names, dbKeyIDs, engineKeyIDs)
           /\ Agreeing(Cursor(View(o).names))
           /\ Meaning(View(o)) = Meaning(ConnView)
<1>1. /\ o.file \in Tables /\ txn \in Tables /\ Sound(o.file) /\ Sound(txn)
      /\ o.file.names = file.names /\ Meaning(o.file) = Meaning(file)
      /\ dbKeyIDs \in CachedIDs /\ engineKeyIDs \in CachedKeys
  BY OpeningTyped, OpeningSound, TypesAre, Zenon DEF SoundInv
<1>2. View(o) \in Tables /\ Sound(View(o))
  BY <1>1, Zenon DEF View
<1>3. View(o).names = ConnView.names /\ Meaning(View(o)) = Meaning(ConnView)
  BY <1>1, Zenon DEF View, ConnView
<1>4. Agrees(View(o).names, dbKeyIDs, engineKeyIDs)
  BY <1>3, Zenon DEF SoundInv
<1>5. View(o).names \in KeyNames
  BY <1>2, TablesAre, Zenon
<1>6. Agreeing(Cursor(View(o).names))
  <2>. DEFINE names == View(o).names
  <2>. HIDE DEF names
  <2>1. /\ Cursor(names).names = names /\ Cursor(names).db = dbKeyIDs
        /\ Cursor(names).engine = engineKeyIDs
    BY Zenon DEF Cursor
  <2>2. Faithful(names) /\ Agrees(names, dbKeyIDs, engineKeyIDs)
    BY <1>2, <1>4, Zenon DEF names, Sound
  <2>. QED
    BY <2>1, <2>2, Zenon DEF names, Agreeing
<1>. QED
  BY <1>2, <1>3, <1>4, <1>6, Zenon

\* A call that only reads keeps the invariant, if what it leaves in the caches
\* agrees with what it saw.
LEMMA ReadingKeeps ==
    ASSUME TypeOK, SoundInv, NEW o \in OpenOutcomes, Opened(o),
           UNCHANGED <<recreateOnUnmatchedVersion, txn, building>>,
           void' \in BOOLEAN, dbKeyIDs' \in CachedIDs,
           engineKeyIDs' \in CachedKeys,
           ~void' => Agrees(View(o).names, dbKeyIDs', engineKeyIDs')
    PROVE  SInv'
<1>1. /\ recreateOnUnmatchedVersion \in BOOLEAN /\ txn \in Tables
      /\ building \in BOOLEAN
  BY TypesAre, Zenon
<1>2. /\ conn' = o.conn /\ file' = o.file /\ txn' = txn /\ building' = building
      /\ recreateOnUnmatchedVersion' = recreateOnUnmatchedVersion
  BY Zenon DEF Opened
<1>3. file' \in Tables /\ conn' \in Conns
  BY <1>2, OpeningTyped, Zenon
<1>4. TypeOK'
  <2>1. /\ recreateOnUnmatchedVersion' \in BOOLEAN
        /\ file' \in Tables /\ txn' \in Tables
        /\ building' \in BOOLEAN /\ void' \in BOOLEAN /\ conn' \in Conns
        /\ dbKeyIDs' \in CachedIDs /\ engineKeyIDs' \in CachedKeys
    BY <1>1, <1>2, <1>3, Zenon
  <2>. QED
    BY <2>1, Zenon DEF TypeOK, Conns, CachedIDs, CachedKeys
<1>5. ConnView' = View(o)
  <2>1. CASE building
    <3>1. building'
      BY <1>2, <2>1, Zenon
    <3>. QED
      BY <1>2, <2>1, <3>1, Zenon DEF ConnView, View
  <2>2. CASE ~building
    <3>1. ~building'
      BY <1>2, <2>2
    <3>. QED
      BY <1>2, <2>2, <3>1, Zenon DEF ConnView, View
  <2>. QED
    BY <2>1, <2>2, Zenon
<1>6. Sound(file') /\ Sound(txn')
  BY <1>2, OpeningSound, Zenon DEF SoundInv
<1>7. ConnectionInv'
  <2>1. building => o.conn = conn /\ o.file = file
    BY OpeningSound, Zenon
  <2>2. o.conn = "open" => o.file.schema = "current"
    BY OpeningSound, Zenon
  <2>3. /\ building => conn # "closed"
        /\ ~building => txn = NoFile
        /\ conn = "open" => (building => txn.schema = "current")
    BY Zenon DEF SoundInv, ConnectionInv
  <2>4. /\ building' => conn' # "closed"
        /\ ~building' => txn' = NoFile
    BY <1>2, <2>1, <2>3
  <2>5. conn' = "open" => /\ file'.schema = "current"
                          /\ building' => txn'.schema = "current"
    BY <1>2, <2>1, <2>2, <2>3
  <2>6. NoFile' = NoFile
    BY Zenon DEF NoFile, Contents, NoRow
  <2>. QED
    BY <2>4, <2>5, <2>6, Zenon DEF ConnectionInv
<1>8. ~void' => SoundInv'
  <2>. SUFFICES ASSUME ~void' PROVE SoundInv'
    BY Zenon
  <2>1. Sound(file)' /\ Sound(txn)'
    BY <1>6, Zenon DEF Sound, Contents, NoRow, DecodedRow, Faithful, Unfaithful
  <2>2. Agrees(ConnView.names, dbKeyIDs, engineKeyIDs)'
    BY <1>5, Zenon DEF Agrees
  <2>. QED
    BY <1>7, <2>1, <2>2, Zenon DEF SoundInv
<1>. QED
  BY <1>4, <1>8, Zenon DEF SInv

\* Calls that leave the caches alone.
LEMMA PlainReadsKeep ==
    ASSUME SInv, ~void, UNCHANGED recreateOnUnmatchedVersion,
           OpenFails \/ GetKeys \/ GetCurrentEpoch
    PROVE  SInv'
<1>1. TypeOK /\ SoundInv /\ void = FALSE
  BY TypesAre, Zenon DEF SInv
<1>2. PICK o \in OpenOutcomes :
         /\ Opened(o) /\ UNCHANGED <<txn, building, caches>>
         /\ void' = void \/ void' = (void \/ View(o).schema = "other")
  BY Zenon DEF OpenFails, GetKeys, GetCurrentEpoch
<1>3. void' \in BOOLEAN
  BY <1>1, <1>2, Zenon
<1>4. dbKeyIDs' = dbKeyIDs /\ engineKeyIDs' = engineKeyIDs
  BY <1>2, Zenon DEF caches
<1>5. dbKeyIDs' \in CachedIDs /\ engineKeyIDs' \in CachedKeys
  BY <1>1, <1>4, TypesAre, Zenon
<1>6. Agrees(View(o).names, dbKeyIDs', engineKeyIDs')
  BY <1>1, <1>4, ViewIs, Zenon
<1>. QED
  BY <1>1, <1>2, <1>3, <1>5, <1>6, ReadingKeeps, Zenon

\* The caches of a cursor, of its types and in agreement, as those of the object.
LEMMA CachedKeeps ==
    ASSUME TypeOK, SoundInv, NEW o \in OpenOutcomes, Opened(o),
           UNCHANGED <<recreateOnUnmatchedVersion, txn, building>>,
           void' \in BOOLEAN, NEW S, NEW c \in Cursors(S), Cache(c),
           ~void' => Agreeing(c) /\ c.names = View(o).names
    PROVE  SInv'
<1>1. /\ dbKeyIDs' = c.db /\ engineKeyIDs' = c.engine
      /\ c.db \in CachedIDs /\ c.engine \in CachedKeys
  BY CursorWith, Zenon DEF Cache
<1>2. dbKeyIDs' \in CachedIDs /\ engineKeyIDs' \in CachedKeys
  BY <1>1, Zenon
<1>3. ~void' => Agrees(View(o).names, dbKeyIDs', engineKeyIDs')
  BY <1>1, Zenon DEF Agreeing
<1>. QED
  BY <1>2, <1>3, ReadingKeeps, Zenon

\* And calls that keep what is in the caches.
LEMMA UncachedKeeps ==
    ASSUME TypeOK, SoundInv, NEW o \in OpenOutcomes, Opened(o),
           UNCHANGED <<recreateOnUnmatchedVersion, txn, building>>,
           void' \in BOOLEAN, UNCHANGED caches
    PROVE  SInv'
<1>1. dbKeyIDs' = dbKeyIDs /\ engineKeyIDs' = engineKeyIDs
  BY Zenon DEF caches
<1>2. dbKeyIDs' \in CachedIDs /\ engineKeyIDs' \in CachedKeys
  BY <1>1, TypesAre, Zenon
<1>3. Agrees(View(o).names, dbKeyIDs', engineKeyIDs')
  BY <1>1, ViewIs, Zenon
<1>. QED
  BY <1>2, <1>3, ReadingKeeps, Zenon

\* The values lookupRuleResult works with.
LookupID(o, k) ==
    IF dbKeyIDs[k] # 0 THEN dbKeyIDs[k] ELSE NamedID(View(o).names, k)
LookupRow(o, k) == View(o).rows[LookupID(o, k)]
LookupStart(o, k) ==
    IF dbKeyIDs[k] # 0 \/ LookupRow(o, k) = NoRow THEN Cursor(View(o).names)
    ELSE [Learn(Cursor(View(o).names), k, LookupID(o, k)) EXCEPT !.found = <<>>]
LookupAt(o, k, n) == Resolved(LookupStart(o, k), LookupRow(o, k).deps, n)

\* They are of the right types, and key_names is only read.
LEMMA LookupTyped ==
    ASSUME TypeOK, NEW o \in OpenOutcomes, NEW k \in Keys
    PROVE  /\ View(o) \in Tables /\ View(o).names \in KeyNames
           /\ LookupID(o, k) \in IDs /\ LookupRow(o, k).deps \in Blobs
           /\ LookupStart(o, k) \in Cursors(KeysFound)
           /\ LookupStart(o, k).names = View(o).names
           /\ LookupStart(o, k).found = <<>>
           /\ \A n \in 0 .. Len(LookupRow(o, k).deps) :
                 /\ LookupAt(o, k, n) \in Cursors(KeysFound)
                 /\ LookupAt(o, k, n).names = View(o).names
<1>. DEFINE names == View(o).names
            id == LookupID(o, k)
            row == LookupRow(o, k)
            start == LookupStart(o, k)
<1>1. /\ o.file \in Tables /\ txn \in Tables
      /\ dbKeyIDs \in CachedIDs /\ engineKeyIDs \in CachedKeys
  BY OpeningTyped, TypesAre, Zenon
<1>2. View(o) \in Tables
  BY <1>1, Zenon DEF View
<1>3. names \in KeyNames
  BY <1>2, TablesAre, Zenon
<1>4. dbKeyIDs[k] \in IDs /\ NamedID(names, k) \in IDs
  BY <1>1, <1>3, NamedIDIs, Zenon DEF CachedIDs
<1>5. id \in IDs
  BY <1>4, Zenon DEF LookupID
<1>6. row.deps \in Blobs
  BY <1>2, <1>5, TablesAre, Zenon DEF LookupRow
<1>7. Cursor(names) \in Cursors(KeysFound) /\ Cursor(names).names = names
         /\ Cursor(names).found = <<>>
  BY <1>1, <1>3, CursorStarts, Zenon
<1>. DEFINE x == [Learn(Cursor(names), k, id) EXCEPT !.found = <<>>]
<1>8. /\ x \in Cursors(KeysFound) /\ x.names = Cursor(names).names
      /\ x.found = <<>>
  BY <1>5, <1>7, NamedStart, Zenon
<1>9. start = Cursor(names) \/ start = x
  BY Zenon DEF LookupStart
<1>. HIDE DEF names, id, row, start, x
<1>10. start \in Cursors(KeysFound) /\ start.names = names /\ start.found = <<>>
  <2>1. CASE start = x
    BY <1>7, <1>8, <2>1, Zenon
  <2>2. CASE start = Cursor(names)
    BY <1>7, <2>2, Zenon
  <2>. QED
    BY <1>9, <2>1, <2>2, Zenon
<1>11. ASSUME NEW n \in 0 .. Len(row.deps)
       PROVE  /\ Resolved(start, row.deps, n) \in Cursors(KeysFound)
              /\ Resolved(start, row.deps, n).names = names
  <2>1. /\ Resolved(start, row.deps, n) \in Cursors(KeysFound)
        /\ Resolved(start, row.deps, n).names = start.names
    BY <1>6, <1>10, ResolvedTyped, Zenon
  <2>. QED
    BY <1>10, <2>1, Zenon
<1>. QED
  BY <1>2, <1>3, <1>5, <1>6, <1>10, <1>11, Zenon
     DEF LookupAt, names, id, row, start

\* For a key that the column keeps, the caches agree throughout, the row is the
\* one of the key and its dependencies are found under their names.
LEMMA LookupSound ==
    ASSUME TypeOK, SoundInv, NEW o \in OpenOutcomes, NEW k \in Keys,
           ~Unfaithful(k)
    PROVE  /\ Agreeing(LookupStart(o, k))
           /\ \A n \in 0 .. Len(LookupRow(o, k).deps) :
                 Agreeing(LookupAt(o, k, n))
           /\ LookupRow(o, k) = NoRow => ResultOf(View(o), k) = NoResult
           /\ LookupRow(o, k) # NoRow =>
                 ResultOf(View(o), k) =
                    Decode(LookupRow(o, k),
                           LookupAt(o, k, Len(LookupRow(o, k).deps)).found)
<1>. DEFINE names == View(o).names
            id == LookupID(o, k)
            row == LookupRow(o, k)
            start == LookupStart(o, k)
            N == Len(row.deps)
            all == LookupAt(o, k, N)
<1>1. /\ View(o) \in Tables /\ Sound(View(o)) /\ Agreeing(Cursor(names))
      /\ Agrees(names, dbKeyIDs, engineKeyIDs)
  BY ViewIs, Zenon
<1>2. /\ names \in KeyNames /\ id \in IDs /\ row.deps \in Blobs
      /\ start \in Cursors(KeysFound) /\ start.found = <<>>
      /\ start.names = names
  BY LookupTyped, Zenon
<1>3. k # NoKey /\ Column[k] = k
  BY SQLiteAssumption, Zenon DEF Unfaithful
<1>4. id # 0 => id \in 1 .. Len(names) /\ names[id] = k
  <2>1. CASE dbKeyIDs[k] # 0
    <3>1. id = dbKeyIDs[k] /\ engineKeyIDs[id] = k
      BY <1>1, <2>1, Zenon DEF LookupID, Agrees
    <3>. HIDE DEF id, names
    <3>. QED
      BY <1>1, <1>2, <1>3, <3>1, Zenon DEF Agrees
  <2>2. CASE dbKeyIDs[k] = 0
    <3>1. id = NamedID(names, k)
      BY <2>2, Zenon DEF LookupID
    <3>. HIDE DEF id, names
    <3>2. NamedID(names, k) # 0 => /\ NamedID(names, k) \in 1 .. Len(names)
                                   /\ names[NamedID(names, k)] = Column[k]
      BY <1>2, NamedIDIs, Zenon
    <3>. QED
      BY <1>3, <3>1, <3>2, Zenon
  <2>. QED
    BY <2>1, <2>2, Zenon
<1>5. row = View(o).rows[id] /\ (id = 0 => dbKeyIDs[k] = 0)
  BY Zenon DEF LookupRow, LookupID
<1>6. View(o).rows[0] = NoRow
  BY <1>1, ResultAt, Zenon
<1>7. row # NoRow => id # 0
  BY <1>5, <1>6, Zenon
<1>8. Agreeing(start)
  <2>. DEFINE c == Cursor(names)
              x == [Learn(c, k, id) EXCEPT !.found = <<>>]
  <2>1. start = IF dbKeyIDs[k] # 0 \/ row = NoRow THEN c ELSE x
    BY Zenon DEF LookupStart
  <2>2. c \in Cursors(KeysFound) /\ c.names = names
    BY <1>2, CursorStarts, TypesAre, Zenon
  <2>3. Agreeing(c)
    BY <1>1, Zenon
  <2>. HIDE DEF c, id, names, row, start
  <2>4. row # NoRow => Agreeing(x)
    BY <1>2, <1>4, <1>7, <2>2, <2>3, NamedStart, Zenon
  <2>. HIDE DEF x
  <2>. QED
    BY <2>1, <2>3, <2>4, Zenon
<1>9. \A n \in 0 .. N : Agreeing(LookupAt(o, k, n))
  BY <1>2, <1>8, ResolvedAgrees, Zenon DEF LookupAt
<1>10. ASSUME row = NoRow PROVE ResultOf(View(o), k) = NoResult
  <2>1. CASE \A i \in 1 .. Len(names) : names[i] # k
    BY <1>1, <2>1, ResultAt, Zenon
  <2>2. ASSUME NEW i \in 1 .. Len(names), names[i] = k
        PROVE  ResultOf(View(o), k) = NoResult
    <3>1. /\ NamedID(names, k) = i
          /\ ResultOf(View(o), k) = IF View(o).rows[i] = NoRow THEN NoResult
                                    ELSE DecodedRow(View(o), i)
      BY <1>1, <2>2, ResultAt, Zenon
    <3>2. i # 0
      BY <1>2, NamesAre, Zenon
    <3>3. id # 0
      BY <3>1, <3>2, Zenon DEF LookupID
    <3>4. id = i
      BY <1>2, <1>4, <2>2, <3>3, NamesAre, Zenon
    <3>. QED
      BY <1>5, <1>10, <3>1, <3>4, Zenon
  <2>. QED
    BY <2>1, <2>2, Zenon
<1>11. ASSUME row # NoRow PROVE ResultOf(View(o), k) = Decode(row, all.found)
  <2>1. id \in 1 .. Len(names) /\ names[id] = k
    BY <1>4, <1>7, <1>11, Zenon
  <2>2. ResultOf(View(o), k) = IF View(o).rows[id] = NoRow THEN NoResult
                               ELSE DecodedRow(View(o), id)
    BY <1>1, <2>1, ResultAt, Zenon
  <2>3. ResultOf(View(o), k) = DecodedRow(View(o), id)
    BY <1>5, <1>11, <2>2, Zenon
  <2>4. \A j \in 1 .. N : DecodedID(row.deps[j]) \in 1 .. Len(names)
    BY <1>1, <1>2, <1>5, <1>11, Zenon DEF Sound
  <2>5. N \in 0 .. N
    BY <1>2, BlobsAre
  <2>6. \A j \in 1 .. N : all.found[j] = names[DecodedID(row.deps[j])]
    <3>. DEFINE R == Resolved(start, row.deps, N)
    <3>1. all = R
      BY Zenon DEF LookupAt
    <3>. HIDE DEF all, start, row, names, N
    <3>2. \A j \in 1 .. N : DecodedID(row.deps[j]) \in 1 .. Len(start.names) =>
             R.found[j] = start.names[DecodedID(row.deps[j])]
      BY <1>2, <1>8, <2>5, ResolvedAgrees, Zenon DEF N
    <3>. HIDE DEF R
    <3>. QED
      BY <1>2, <2>4, <3>1, <3>2, Zenon
  <2>7. DecodedRow(View(o), id)
           = Decode(row, [j \in 1 .. N |-> names[DecodedID(row.deps[j])]])
    BY <1>5, Zenon DEF DecodedRow
  <2>. HIDE DEF all, row, names, N
  <2>8. Decode(row, [j \in 1 .. N |-> names[DecodedID(row.deps[j])]])
           = Decode(row, all.found)
    <3>. DEFINE f == [j \in 1 .. N |-> names[DecodedID(row.deps[j])]]
    <3>1. \A j \in 1 .. Len(row.deps) : f[j] = all.found[j]
      BY <2>6, Zenon DEF N
    <3>. HIDE DEF f
    <3>2. Decode(row, f) = Decode(row, all.found)
      BY <3>1, DecodeSame, Zenon
    <3>. QED
      BY <3>2, Zenon DEF f
  <2>. QED
    BY <2>3, <2>7, <2>8, Zenon
<1>. QED
  BY <1>8, <1>9, <1>10, <1>11, Zenon

\* A lookup, in these words.
LEMMA LookupSteps ==
    ASSUME NEW k \in Keys, LookupRuleResult(k)
    PROVE  \E o \in OpenOutcomes :
              /\ Opened(o) /\ UNCHANGED <<txn, building>>
              /\ void' = (void \/ Unfaithful(k))
              /\ \/ /\ LookupRow(o, k) = NoRow
                    /\ answer' = Found(k, NoResult)
                    /\ Cache(LookupStart(o, k))
                 \/ /\ LookupRow(o, k) # NoRow
                    /\ answer' = Found(k, Decode(LookupRow(o, k),
                                    LookupAt(o, k, Len(LookupRow(o, k).deps))
                                       .found))
                    /\ Cache(LookupAt(o, k, Len(LookupRow(o, k).deps)))
                 \/ /\ answer' = Failed
                    /\ \E n \in 0 .. Len(LookupRow(o, k).deps) - 1 :
                          Cache(LookupAt(o, k, n))
                 \/ answer' = Failed /\ UNCHANGED caches
BY ZenonT(60) DEF LookupRuleResult, LookupAt, LookupStart, LookupRow, LookupID

\* lookupRuleResult keeps the invariant: what it caches is in key_names.
LEMMA LookupKeeps ==
    ASSUME SInv, ~void, UNCHANGED recreateOnUnmatchedVersion,
           NEW k \in Keys, LookupRuleResult(k)
    PROVE  SInv'
<1>1. TypeOK /\ SoundInv /\ void = FALSE
  BY TypesAre, Zenon DEF SInv
<1>2. PICK o \in OpenOutcomes :
              /\ Opened(o) /\ UNCHANGED <<txn, building>>
              /\ void' = (void \/ Unfaithful(k))
              /\ \/ Cache(LookupStart(o, k))
                 \/ Cache(LookupAt(o, k, Len(LookupRow(o, k).deps)))
                 \/ \E n \in 0 .. Len(LookupRow(o, k).deps) - 1 :
                          Cache(LookupAt(o, k, n))
                 \/ UNCHANGED caches
  BY LookupSteps, Zenon
<1>3. void' \in BOOLEAN /\ (~void' => ~Unfaithful(k))
  BY <1>1, <1>2, Zenon DEF Unfaithful
<1>4. UNCHANGED <<recreateOnUnmatchedVersion, txn, building>>
  BY <1>2, Zenon
<1>5. ASSUME Cache(LookupStart(o, k)) PROVE SInv'
  <2>1. /\ LookupStart(o, k) \in Cursors(KeysFound)
        /\ LookupStart(o, k).names = View(o).names
    BY <1>1, LookupTyped, Zenon
  <2>2. ~void' => Agreeing(LookupStart(o, k))
    BY <1>1, <1>3, LookupSound, Zenon
  <2>. QED
    BY <1>1, <1>2, <1>3, <1>4, <1>5, <2>1, <2>2, CachedKeeps, Zenon
<1>6. ASSUME NEW n \in 0 .. Len(LookupRow(o, k).deps), Cache(LookupAt(o, k, n))
      PROVE  SInv'
  <2>1. /\ LookupAt(o, k, n) \in Cursors(KeysFound)
        /\ LookupAt(o, k, n).names = View(o).names
    BY <1>1, <1>6, LookupTyped, Zenon
  <2>2. ~void' => Agreeing(LookupAt(o, k, n))
    BY <1>1, <1>3, <1>6, LookupSound, Zenon
  <2>. QED
    BY <1>1, <1>2, <1>3, <1>4, <1>6, <2>1, <2>2, CachedKeeps, Zenon
<1>7. ASSUME UNCHANGED caches PROVE SInv'
  BY <1>1, <1>2, <1>3, <1>4, <1>7, UncachedKeeps, Zenon
<1>8. LookupRow(o, k).deps \in Blobs
  BY <1>1, LookupTyped, Zenon
<1>9. /\ Len(LookupRow(o, k).deps) \in 0 .. Len(LookupRow(o, k).deps)
      /\ \A n \in 0 .. Len(LookupRow(o, k).deps) - 1 :
            n \in 0 .. Len(LookupRow(o, k).deps)
  BY <1>8, BlobsAre
<1>. QED
  BY <1>2, <1>5, <1>6, <1>7, <1>9, Zenon

\* getKeysWithResult keeps it too, wherever the list ends.
LEMMA ListKeeps ==
    ASSUME SInv, ~void, UNCHANGED recreateOnUnmatchedVersion, GetKeysWithResult
    PROVE  SInv'
<1>1. TypeOK /\ SoundInv /\ void = FALSE
  BY TypesAre, Zenon DEF SInv
<1>2. PICK o \in OpenOutcomes :
         /\ Opened(o) /\ UNCHANGED <<txn, building, void>>
         /\ \/ \E n \in 0 .. Len(View(o).names) : Cache(Listing(View(o), n))
            \/ \E i \in 1 .. Len(View(o).names) :
                  \E n \in 0 .. Len(View(o).rows[i].deps) - 1 :
                     Cache(Resolved(NameRow(Listing(View(o), i - 1), View(o), i),
                                    View(o).rows[i].deps, n))
            \/ UNCHANGED caches
  BY Zenon DEF GetKeysWithResult
<1>. DEFINE v == View(o)
<1>3. v \in Tables /\ Agreeing(Cursor(v.names))
  BY <1>1, ViewIs, Zenon
<1>4. v.names \in KeyNames /\ \A i \in IDs : v.rows[i].deps \in Blobs
  BY <1>3, TablesAre, Zenon
<1>5. void' = void /\ UNCHANGED <<recreateOnUnmatchedVersion, txn, building>>
  BY <1>2, Zenon
<1>6. void' \in BOOLEAN
  BY <1>1, <1>5, Zenon
<1>. HIDE DEF v
<1>7. ASSUME NEW n \in 0 .. Len(v.names)
      PROVE  /\ Listing(v, n) \in Cursors(KeysFound)
             /\ Listing(v, n).names = v.names /\ Agreeing(Listing(v, n))
  BY <1>1, <1>3, TypesAre, ListingIs, Zenon
<1>8. ASSUME NEW n \in 0 .. Len(v.names), Cache(Listing(v, n)) PROVE SInv'
  <2>. HIDE DEF v
  <2>1. ~void' => Agreeing(Listing(v, n)) /\ Listing(v, n).names = View(o).names
    BY <1>7, Zenon DEF v
  <2>. QED
    BY <1>1, <1>2, <1>5, <1>6, <1>7, <1>8, <2>1, CachedKeeps, Zenon
<1>9. ASSUME NEW i \in 1 .. Len(v.names),
             NEW n \in 0 .. Len(v.rows[i].deps) - 1,
             Cache(Resolved(NameRow(Listing(v, i - 1), v, i), v.rows[i].deps, n))
      PROVE  SInv'
  <2>. DEFINE b == NameRow(Listing(v, i - 1), v, i)
              c == Resolved(b, v.rows[i].deps, n)
  <2>1. i \in IDs /\ i - 1 \in 0 .. Len(v.names)
    BY <1>4, NamesAre DEF IDs
  <2>2. v.rows[i].deps \in Blobs
    BY <1>4, <2>1, Zenon
  <2>3. n \in 0 .. Len(v.rows[i].deps)
    BY <2>2, BlobsAre
  <2>4. /\ b \in Cursors(KeysFound) /\ b.names = v.names /\ b.found = <<>>
        /\ Agreeing(b)
    BY <1>3, <1>7, <2>1, ListRowIs, Zenon
  <2>. HIDE DEF b
  <2>5. c \in Cursors(KeysFound) /\ c.names = b.names /\ Agreeing(c)
    BY <2>2, <2>3, <2>4, ResolvedTyped, ResolvedAgrees, Zenon
  <2>6. Cache(c)
    BY <1>9, Zenon DEF b
  <2>. HIDE DEF c
  <2>7. ~void' => Agreeing(c) /\ c.names = View(o).names
    BY <2>4, <2>5, Zenon DEF v
  <2>. QED
    BY <1>1, <1>2, <1>5, <1>6, <2>5, <2>6, <2>7, CachedKeeps, Zenon
<1>10. ASSUME UNCHANGED caches PROVE SInv'
  BY <1>1, <1>2, <1>5, <1>6, <1>10, UncachedKeeps, Zenon
<1>. QED
  BY <1>2, <1>8, <1>9, <1>10, Zenon DEF v

-----------------------------------------------------------------------------
(***************************************************************************)
(* Calls that write, and other processes.                                  *)
(***************************************************************************)
\* The invariant after a step of any call, from what the step makes of each
\* variable.
LEMMA InvFrom ==
    ASSUME recreateOnUnmatchedVersion' \in BOOLEAN,
           file' \in Tables, txn' \in Tables,
           building' \in BOOLEAN, void' \in BOOLEAN, conn' \in Conns,
           dbKeyIDs' \in CachedIDs, engineKeyIDs' \in CachedKeys,
           ~void' =>
              /\ Sound(file') /\ Sound(txn')
              /\ building' => Agrees(txn'.names, dbKeyIDs', engineKeyIDs')
              /\ ~building' => Agrees(file'.names, dbKeyIDs', engineKeyIDs')
              /\ building' => conn' # "closed"
              /\ ~building' => txn' = NoFile
              /\ conn' = "open" => file'.schema = "current"
              /\ conn' = "open" /\ building' => txn'.schema = "current"
    PROVE  SInv'
<1>1. TypeOK'
  BY Zenon DEF TypeOK, Conns, CachedIDs, CachedKeys
<1>2. ASSUME ~void' PROVE SoundInv'
  <2>1. Sound(file)' /\ Sound(txn)'
    BY <1>2, Zenon DEF Sound, Contents, NoRow, DecodedRow, Faithful, Unfaithful
  <2>2. Agrees(ConnView.names, dbKeyIDs, engineKeyIDs)'
    <3>1. CASE building'
      BY <1>2, <3>1, Zenon DEF Agrees, ConnView
    <3>2. CASE ~building'
      BY <1>2, <3>2, Zenon DEF Agrees, ConnView
    <3>. QED
      BY <3>1, <3>2, Zenon
  <2>3. NoFile' = NoFile
    BY Zenon DEF NoFile, Contents, NoRow
  <2>4. ConnectionInv'
    BY <1>2, <2>3, Zenon DEF ConnectionInv
  <2>. QED
    BY <2>1, <2>2, <2>4, Zenon DEF SoundInv
<1>. QED
  BY <1>1, <1>2, Zenon DEF SInv

\* Empty caches agree with any names.
LEMMA NothingCached ==
    /\ NoIDs \in CachedIDs /\ NoKeys \in CachedKeys
    /\ \A names : Agrees(names, NoIDs, NoKeys)
<1>1. NoIDs \in CachedIDs /\ NoKeys \in CachedKeys
  <2>1. 0 \in IDs
    BY IDsAre, Zenon
  <2>. QED
    BY <2>1, Zenon DEF NoIDs, NoKeys, CachedIDs, CachedKeys
<1>2. /\ \A k \in Keys : NoIDs[k] = 0
      /\ \A i \in IDs : NoKeys[i] = NoKey
  BY Zenon DEF NoIDs, NoKeys
<1>. QED
  BY <1>1, <1>2, Zenon DEF Agrees

\* A file of nothing is sound.
LEMMA NoFileSound == NoFile \in Tables /\ Sound(NoFile) /\ NoFile.names = <<>>
BY ContentsSound, Zenon DEF NoFile

\* The invariant holds of a database whose file does not exist.
LEMMA Initially ==
    ASSUME Init
    PROVE  SInv
<1>1. /\ file = NoFile /\ txn = NoFile /\ building = FALSE /\ void = FALSE
      /\ conn = "closed" /\ dbKeyIDs = NoIDs /\ engineKeyIDs = NoKeys
      /\ recreateOnUnmatchedVersion \in BOOLEAN
  BY Zenon DEF Init
<1>2. TypeOK
  <2>1. conn \in Conns /\ building \in BOOLEAN /\ void \in BOOLEAN
    BY <1>1, Zenon DEF Conns
  <2>. QED
    BY <1>1, <2>1, NoFileSound, NothingCached, TypesAre, Zenon
<1>3. ConnectionInv
  BY <1>1, Zenon DEF ConnectionInv
<1>4. SoundInv
  BY <1>1, <1>3, NoFileSound, NothingCached, Zenon DEF SoundInv
<1>. QED
  BY <1>2, <1>4, Zenon DEF SInv

\* The end of the process empties the caches with the transaction.
LEMMA EndKeeps ==
    ASSUME SInv, ~void, UNCHANGED recreateOnUnmatchedVersion, ProcessEnds
    PROVE  SInv'
<1>1. TypeOK /\ SoundInv
  BY Zenon DEF SInv
<1>2. /\ txn' = NoFile /\ building' = FALSE /\ conn' = "closed"
      /\ dbKeyIDs' = NoIDs /\ engineKeyIDs' = NoKeys
      /\ file' = file /\ void' = void
      /\ recreateOnUnmatchedVersion' = recreateOnUnmatchedVersion
  BY Zenon DEF ProcessEnds
<1>3. /\ recreateOnUnmatchedVersion' \in BOOLEAN /\ file' \in Tables
      /\ void' \in BOOLEAN /\ txn' \in Tables
      /\ dbKeyIDs' \in CachedIDs /\ engineKeyIDs' \in CachedKeys
  BY <1>1, <1>2, TypesAre, NoFileSound, NothingCached, Zenon
<1>4. building' \in BOOLEAN /\ conn' \in Conns /\ conn' # "open" /\ ~building'
  BY <1>2, Zenon DEF Conns
<1>5. Sound(file') /\ Sound(txn')
  BY <1>1, <1>2, NoFileSound, Zenon DEF SoundInv
<1>6. Agrees(file'.names, dbKeyIDs', engineKeyIDs')
  BY <1>2, NothingCached, Zenon
<1>. QED
  BY <1>2, <1>3, <1>4, <1>5, <1>6, InvFrom, Zenon

\* buildStarted: the transaction starts from what the file holds.
LEMMA StartKeeps ==
    ASSUME SInv, ~void, UNCHANGED recreateOnUnmatchedVersion, BuildStarted
    PROVE  SInv'
<1>1. TypeOK /\ SoundInv /\ void = FALSE
  BY TypesAre, Zenon DEF SInv
<1>2. PICK o \in OpenOutcomes :
         /\ ~building /\ o.ok /\ Opened(o)
         /\ \/ building' = TRUE /\ txn' = o.file
            \/ UNCHANGED <<building, txn>>
         /\ UNCHANGED <<caches, void>>
  BY Zenon DEF BuildStarted
<1>3. CASE UNCHANGED <<building, txn>>
  <2>1. /\ UNCHANGED <<recreateOnUnmatchedVersion, txn, building>>
        /\ UNCHANGED caches
    BY <1>2, <1>3, Zenon
  <2>2. void' \in BOOLEAN
    BY <1>1, <1>2, Zenon
  <2>. QED
    BY <1>1, <1>2, <2>1, <2>2, UncachedKeeps, Zenon
<1>4. CASE building' = TRUE /\ txn' = o.file
  <2>1. /\ file' = o.file /\ conn' = o.conn /\ txn' = o.file
        /\ dbKeyIDs' = dbKeyIDs /\ engineKeyIDs' = engineKeyIDs
        /\ recreateOnUnmatchedVersion' = recreateOnUnmatchedVersion
        /\ void' = void
    BY <1>2, <1>4, Zenon DEF Opened, caches
  <2>2. /\ o.file \in Tables /\ o.conn \in Conns /\ o.conn # "closed"
        /\ Sound(o.file)
        /\ o.conn = "open" => o.file.schema = "current"
    BY <1>1, <1>2, OpeningTyped, OpeningSound, Zenon
  <2>3. Agrees(o.file.names, dbKeyIDs, engineKeyIDs)
    <3>1. View(o) = o.file
      BY <1>2, Zenon DEF View
    <3>2. Agrees(View(o).names, dbKeyIDs, engineKeyIDs)
      BY <1>1, ViewIs, Zenon
    <3>. QED
      BY <3>1, <3>2, Zenon
  <2>4. /\ recreateOnUnmatchedVersion' \in BOOLEAN /\ file' \in Tables
        /\ void' \in BOOLEAN /\ txn' \in Tables /\ conn' \in Conns
        /\ dbKeyIDs' \in CachedIDs /\ engineKeyIDs' \in CachedKeys
    BY <1>1, <2>1, <2>2, TypesAre, Zenon
  <2>5. building' \in BOOLEAN /\ building'
    BY <1>4, Zenon
  <2>6. Agrees(txn'.names, dbKeyIDs', engineKeyIDs')
    BY <2>1, <2>3, Zenon
  <2>7. /\ Sound(file') /\ Sound(txn') /\ conn' # "closed"
        /\ conn' = "open" => file'.schema = "current"
        /\ conn' = "open" => txn'.schema = "current"
    BY <2>1, <2>2, Zenon
  <2>. QED
    BY <2>4, <2>5, <2>6, <2>7, InvFrom, Zenon
<1>. QED
  BY <1>2, <1>3, <1>4, Zenon

\* buildComplete: what the caches know of the transaction is in the file.
LEMMA CompleteKeeps ==
    ASSUME SInv, ~void, UNCHANGED recreateOnUnmatchedVersion, BuildComplete
    PROVE  SInv'
<1>1. TypeOK /\ SoundInv
  BY Zenon DEF SInv
<1>2. /\ building /\ building' = FALSE /\ txn' = NoFile /\ conn' = "closed"
      /\ \/ file' = txn /\ void' = void
         \/ void' = TRUE /\ file' = file
      /\ dbKeyIDs' = dbKeyIDs /\ engineKeyIDs' = engineKeyIDs
      /\ recreateOnUnmatchedVersion' = recreateOnUnmatchedVersion
  BY Zenon DEF BuildComplete, caches
<1>3. /\ recreateOnUnmatchedVersion' \in BOOLEAN /\ file' \in Tables
      /\ void' \in BOOLEAN /\ txn' \in Tables
      /\ dbKeyIDs' \in CachedIDs /\ engineKeyIDs' \in CachedKeys
  BY <1>1, <1>2, TypesAre, NoFileSound, Zenon
<1>4. building' \in BOOLEAN /\ conn' \in Conns /\ conn' # "open" /\ ~building'
  BY <1>2, Zenon DEF Conns
<1>5. ASSUME ~void'
      PROVE  /\ Sound(file') /\ Sound(txn')
             /\ Agrees(file'.names, dbKeyIDs', engineKeyIDs')
  <2>1. file' = txn
    BY <1>2, <1>5, Zenon
  <2>2. ConnView = txn
    BY <1>2, Zenon DEF ConnView
  <2>3. Agrees(ConnView.names, dbKeyIDs, engineKeyIDs) /\ Sound(txn)
    BY <1>1, Zenon DEF SoundInv
  <2>. QED
    BY <1>2, <2>1, <2>2, <2>3, NoFileSound, Zenon
<1>. QED
  BY <1>2, <1>3, <1>4, <1>5, InvFrom, Zenon

\* A file that another version replaced is empty, and so are the caches.
LEMMA OtherVersionKeeps ==
    ASSUME SInv, ~void, UNCHANGED recreateOnUnmatchedVersion, OtherVersion
    PROVE  SInv'
<1>1. TypeOK /\ SoundInv /\ void = FALSE
  BY TypesAre, Zenon DEF SInv
<1>2. /\ conn = "closed" /\ conn' = conn
      /\ file' = NoFile \/ file' = Contents("other")
      /\ void' = (void \/ dbKeyIDs # NoIDs)
      /\ txn' = txn /\ building' = building
      /\ dbKeyIDs' = dbKeyIDs /\ engineKeyIDs' = engineKeyIDs
      /\ recreateOnUnmatchedVersion' = recreateOnUnmatchedVersion
  BY Zenon DEF OtherVersion, caches
<1>3. file' \in Tables /\ Sound(file')
  BY <1>2, NoFileSound, ContentsSound, Zenon
<1>4. /\ recreateOnUnmatchedVersion' \in BOOLEAN
      /\ txn' \in Tables /\ conn' \in Conns
      /\ dbKeyIDs' \in CachedIDs /\ engineKeyIDs' \in CachedKeys
  BY <1>1, <1>2, TypesAre, Zenon
<1>5. void' \in BOOLEAN
  BY <1>1, <1>2, Zenon
<1>6. building = FALSE /\ conn' # "open"
  BY <1>1, <1>2, TypesAre, Zenon DEF SoundInv, ConnectionInv
<1>7. building' \in BOOLEAN /\ ~building'
  BY <1>2, <1>6, Zenon
<1>8. Sound(txn') /\ txn' = NoFile
  BY <1>1, <1>2, <1>6, Zenon DEF SoundInv, ConnectionInv
<1>9. ASSUME ~void' PROVE Agrees(file'.names, dbKeyIDs', engineKeyIDs')
  <2>1. dbKeyIDs = NoIDs
    BY <1>2, <1>9, Zenon
  <2>2. Agrees(ConnView.names, NoIDs, engineKeyIDs)
    BY <1>1, <2>1, Zenon DEF SoundInv
  <2>3. \A i \in IDs : engineKeyIDs[i] = NoKey
    <3>1. ASSUME NEW i \in IDs, engineKeyIDs[i] # NoKey PROVE FALSE
      <4>1. engineKeyIDs \in CachedKeys
        BY <1>1, TypesAre, Zenon
      <4>2. engineKeyIDs[i] \in Keys
        BY <3>1, <4>1, Zenon DEF CachedKeys
      <4>3. NoIDs[engineKeyIDs[i]] = i /\ i \in 1 .. Len(ConnView.names)
        BY <2>2, <3>1, Zenon DEF Agrees
      <4>4. NoIDs[engineKeyIDs[i]] = 0
        BY <4>2, Zenon DEF NoIDs
      <4>5. ConnView \in Tables
        BY <1>1, TypesAre, Zenon DEF ConnView
      <4>6. ConnView.names \in KeyNames
        BY <4>5, TablesAre, Zenon
      <4>. QED
        BY <4>3, <4>4, <4>6, NamesAre, Zenon
    <3>. QED
      BY <3>1, Zenon
  <2>4. \A k \in Keys : NoIDs[k] = 0
    BY Zenon DEF NoIDs
  <2>5. Agrees(file'.names, NoIDs, engineKeyIDs)
    BY <2>3, <2>4, Zenon DEF Agrees
  <2>. QED
    BY <1>2, <2>1, <2>5, Zenon
<1>. QED
  BY <1>3, <1>4, <1>5, <1>6, <1>7, <1>8, <1>9, InvFrom, Zenon

\* Tables with another iteration mean what they meant.
LEMMA IterationSound ==
    ASSUME NEW c \in Tables, NEW n \in 0 .. MaxIteration
    PROVE  /\ [c EXCEPT !.iteration = n] \in Tables
           /\ Sound(c) /\ c.schema = "current" =>
                 Sound([c EXCEPT !.iteration = n])
           /\ [c EXCEPT !.iteration = n].schema = c.schema
           /\ [c EXCEPT !.iteration = n].names = c.names
           /\ [c EXCEPT !.iteration = n].iteration = n
           /\ \A k \in Keys :
                 ResultOf([c EXCEPT !.iteration = n], k) = ResultOf(c, k)
<1>. DEFINE d == [c EXCEPT !.iteration = n]
<1>1. /\ c = [schema |-> c.schema, names |-> c.names, rows |-> c.rows,
              iteration |-> c.iteration]
      /\ c.names \in KeyNames /\ c.rows \in [IDs -> Rows]
      /\ c.schema \in {"none", "current", "other"}
  BY TablesAre, Zenon
<1>2. d = TablesOf(c.schema, c.names, c.rows, n)
  BY <1>1 DEF TablesOf
<1>3. /\ d.schema = c.schema /\ d.names = c.names /\ d.rows = c.rows
      /\ d.iteration = n
  BY <1>2, Zenon DEF TablesOf
<1>4. d \in Tables
  <2>1. TablesOf(c.schema, c.names, c.rows, n) \in Tables
    BY <1>1, Zenon DEF TablesOf, Tables
  <2>. QED
    BY <1>2, <2>1, Zenon
<1>. HIDE DEF d
<1>5. /\ \A i : DecodedRow(d, i) = DecodedRow(c, i)
      /\ \A k : NamedID(d.names, k) = NamedID(c.names, k)
  BY <1>3, Zenon DEF DecodedRow
<1>6. ASSUME Sound(c), c.schema = "current" PROVE Sound(d)
  <2>1. Faithful(d.names) /\ d.schema = "current"
    BY <1>3, <1>6, Zenon DEF Sound
  <2>2. \A i \in IDs : d.rows[i] # NoRow =>
           /\ i \in 1 .. Len(d.names)
           /\ \A j \in 1 .. Len(d.rows[i].deps) :
                 DecodedID(d.rows[i].deps[j]) \in 1 .. Len(d.names)
           /\ DecodedRow(d, i) \in Results
    BY <1>3, <1>5, <1>6, Zenon DEF Sound
  <2>. QED
    BY <2>1, <2>2, Zenon DEF Sound
<1>7. \A k \in Keys : ResultOf(d, k) = ResultOf(c, k)
  BY <1>3, <1>5, Zenon DEF ResultOf
<1>. QED
  BY <1>3, <1>4, <1>6, <1>7, Zenon DEF d

\* setCurrentIteration keeps the invariant.
LEMMA IterationKeeps ==
    ASSUME SInv, ~void, UNCHANGED recreateOnUnmatchedVersion,
           NEW n \in 1 .. MaxIteration, SetCurrentIteration(n)
    PROVE  SInv'
<1>1. TypeOK /\ SoundInv /\ void = FALSE
  BY TypesAre, Zenon DEF SInv
<1>. DEFINE t == [txn EXCEPT !.iteration = n]
<1>2. /\ building /\ building' = building /\ conn' = conn /\ file' = file
      /\ dbKeyIDs' = dbKeyIDs /\ engineKeyIDs' = engineKeyIDs
      /\ recreateOnUnmatchedVersion' = recreateOnUnmatchedVersion
      /\ \/ /\ txn.schema # "none" /\ txn' = t
            /\ void' = (void \/ txn.schema = "other")
         \/ txn' = txn /\ void' = void
  BY Zenon DEF SetCurrentIteration, caches
<1>3. n \in 0 .. MaxIteration
  BY SQLiteAssumption
<1>4. txn \in Tables
  BY <1>1, TypesAre, Zenon
<1>5. /\ t \in Tables /\ t.names = txn.names /\ t.schema = txn.schema
      /\ Sound(txn) /\ txn.schema = "current" => Sound(t)
  BY <1>3, <1>4, IterationSound, Zenon
<1>6. txn.schema \in {"none", "current", "other"}
  BY <1>4, TablesAre, Zenon
<1>7. /\ Sound(file) /\ Sound(txn)
      /\ Agrees(txn.names, dbKeyIDs, engineKeyIDs)
      /\ conn # "closed"
      /\ conn = "open" => file.schema = "current"
      /\ conn = "open" => txn.schema = "current"
  BY <1>1, <1>2, Zenon DEF SoundInv, ConnectionInv, ConnView
<1>. HIDE DEF t
<1>8. /\ txn'.names = txn.names /\ txn'.schema = txn.schema /\ txn' \in Tables
      /\ ~void' => Sound(txn')
  <2>1. CASE txn' = txn
    BY <1>4, <1>7, <2>1, Zenon
  <2>2. CASE txn' = t /\ txn.schema # "none" /\ void' = (void \/ txn.schema = "other")
    <3>1. ~void' => txn.schema = "current"
      BY <1>6, <2>2, Zenon
    <3>. QED
      BY <1>5, <1>7, <2>2, <3>1, Zenon
  <2>. QED
    BY <1>2, <2>1, <2>2, Zenon
<1>9. /\ recreateOnUnmatchedVersion' \in BOOLEAN /\ file' \in Tables
      /\ conn' \in Conns /\ building' \in BOOLEAN
      /\ dbKeyIDs' \in CachedIDs /\ engineKeyIDs' \in CachedKeys
  BY <1>1, <1>2, TypesAre, Zenon
<1>10. void' \in BOOLEAN /\ building'
  BY <1>1, <1>2, Zenon
<1>11. Agrees(txn'.names, dbKeyIDs', engineKeyIDs') /\ Sound(file')
  BY <1>2, <1>7, <1>8, Zenon
<1>12. /\ conn' # "closed"
       /\ conn' = "open" => file'.schema = "current"
       /\ conn' = "open" => txn'.schema = "current"
  BY <1>2, <1>7, <1>8, Zenon
<1>. QED
  BY <1>8, <1>9, <1>10, <1>11, <1>12, InvFrom, Zenon

\* The tables Store leaves, and those of a failed set.
LEMMA WritesAre ==
    ASSUME NEW c \in Tables, NEW g, NEW r
    PROVE  /\ [c EXCEPT !.names = g.names,
                        !.rows[g.found[1]] = StoredRow(r, g.found)]
                 = Written(c, g, r, c.iteration)
           /\ [c EXCEPT !.names = g.names] = Grown(c, g.names)
<1>. DEFINE row == StoredRow(r, g.found)
            id == g.found[1]
            names == g.names
            x == c.schema
            y == c.names
            z == c.rows
            w == c.iteration
<1>1. c = [schema |-> x, names |-> y, rows |-> z, iteration |-> w]
  BY TablesAre, Zenon
<1>. HIDE DEF row, id, names, x, y, z, w
<1>. DEFINE d == [c EXCEPT !.names = names]
            e == [d EXCEPT !.rows[id] = row]
            rows == [z EXCEPT ![id] = row]
<1>2. d = [schema |-> x, names |-> names, rows |-> z, iteration |-> w]
  BY <1>1
<1>. HIDE DEF d
<1>3. d.rows = z
  BY <1>2, Zenon
<1>4. [d.rows EXCEPT ![id] = row] = rows
  BY <1>3, Zenon
<1>. HIDE DEF rows
<1>5. e = [d EXCEPT !.rows = rows]
  BY <1>4, Zenon
<1>6. e = [schema |-> x, names |-> names, rows |-> rows, iteration |-> w]
  BY <1>2, <1>5
<1>. HIDE DEF e
<1>. QED
  BY <1>2, <1>6, Zenon
     DEF d, e, rows, row, id, names, x, y, z, w, Written, Grown, TablesOf

Rewritten(c, g, r, n) ==
    [c EXCEPT !.names = g.names, !.rows[g.found[1]] = StoredRow(r, g.found),
              !.iteration = n]

\* The tables OtherBuild leaves.
LEMMA RewritesAre ==
    ASSUME NEW c \in Tables, NEW g, NEW r, NEW n
    PROVE  Rewritten(c, g, r, n) = Written(c, g, r, n)
<1>. DEFINE x == [c EXCEPT !.names = g.names,
                           !.rows[g.found[1]] = StoredRow(r, g.found)]
<1>1. x = Written(c, g, r, c.iteration)
  BY WritesAre, Zenon
<1>. HIDE DEF x
<1>. DEFINE names == g.names
            rows == [c.rows EXCEPT ![g.found[1]] = StoredRow(r, g.found)]
<1>2. x = [schema |-> c.schema, names |-> names, rows |-> rows,
           iteration |-> c.iteration]
  BY <1>1, Zenon DEF Written, TablesOf
<1>. HIDE DEF names, rows
<1>3. [x EXCEPT !.iteration = n]
         = [schema |-> c.schema, names |-> names, rows |-> rows, iteration |-> n]
  BY <1>2
<1>. QED
  BY <1>3, Zenon DEF x, names, rows, Rewritten, Written, TablesOf

\* A write to the transaction keeps the invariant when its tables are sound and
\* the caches agree with them.
LEMMA WritingKeeps ==
    ASSUME TypeOK, SoundInv, building, conn = "open",
           UNCHANGED <<recreateOnUnmatchedVersion, file, building, conn>>,
           void' \in BOOLEAN, NEW g \in Cursors(IDs), Cache(g),
           txn' \in Tables, txn'.names = g.names, txn'.schema = txn.schema,
           ~void' => Sound(txn') /\ Agreeing(g)
    PROVE  SInv'
<1>1. /\ building' = building /\ conn' = conn /\ file' = file
      /\ recreateOnUnmatchedVersion' = recreateOnUnmatchedVersion
      /\ dbKeyIDs' = g.db /\ engineKeyIDs' = g.engine
  BY Zenon DEF Cache
<1>2. g.db \in CachedIDs /\ g.engine \in CachedKeys
  BY CursorWith, Zenon
<1>3. /\ recreateOnUnmatchedVersion' \in BOOLEAN /\ file' \in Tables
      /\ conn' \in Conns /\ building' \in BOOLEAN
      /\ dbKeyIDs' \in CachedIDs /\ engineKeyIDs' \in CachedKeys
  BY <1>1, <1>2, TypesAre, Zenon
<1>4. building' /\ conn' # "closed"
  BY <1>1
<1>5. Sound(file') /\ file'.schema = "current" /\ txn'.schema = "current"
  BY <1>1, Zenon DEF SoundInv, ConnectionInv
<1>6. ~void' => Agrees(txn'.names, dbKeyIDs', engineKeyIDs')
  BY <1>1, Zenon DEF Agreeing
<1>. QED
  BY <1>3, <1>4, <1>5, <1>6, InvFrom, Zenon

\* The cursor of setRuleResult after n keys.
SetAt(ks, n) == Identified(Cursor(txn.names), ks, n)

\* It is of the right type, with an ID for each key.
LEMMA SetTyped ==
    ASSUME TypeOK, NEW ks \in Seq(Keys), NEW n \in 0 .. Len(ks)
    PROVE  SetAt(ks, n) \in Cursors(IDs) /\ Len(SetAt(ks, n).found) = n
<1>1. txn.names \in KeyNames /\ dbKeyIDs \in CachedIDs
         /\ engineKeyIDs \in CachedKeys
  BY TypesAre, TablesAre, Zenon
<1>. DEFINE c == Cursor(txn.names)
<1>2. c \in Cursors(IDs) /\ c.found = <<>>
  BY <1>1, CursorStarts, Zenon
<1>. HIDE DEF c
<1>3. /\ Identified(c, ks, n) \in Cursors(IDs)
      /\ Len(Identified(c, ks, n).found) = Len(c.found) + n
  BY <1>2, IdentifiedTyped, Zenon
<1>4. Len(c.found) + n = n
  BY <1>2
<1>. QED
  BY <1>3, <1>4, Zenon DEF c, SetAt

\* When the column keeps every key, the IDs are those of the keys and the caches
\* agree with the names.
LEMMA SetSound ==
    ASSUME TypeOK, SoundInv, building, NEW ks \in Seq(Keys),
           \A i \in 1 .. Len(ks) : ~Unfaithful(ks[i]), NEW n \in 0 .. Len(ks)
    PROVE  /\ Agreeing(SetAt(ks, n)) /\ Extends(txn.names, SetAt(ks, n).names)
           /\ FoundFor(SetAt(ks, Len(ks)), ks)
<1>. DEFINE c == Cursor(txn.names)
<1>1. /\ txn.names \in KeyNames /\ dbKeyIDs \in CachedIDs
      /\ engineKeyIDs \in CachedKeys
  BY TypesAre, TablesAre, Zenon
<1>2. /\ c \in Cursors(IDs) /\ c.found = <<>> /\ c.names = txn.names
      /\ c.db = dbKeyIDs /\ c.engine = engineKeyIDs
  BY <1>1, CursorStarts, Zenon
<1>3. Faithful(txn.names) /\ Agrees(txn.names, dbKeyIDs, engineKeyIDs)
  BY Zenon DEF SoundInv, ConnView, Sound
<1>. HIDE DEF c
<1>4. Agreeing(c)
  BY <1>2, <1>3, Zenon DEF Agreeing
<1>5. ASSUME NEW m \in 0 .. Len(ks)
      PROVE  /\ Agreeing(Identified(c, ks, m))
             /\ Extends(c.names, Identified(c, ks, m).names)
             /\ \A j \in 1 .. m :
                   /\ Identified(c, ks, m).found[j]
                         \in 1 .. Len(Identified(c, ks, m).names)
                   /\ Identified(c, ks, m).names[Identified(c, ks, m).found[j]]
                         = ks[j]
  BY <1>2, <1>4, IdentifiedAgrees, Zenon
<1>6. Len(ks) \in 0 .. Len(ks)
  OBVIOUS
<1>7. FoundFor(Identified(c, ks, Len(ks)), ks)
  BY <1>5, <1>6, Zenon DEF FoundFor
<1>8. /\ Agreeing(Identified(c, ks, n))
      /\ Extends(txn.names, Identified(c, ks, n).names)
  BY <1>2, <1>5, Zenon
<1>. QED
  BY <1>7, <1>8, Zenon DEF SetAt, c

\* The cases of setRuleResult: the result is stored, an error leaves the keys
\* named so far, or the promises are let go.
LEMMA SetSteps ==
    ASSUME NEW k \in Keys, NEW r \in Results, SetRuleResult(k, r), txn \in Tables
    PROVE  /\ building /\ conn = "open" /\ UNCHANGED <<file, building, conn>>
           /\ \/ /\ txn' = Written(txn, SetAt(NamedKeys(k, r),
                                              Len(NamedKeys(k, r))),
                                   r, txn.iteration)
                 /\ Cache(SetAt(NamedKeys(k, r), Len(NamedKeys(k, r))))
                 /\ answer' = Done
                 /\ void' = (void \/ \E i \in 1 .. Len(NamedKeys(k, r)) :
                                        Unfaithful(NamedKeys(k, r)[i]))
              \/ /\ \E n \in 0 .. Len(NamedKeys(k, r)) :
                       /\ txn' = Grown(txn, SetAt(NamedKeys(k, r), n).names)
                       /\ Cache(SetAt(NamedKeys(k, r), n))
                 /\ answer' = Failed
                 /\ void' = (void \/ \E i \in 1 .. Len(NamedKeys(k, r)) :
                                        Unfaithful(NamedKeys(k, r)[i]))
              \/ SetMisread(NamedKeys(k, r), r) /\ void' = TRUE
              \/ SetRollsBack /\ void' = TRUE
<1>. DEFINE ks == NamedKeys(k, r)
            bad == \E i \in 1 .. Len(ks) : Unfaithful(ks[i])
<1>1. /\ building /\ conn = "open" /\ UNCHANGED <<file, building, conn>>
      /\ \/ Store(r, SetAt(ks, Len(ks))) /\ void' = (void \/ bad)
         \/ SetFails(ks) /\ void' = (void \/ bad)
         \/ SetMisread(ks, r) /\ void' = TRUE
         \/ SetRollsBack /\ void' = TRUE
  BY Zenon DEF SetRuleResult, SetAt
<1>. HIDE DEF ks, bad
<1>2. ASSUME NEW g, Store(r, g)
      PROVE  txn' = Written(txn, g, r, txn.iteration) /\ Cache(g)
                /\ answer' = Done
  BY <1>2, WritesAre, Zenon DEF Store
<1>3. ASSUME SetFails(ks)
      PROVE  /\ \E n \in 0 .. Len(ks) : /\ txn' = Grown(txn, SetAt(ks, n).names)
                                        /\ Cache(SetAt(ks, n))
             /\ answer' = Failed
  <2>1. PICK n \in 0 .. Len(ks) :
           /\ txn' = [txn EXCEPT !.names = SetAt(ks, n).names]
           /\ Cache(SetAt(ks, n)) /\ answer' = Failed
    BY <1>3, Zenon DEF SetFails, SetAt
  <2>2. txn' = Grown(txn, SetAt(ks, n).names)
    BY <2>1, WritesAre, Zenon
  <2>. QED
    BY <2>1, <2>2, Zenon
<1>. QED
  BY <1>1, <1>2, <1>3, Zenon DEF ks, bad

\* The result of setRuleResult, where every key is kept: the tables are sound,
\* and mean what they meant but for the key.
LEMMA StoresSound ==
    ASSUME TypeOK, SoundInv, building, conn = "open",
           NEW k \in Keys, NEW r \in Results
    PROVE  LET ks == NamedKeys(k, r)
               g == SetAt(ks, Len(ks))
               t == Written(txn, g, r, txn.iteration)
           IN  /\ g \in Cursors(IDs) /\ t \in Tables
               /\ t.names = g.names /\ t.schema = txn.schema
               /\ t.iteration = txn.iteration
               /\ (\A i \in 1 .. Len(ks) : ~Unfaithful(ks[i])) =>
                     Agreeing(g) /\ Sound(t) /\ Replaces(t, txn, k, r)
<1>. DEFINE ks == NamedKeys(k, r)
            g == SetAt(ks, Len(ks))
            n == txn.iteration
            t == Written(txn, g, r, n)
<1>1. ks \in Seq(Keys) /\ Len(ks) = Len(r.deps) + 1
  BY NamedKeysAre, Zenon
<1>2. txn \in Tables
  BY TypesAre, Zenon
<1>3. n \in 0 .. MaxIteration
  BY <1>2, TablesAre, Zenon
<1>. HIDE DEF ks, n
<1>4. Len(ks) \in 0 .. Len(ks)
  BY <1>1
<1>5. g \in Cursors(IDs) /\ Len(g.found) = Len(ks)
  BY <1>1, <1>4, SetTyped, Zenon
<1>. HIDE DEF g
<1>6. g \in Cursors(IDs) /\ Sized(g, r)
  BY <1>1, <1>5, Zenon DEF Sized
<1>7. /\ t \in Tables /\ t.names = g.names /\ t.schema = txn.schema
      /\ t.iteration = n
  <2>1. t \in Tables
    BY <1>2, <1>3, <1>6, WrittenTyped, Zenon
  <2>2. t.names = g.names /\ t.schema = txn.schema /\ t.iteration = n
    BY Zenon DEF Written, TablesOf
  <2>. QED
    BY <2>1, <2>2, Zenon
<1>8. ASSUME \A i \in 1 .. Len(ks) : ~Unfaithful(ks[i])
      PROVE  Agreeing(g) /\ Sound(t) /\ Replaces(t, txn, k, r)
  <2>1. Agreeing(g) /\ Extends(txn.names, g.names) /\ FoundFor(g, ks)
    BY <1>1, <1>4, <1>8, SetSound, Zenon DEF g
  <2>2. Sound(txn)
    BY Zenon DEF SoundInv
  <2>3. Current(txn)
    BY Zenon DEF SoundInv, ConnectionInv, Current
  <2>4. FoundFor(g, NamedKeys(k, r))
    BY <2>1, Zenon DEF ks
  <2>5. Sound(t) /\ Replaces(t, txn, k, r)
    <3>1. Sound(t)
      BY <1>2, <1>3, <1>6, <2>1, <2>2, <2>3, <2>4, WrittenSound, Zenon
    <3>2. Replaces(t, txn, k, r)
      BY <1>2, <1>3, <1>6, <2>1, <2>2, <2>3, <2>4, WrittenSound, Zenon
    <3>. QED
      BY <3>1, <3>2, Zenon
  <2>. QED
    BY <2>1, <2>5, Zenon
<1>. QED
  BY <1>5, <1>7, <1>8, Zenon DEF t, g, n, ks

\* The same of a call that fails after n keys.
LEMMA FailsSound ==
    ASSUME TypeOK, SoundInv, building, conn = "open",
           NEW k \in Keys, NEW r \in Results,
           NEW n \in 0 .. Len(NamedKeys(k, r))
    PROVE  LET ks == NamedKeys(k, r)
               g == SetAt(ks, n)
               t == Grown(txn, g.names)
           IN  /\ g \in Cursors(IDs) /\ t \in Tables
               /\ t.names = g.names /\ t.schema = txn.schema
               /\ t.iteration = txn.iteration
               /\ (\A i \in 1 .. Len(ks) : ~Unfaithful(ks[i])) =>
                     /\ Agreeing(g) /\ Sound(t)
                     /\ \A j \in Keys : ResultOf(t, j) = ResultOf(txn, j)
<1>. DEFINE ks == NamedKeys(k, r)
            g == SetAt(ks, n)
            t == Grown(txn, g.names)
<1>1. ks \in Seq(Keys)
  BY NamedKeysAre, Zenon
<1>2. txn \in Tables
  BY TypesAre, Zenon
<1>. HIDE DEF ks
<1>3. n \in 0 .. Len(ks)
  BY Zenon DEF ks
<1>4. g \in Cursors(IDs)
  BY <1>1, <1>3, SetTyped, Zenon
<1>5. g.names \in KeyNames
  BY <1>4, CursorWith, Zenon
<1>. HIDE DEF g
<1>6. /\ t \in Tables /\ t.names = g.names /\ t.schema = txn.schema
      /\ t.iteration = txn.iteration
  BY <1>2, <1>5, GrownSound, Zenon
<1>7. ASSUME \A i \in 1 .. Len(ks) : ~Unfaithful(ks[i])
      PROVE  /\ Agreeing(g) /\ Sound(t)
             /\ \A j \in Keys : ResultOf(t, j) = ResultOf(txn, j)
  <2>1. Agreeing(g) /\ Extends(txn.names, g.names)
    BY <1>1, <1>3, <1>7, SetSound, Zenon DEF g
  <2>2. Sound(txn) /\ Faithful(g.names)
    BY <2>1, Zenon DEF SoundInv, Agreeing
  <2>3. txn.schema = "current"
    BY Zenon DEF SoundInv, ConnectionInv
  <2>4. Sound(t) /\ \A j \in Keys : ResultOf(t, j) = ResultOf(txn, j)
    BY <1>2, <1>5, <2>1, <2>2, <2>3, GrownSound, Zenon
  <2>. QED
    BY <2>1, <2>4, Zenon
<1>. QED
  BY <1>4, <1>6, <1>7, Zenon DEF t, g, ks

\* An ID that was misread is still an ID.
LEMMA MisreadTyped ==
    ASSUME TypeOK, NEW k \in Keys, NEW r \in Results,
           SetMisread(NamedKeys(k, r), r)
    PROVE  \E g \in Cursors(IDs) :
              /\ Cache(g) /\ txn' \in Tables
              /\ txn'.names = g.names /\ txn'.schema = txn.schema
<1>. DEFINE ks == NamedKeys(k, r)
<1>1. ks \in Seq(Keys) /\ Len(ks) = Len(r.deps) + 1
  BY NamedKeysAre, Zenon
<1>. HIDE DEF ks
<1>2. SetMisread(ks, r)
  BY Zenon DEF ks
<1>3. PICK m \in 1 .. Len(ks), id \in 0 .. Len(txn.names) :
         Store(r, Identified(Learn(SetAt(ks, m - 1), ks[m], id),
                             SubSeq(ks, m + 1, Len(ks)),
                             Len(SubSeq(ks, m + 1, Len(ks)))))
  BY <1>2, Zenon DEF SetMisread, SetAt
<1>. DEFINE before == SetAt(ks, m - 1)
            rest == SubSeq(ks, m + 1, Len(ks))
            b == Learn(before, ks[m], id)
            g == Identified(b, rest, Len(rest))
<1>4. /\ m - 1 \in 0 .. Len(ks) /\ ks[m] \in Keys /\ rest \in Seq(Keys)
      /\ Len(rest) = Len(ks) - m /\ Len(rest) \in 0 .. Len(rest)
  BY <1>1, <1>3
<1>5. txn \in Tables
  BY TypesAre, Zenon
<1>6. txn.names \in KeyNames /\ txn.iteration \in 0 .. MaxIteration
  BY <1>5, TablesAre, Zenon
<1>7. id \in IDs
  BY <1>3, <1>6, NamesAre, IDsAre DEF IDs
<1>8. before \in Cursors(IDs) /\ Len(before.found) = m - 1
  BY <1>1, <1>4, SetTyped, Zenon
<1>. HIDE DEF before
<1>9. b \in Cursors(IDs) /\ b.found = Append(before.found, id)
  <2>. DEFINE key == ks[m]
  <2>1. key \in Keys
    BY <1>4, Zenon
  <2>. HIDE DEF key
  <2>2. /\ before.names \in KeyNames /\ before.db \in CachedIDs
        /\ before.engine \in CachedKeys /\ before.found \in Seq(IDs)
        /\ [before.db EXCEPT ![key] = id] \in CachedIDs
        /\ [before.engine EXCEPT ![id] = key] \in CachedKeys
    BY <1>7, <1>8, <2>1, LearnIs, Zenon
  <2>3. Append(before.found, id) \in Seq(IDs)
    BY <1>7, <2>2
  <2>4. \E db \in CachedIDs, engine \in CachedKeys :
           Learn(before, key, id)
              = CursorOf(before.names, db, engine, Append(before.found, id))
    BY <1>7, <1>8, <2>1, <2>2, LearnIs, Zenon
  <2>5. PICK db \in CachedIDs, engine \in CachedKeys :
           Learn(before, key, id)
              = CursorOf(before.names, db, engine, Append(before.found, id))
    BY <2>4, Zenon
  <2>6. CursorOf(before.names, db, engine, Append(before.found, id))
           \in Cursors(IDs)
    BY <2>2, <2>3, CursorIs, Zenon
  <2>7. CursorOf(before.names, db, engine, Append(before.found, id)).found
           = Append(before.found, id)
    BY Zenon DEF CursorOf
  <2>8. /\ Learn(before, key, id) \in Cursors(IDs)
        /\ Learn(before, key, id).found = Append(before.found, id)
    BY <2>5, <2>6, <2>7, Zenon
  <2>. QED
    BY <2>8, Zenon DEF key
<1>10. Len(b.found) = m
  <2>1. before.found \in Seq(IDs)
    BY <1>8, CursorWith, Zenon
  <2>. HIDE DEF b
  <2>. QED
    BY <1>3, <1>7, <1>8, <1>9, <2>1
<1>. HIDE DEF b, rest
<1>11. g \in Cursors(IDs) /\ Len(g.found) = Len(b.found) + Len(rest)
  BY <1>4, <1>9, IdentifiedTyped, Zenon
<1>12. g \in Cursors(IDs) /\ Sized(g, r)
  <2>. HIDE DEF g
  <2>1. Len(ks) \in Nat /\ m \in Nat
    BY <1>1, <1>3
  <2>. QED
    BY <1>1, <1>4, <1>10, <1>11, <2>1 DEF Sized
<1>13. Store(r, g)
  BY <1>3, Zenon DEF g, b, rest, before
<1>. HIDE DEF g
<1>14. txn' = Written(txn, g, r, txn.iteration) /\ Cache(g)
  BY <1>5, <1>13, WritesAre, Zenon DEF Store
<1>15. /\ Written(txn, g, r, txn.iteration) \in Tables
       /\ Written(txn, g, r, txn.iteration).names = g.names
       /\ Written(txn, g, r, txn.iteration).schema = txn.schema
  <2>1. Written(txn, g, r, txn.iteration) \in Tables
    BY <1>5, <1>6, <1>12, WrittenTyped, Zenon
  <2>2. /\ Written(txn, g, r, txn.iteration).names = g.names
        /\ Written(txn, g, r, txn.iteration).schema = txn.schema
    BY Zenon DEF Written, TablesOf
  <2>. QED
    BY <2>1, <2>2, Zenon
<1>. QED
  BY <1>11, <1>14, <1>15, Zenon

\* setRuleResult keeps the invariant, whether it succeeds or fails.
LEMMA SetKeeps ==
    ASSUME SInv, ~void, UNCHANGED recreateOnUnmatchedVersion,
           NEW k \in Keys, NEW r \in Results, SetRuleResult(k, r)
    PROVE  SInv'
<1>. DEFINE ks == NamedKeys(k, r)
            bad == \E i \in 1 .. Len(ks) : Unfaithful(ks[i])
            all == SetAt(ks, Len(ks))
            w == Written(txn, all, r, txn.iteration)
<1>1. TypeOK /\ SoundInv /\ void = FALSE /\ txn \in Tables
  BY TypesAre, Zenon DEF SInv
<1>2. /\ building /\ conn = "open" /\ UNCHANGED <<file, building, conn>>
      /\ \/ txn' = w /\ Cache(all) /\ void' = (void \/ bad)
         \/ /\ \E n \in 0 .. Len(ks) : /\ txn' = Grown(txn, SetAt(ks, n).names)
                                       /\ Cache(SetAt(ks, n))
            /\ void' = (void \/ bad)
         \/ SetMisread(ks, r) /\ void' = TRUE
         \/ SetRollsBack /\ void' = TRUE
  BY <1>1, SetSteps, Zenon
<1>3. UNCHANGED <<recreateOnUnmatchedVersion, file, building, conn>>
  BY <1>2, Zenon
<1>4. CASE txn' = w /\ Cache(all) /\ void' = (void \/ bad)
  <2>1. /\ all \in Cursors(IDs) /\ w \in Tables
        /\ w.names = all.names /\ w.schema = txn.schema
        /\ ~bad => Agreeing(all) /\ Sound(w)
    BY <1>1, <1>2, StoresSound, Zenon
  <2>. HIDE DEF w, all, bad
  <2>2. void' \in BOOLEAN /\ (~void' => ~bad)
    BY <1>1, <1>4, Zenon DEF bad
  <2>3. /\ txn' \in Tables /\ txn'.names = all.names /\ txn'.schema = txn.schema
        /\ ~void' => Sound(txn') /\ Agreeing(all)
    BY <1>4, <2>1, <2>2, Zenon
  <2>. QED
    BY <1>1, <1>2, <1>3, <1>4, <2>1, <2>2, <2>3, WritingKeeps, Zenon
<1>5. ASSUME NEW n \in 0 .. Len(ks), txn' = Grown(txn, SetAt(ks, n).names),
             Cache(SetAt(ks, n)), void' = (void \/ bad)
      PROVE  SInv'
  <2>. DEFINE g == SetAt(ks, n)
              t == Grown(txn, g.names)
  <2>1. /\ g \in Cursors(IDs) /\ t \in Tables
        /\ t.names = g.names /\ t.schema = txn.schema
        /\ ~bad => Agreeing(g) /\ Sound(t)
    BY <1>1, <1>2, <1>5, FailsSound, Zenon
  <2>2. txn' = t /\ Cache(g)
    BY <1>5, Zenon
  <2>. HIDE DEF g, t, bad
  <2>3. void' \in BOOLEAN /\ (~void' => ~bad)
    BY <1>1, <1>5, Zenon DEF bad
  <2>4. /\ txn' \in Tables /\ txn'.names = g.names /\ txn'.schema = txn.schema
        /\ ~void' => Sound(txn') /\ Agreeing(g)
    BY <2>1, <2>2, <2>3, Zenon
  <2>. QED
    BY <1>1, <1>2, <1>3, <2>1, <2>2, <2>3, <2>4, WritingKeeps, Zenon
<1>6. CASE SetMisread(ks, r) /\ void' = TRUE
  <2>1. PICK g \in Cursors(IDs) :
           /\ Cache(g) /\ txn' \in Tables
           /\ txn'.names = g.names /\ txn'.schema = txn.schema
    BY <1>1, <1>6, MisreadTyped, Zenon
  <2>2. void' \in BOOLEAN /\ void'
    BY <1>6, Zenon
  <2>. QED
    BY <1>1, <1>2, <1>3, <2>1, <2>2, WritingKeeps, Zenon
<1>7. CASE SetRollsBack /\ void' = TRUE
  <2>1. /\ txn' = file /\ dbKeyIDs' = dbKeyIDs /\ engineKeyIDs' = engineKeyIDs
        /\ recreateOnUnmatchedVersion' = recreateOnUnmatchedVersion
        /\ file' = file /\ building' = building /\ conn' = conn
    BY <1>3, <1>7, Zenon DEF SetRollsBack, caches
  <2>2. /\ recreateOnUnmatchedVersion' \in BOOLEAN /\ file' \in Tables
        /\ txn' \in Tables /\ conn' \in Conns /\ building' \in BOOLEAN
        /\ dbKeyIDs' \in CachedIDs /\ engineKeyIDs' \in CachedKeys
    BY <1>1, <2>1, TypesAre, Zenon
  <2>3. void' \in BOOLEAN /\ void'
    BY <1>7, Zenon
  <2>. QED
    BY <2>2, <2>3, InvFrom, Zenon
<1>. QED
  BY <1>2, <1>4, <1>5, <1>6, <1>7, Zenon

\* What another process starts from: the file, or new tables.
Base == IF file.schema = "current" THEN file ELSE Fresh
OtherAt(ks) ==
    Identified([names |-> Base.names, db |-> NoIDs, engine |-> NoKeys,
                found |-> <<>>], ks, Len(ks))

\* A build of another process leaves sound tables that extend the names of the
\* file.
LEMMA OtherSound ==
    ASSUME TypeOK, SoundInv, NEW k \in Keys, NEW r \in Results,
           NEW n \in 0 .. MaxIteration,
           \A i \in 1 .. Len(NamedKeys(k, r)) : ~Unfaithful(NamedKeys(k, r)[i])
    PROVE  LET w == Written(Base, OtherAt(NamedKeys(k, r)), r, n)
           IN  /\ Base \in Tables /\ w \in Tables /\ Sound(w)
               /\ w.schema = "current" /\ w.iteration = n
               /\ Extends(file.names, w.names)
<1>. DEFINE ks == NamedKeys(k, r)
            b == Base.names
            c == [names |-> b, db |-> NoIDs, engine |-> NoKeys, found |-> <<>>]
            g == Identified(c, ks, Len(ks))
            w == Written(Base, g, r, n)
<1>1. /\ Base \in Tables /\ Sound(Base) /\ Base.schema = "current"
      /\ Base.names = file.names
  <2>1. CASE file.schema = "current"
    BY <2>1, TypesAre, Zenon DEF Base, SoundInv
  <2>2. CASE file.schema # "current"
    <3>1. Base = Contents("current")
      BY <2>2, Zenon DEF Base, Fresh
    <3>2. file \in Tables /\ file = Contents(file.schema)
      BY <2>2, TypesAre, Zenon DEF SoundInv, Sound
    <3>3. file.schema \in {"none", "current", "other"}
      BY <3>2, TablesAre, Zenon
    <3>4. Contents(file.schema).names = <<>>
      BY <3>3, ContentsSound, Zenon
    <3>5. file.names = <<>>
      BY <3>2, <3>4, Zenon
    <3>6. /\ Contents("current") \in Tables /\ Sound(Contents("current"))
          /\ Contents("current").schema = "current"
          /\ Contents("current").names = <<>>
      BY ContentsSound, Zenon
    <3>. QED
      BY <3>1, <3>5, <3>6, Zenon
  <2>. QED
    BY <2>1, <2>2, Zenon
<1>2. ks \in Seq(Keys) /\ Len(ks) = Len(r.deps) + 1
  BY NamedKeysAre, Zenon
<1>3. b \in KeyNames /\ Faithful(b)
  BY <1>1, TablesAre, Zenon DEF Sound
<1>. HIDE DEF ks, b
<1>4. Len(ks) \in 0 .. Len(ks)
  BY <1>2
<1>5. c = CursorOf(b, NoIDs, NoKeys, <<>>)
  BY Zenon DEF CursorOf
<1>6. c.names = b /\ c.db = NoIDs /\ c.engine = NoKeys /\ c.found = <<>>
  BY Zenon
<1>7. c \in Cursors(IDs)
  <2>1. <<>> \in Seq(IDs)
    OBVIOUS
  <2>. HIDE DEF c
  <2>. QED
    BY <1>3, <1>5, <2>1, CursorIs, NothingCached, Zenon
<1>. HIDE DEF c
<1>8. Agreeing(c)
  BY <1>3, <1>6, NothingCached, Zenon DEF Agreeing
<1>9. \A i \in 1 .. Len(ks) : ~Unfaithful(ks[i])
  BY Zenon DEF ks
<1>10. g \in Cursors(IDs) /\ Len(g.found) = Len(c.found) + Len(ks)
  BY <1>2, <1>4, <1>7, IdentifiedTyped, Zenon
<1>11. /\ Agreeing(g) /\ Extends(c.names, g.names)
       /\ \A j \in 1 .. Len(ks) : /\ g.found[j] \in 1 .. Len(g.names)
                                  /\ g.names[g.found[j]] = ks[j]
  BY <1>2, <1>4, <1>6, <1>7, <1>8, <1>9, IdentifiedAgrees, Zenon
<1>. HIDE DEF g
<1>12. g \in Cursors(IDs) /\ Sized(g, r)
  <2>1. Len(c.found) = 0 /\ Len(ks) \in Nat
    BY <1>2, <1>6
  <2>. QED
    BY <1>2, <1>10, <2>1 DEF Sized
<1>13. FoundFor(g, NamedKeys(k, r))
  BY <1>11, Zenon DEF FoundFor, ks
<1>14. Base \in Tables /\ Sound(Base) /\ Current(Base)
  BY <1>1, Zenon DEF Current
<1>15. Agreeing(g) /\ Extends(Base.names, g.names)
  BY <1>6, <1>11, Zenon DEF b
<1>16. w \in Tables
  BY <1>12, <1>14, WrittenTyped, Zenon
<1>17. Sound(w)
  BY <1>12, <1>13, <1>14, <1>15, WrittenSound, Zenon
<1>18. w.schema = Base.schema /\ w.names = g.names /\ w.iteration = n
  BY Zenon DEF Written, TablesOf
<1>. HIDE DEF w
<1>19. w.schema = "current" /\ w.iteration = n /\ Extends(file.names, w.names)
  BY <1>1, <1>15, <1>18, Zenon
<1>. QED
  BY <1>1, <1>16, <1>17, <1>19, Zenon DEF w, g, c, b, ks, OtherAt

\* The file another process leaves, in these words.
LEMMA OtherSteps ==
    ASSUME NEW k \in Keys, NEW r \in Results, NEW n, OtherBuild(k, r, n),
           Base \in Tables
    PROVE  file' = Written(Base, OtherAt(NamedKeys(k, r)), r, n)
<1>1. file' = Rewritten(Base, OtherAt(NamedKeys(k, r)), r, n)
  BY Zenon DEF OtherBuild, OtherAt, Base, Rewritten
<1>2. Rewritten(Base, OtherAt(NamedKeys(k, r)), r, n)
         = Written(Base, OtherAt(NamedKeys(k, r)), r, n)
  BY RewritesAre, Zenon
<1>. QED
  BY <1>1, <1>2, Zenon

\* A build of another process keeps the invariant: no name is taken away.
LEMMA OtherBuildKeeps ==
    ASSUME SInv, ~void, UNCHANGED recreateOnUnmatchedVersion,
           NEW k \in Keys, NEW r \in Results, NEW n \in 1 .. MaxIteration,
           OtherBuild(k, r, n)
    PROVE  SInv'
<1>. DEFINE w == Written(Base, OtherAt(NamedKeys(k, r)), r, n)
<1>1. TypeOK /\ SoundInv /\ void = FALSE
  BY TypesAre, Zenon DEF SInv
<1>2. n \in 0 .. MaxIteration
  OBVIOUS
<1>3. /\ ~building /\ txn' = txn /\ building' = building /\ conn' = conn
      /\ dbKeyIDs' = dbKeyIDs /\ engineKeyIDs' = engineKeyIDs /\ void' = void
      /\ recreateOnUnmatchedVersion' = recreateOnUnmatchedVersion
      /\ \A i \in 1 .. Len(NamedKeys(k, r)) : ~Unfaithful(NamedKeys(k, r)[i])
  BY Zenon DEF OtherBuild, caches
<1>4. /\ Base \in Tables /\ w \in Tables /\ Sound(w) /\ w.schema = "current"
      /\ Extends(file.names, w.names)
  BY <1>1, <1>2, <1>3, OtherSound, Zenon
<1>5. file' = w
  BY <1>4, OtherSteps, Zenon
<1>. HIDE DEF w
<1>6. /\ recreateOnUnmatchedVersion' \in BOOLEAN /\ void' \in BOOLEAN
      /\ txn' \in Tables /\ conn' \in Conns /\ building' \in BOOLEAN
      /\ dbKeyIDs' \in CachedIDs /\ engineKeyIDs' \in CachedKeys
  BY <1>1, <1>3, TypesAre, Zenon
<1>7. file' \in Tables /\ Sound(file') /\ file'.schema = "current"
  BY <1>4, <1>5, Zenon
<1>8. ~building'
  BY <1>3, Zenon
<1>9. Sound(txn) /\ txn = NoFile /\ Agrees(file.names, dbKeyIDs, engineKeyIDs)
  BY <1>1, <1>3, Zenon DEF SoundInv, ConnectionInv, ConnView
<1>10. file.names \in KeyNames /\ w.names \in KeyNames
  BY <1>1, <1>4, TypesAre, TablesAre, Zenon
<1>11. Agrees(w.names, dbKeyIDs, engineKeyIDs)
  BY <1>4, <1>9, <1>10, MoreNamesAgree, Zenon
<1>12. Agrees(file'.names, dbKeyIDs', engineKeyIDs')
  BY <1>3, <1>5, <1>11, Zenon
<1>13. Sound(txn') /\ txn' = NoFile
  BY <1>3, <1>9, Zenon
<1>. QED
  BY <1>6, <1>7, <1>8, <1>12, <1>13, InvFrom, Zenon

\* Every step of the database and of other processes keeps the invariant.
LEMMA StepKeeps ==
    ASSUME SInv, [Next]_vars
    PROVE  SInv'
<1>1. CASE UNCHANGED vars
  <2>1. UNCHANGED <<recreateOnUnmatchedVersion, file, txn, building, conn,
                    dbKeyIDs, engineKeyIDs, void>>
    BY <1>1, Zenon DEF vars, tables, caches
  <2>. QED
    BY <2>1, ZenonT(60) DEF SInv, TypeOK, SoundInv, Sound, ConnectionInv, ConnView,
       Agrees, Contents, NoFile, NoRow, DecodedRow, Faithful, Unfaithful
<1>2. ASSUME Next PROVE SInv'
  <2>1. ~void /\ UNCHANGED recreateOnUnmatchedVersion
    BY <1>2, Zenon DEF Next
  <2>2. CASE OpenFails \/ GetKeys \/ GetCurrentEpoch
    BY <2>1, <2>2, PlainReadsKeep, Zenon
  <2>3. CASE NullStatement \/ ProcessEnds
    BY <2>1, <2>3, EndKeeps, Zenon DEF NullStatement
  <2>4. CASE BuildStarted
    BY <2>1, <2>4, StartKeeps, Zenon
  <2>5. CASE BuildComplete
    BY <2>1, <2>5, CompleteKeeps, Zenon
  <2>6. CASE GetKeysWithResult
    BY <2>1, <2>6, ListKeeps, Zenon
  <2>7. CASE OtherVersion
    BY <2>1, <2>7, OtherVersionKeeps, Zenon
  <2>8. ASSUME NEW n \in 1 .. MaxIteration, SetCurrentIteration(n) PROVE SInv'
    BY <2>1, <2>8, IterationKeeps, Zenon
  <2>9. ASSUME NEW k \in Keys, LookupRuleResult(k) PROVE SInv'
    BY <2>1, <2>9, LookupKeeps, Zenon
  <2>10. ASSUME NEW k \in Keys, NEW r \in Results, SetRuleResult(k, r)
         PROVE  SInv'
    BY <2>1, <2>10, SetKeeps, Zenon
  <2>11. ASSUME NEW k \in Keys, NEW r \in Results, NEW n \in 1 .. MaxIteration,
                OtherBuild(k, r, n)
         PROVE  SInv'
    BY <2>1, <2>11, OtherBuildKeeps, Zenon
  <2>. QED
    BY <1>2, <2>2, <2>3, <2>4, <2>5, <2>6, <2>7, <2>8, <2>9, <2>10, <2>11, Zenon
       DEF Next
<1>. QED
  BY <1>1, <1>2, Zenon

\* The tables, the caches and the connection are as SInv says in every state of
\* the database (lib/Core/SQLiteBuildDB.cpp).
THEOREM InvariantHolds == Spec => []SInv
<1>1. Init => SInv
  BY Initially, Zenon
<1>2. SInv /\ [Next]_vars => SInv'
  BY StepKeeps, Zenon
<1>. QED
  BY <1>1, <1>2, PTL DEF Spec

\* The variables keep their types, with every ID within the number of keys
\* although IDs are given out by insertion: no key is ever inserted twice.
THEOREM TypesHold == Spec => []TypeOK
<1>1. SInv => TypeOK
  BY Zenon DEF SInv
<1>. QED
  BY <1>1, InvariantHolds, PTL

\* getKeyID and getKeyIDForID can trust the caches, for any keys and results:
\* see CachesAgree.
THEOREM CachesHold == Spec => []CachesAgree
<1>1. SInv => CachesAgree
  BY Zenon DEF SInv, SoundInv, Agrees, CachesAgree
<1>. QED
  BY <1>1, InvariantHolds, PTL

\* rule_results and its blobs refer to names that exist, for any keys and
\* results: see ReferencesResolve.
THEOREM ReferencesHold == Spec => []ReferencesResolve
<1>1. SInv => ReferencesResolve
  <2>. SUFFICES ASSUME SInv, ~void, NEW c \in {file, txn}
                PROVE  \A i \in IDs : c.rows[i] # NoRow =>
                          /\ i \in 1 .. Len(c.names)
                          /\ \A d \in 1 .. Len(c.rows[i].deps) :
                                DecodedID(c.rows[i].deps[d]) \in 1 .. Len(c.names)
    BY Zenon DEF ReferencesResolve
  <2>1. Sound(c)
    BY Zenon DEF SInv, SoundInv
  <2>. QED
    BY <2>1, Zenon DEF Sound
<1>. QED
  BY <1>1, InvariantHolds, PTL

-----------------------------------------------------------------------------
(***************************************************************************)
(* The refinement: every step of the database is a step of ResultStore on  *)
(* what the file and the transaction mean.                                 *)
(***************************************************************************)
\* What tables mean depends on nothing else.
LEMMA MeaningNext == Meaning(file)' = Meaning(file') /\ Meaning(txn)' = Meaning(txn')
BY Zenon DEF Meaning, NamedID, Unfaithful, Decode, Decoded, DecodedID, NoRow

\* A database without a file means nothing, which is where ResultStore starts.
LEMMA InitMaps ==
    ASSUME Init
    PROVE  BuildDB!Init
<1>1. /\ file = NoFile /\ txn = NoFile /\ building = FALSE /\ void = FALSE
      /\ answer = Done
  BY Zenon DEF Init
<1>2. Meaning(NoFile) = Empty
  BY EmptyMeans, Zenon DEF NoFile
<1>. QED
  BY <1>1, <1>2, Zenon DEF BuildDB!Init, BuildDB!Empty, Empty, BuildDB!Done, Done

Unmoved == /\ Meaning(file') = Meaning(file) /\ Meaning(txn') = Meaning(txn)
           /\ building' = building /\ void' = void

\* A call that fails and changes nothing of what is stored is a step that reads.
LEMMA FailureMaps ==
    ASSUME Unmoved, answer' \in {Done, Failed}
    PROVE  BuildDB!Next
<1>1. /\ Meaning(file)' = Meaning(file) /\ Meaning(txn)' = Meaning(txn)
      /\ building' = building /\ void' = void
  BY MeaningNext, Zenon DEF Unmoved
<1>2. answer' \in {BuildDB!Done, BuildDB!Failed}
  BY Zenon DEF BuildDB!Done, BuildDB!Failed, Done, Failed
<1>3. BuildDB!Read
  BY <1>1, <1>2, Zenon DEF BuildDB!Read
<1>. QED
  BY <1>3, Zenon DEF BuildDB!Next

\* Where the promises are let go nothing is asked of the step.
LEMMA VoidMaps ==
    ASSUME void'
    PROVE  BuildDB!Next
BY Zenon DEF BuildDB!Next

\* open() changes nothing of what is stored.
LEMMA OpenedUnmoved ==
    ASSUME TypeOK, SoundInv, NEW o \in OpenOutcomes, Opened(o),
           UNCHANGED <<txn, building, void>>
    PROVE  Unmoved
<1>1. file' = o.file /\ txn' = txn /\ building' = building /\ void' = void
  BY Zenon DEF Opened
<1>2. Meaning(o.file) = Meaning(file)
  BY OpeningSound, Zenon
<1>. QED
  BY <1>1, <1>2, Zenon DEF Unmoved

\* The parts of a meaning, and its type.
LEMMA MeaningParts ==
    ASSUME NEW c \in Tables, Sound(c)
    PROVE  /\ \A k \in Keys : Meaning(c).results[k] = ResultOf(c, k)
           /\ c.schema # "other" => Meaning(c).iteration = c.iteration
           /\ Meaning(c) \in BuildDB!Contents
<1>. DEFINE rs == [k \in Keys |-> ResultOf(c, k)]
            n == IF c.schema = "other" THEN 0 ELSE c.iteration
<1>1. Meaning(c) = [results |-> rs, iteration |-> n]
  BY MeaningIs, Zenon
<1>2. \A k \in Keys : ResultOf(c, k) \in Results \cup {NoResult}
  BY ResultAt, Zenon
<1>3. rs \in [Keys -> Results \cup {NoResult}]
  BY <1>2, Zenon
<1>4. n \in 0 .. MaxIteration
  <2>1. c.iteration \in 0 .. MaxIteration
    BY TablesAre, Zenon
  <2>. QED
    BY <2>1, SQLiteAssumption
<1>5. \A k \in Keys : rs[k] = ResultOf(c, k)
  BY Zenon
<1>6. c.schema # "other" => n = c.iteration
  BY Zenon
<1>. HIDE DEF rs, n
<1>7. Meaning(c).results = rs /\ Meaning(c).iteration = n
  BY <1>1
<1>8. [results |-> rs, iteration |-> n] \in BuildDB!Contents
  BY <1>3, <1>4, Zenon DEF BuildDB!Contents
<1>. QED
  BY <1>1, <1>5, <1>6, <1>7, <1>8, Zenon

\* A call that reads answers from what the connection sees.
LEMMA ReadMaps ==
    ASSUME TypeOK, SoundInv, NEW o \in OpenOutcomes, Opened(o),
           UNCHANGED <<txn, building, void>>,
           \/ answer' \in {Done, Failed}
           \/ answer' = Epoch(Meaning(View(o)).iteration)
           \/ \E k \in Keys : answer' = Found(k, Meaning(View(o)).results[k])
           \/ \E l \in [Keys -> Results \cup {NoResult}] :
                 /\ \A k \in Keys :
                       l[k] \in {Meaning(View(o)).results[k], NoResult}
                 /\ answer' = Listed(l)
    PROVE  BuildDB!Next
<1>. DEFINE m == Meaning(View(o))
<1>1. Unmoved
  BY OpenedUnmoved, Zenon
<1>2. /\ Meaning(file)' = Meaning(file) /\ Meaning(txn)' = Meaning(txn)
      /\ building' = building /\ void' = void
  BY <1>1, MeaningNext, Zenon DEF Unmoved
<1>3. BuildDB!View = m
  <2>1. m = Meaning(ConnView)
    BY ViewIs, Zenon
  <2>2. BuildDB!View = Meaning(ConnView)
    BY Zenon DEF BuildDB!View, ConnView
  <2>. QED
    BY <2>1, <2>2, Zenon
<1>4. CASE answer' \in {Done, Failed}
  BY <1>1, <1>4, FailureMaps, Zenon
<1>. HIDE DEF m
<1>5. ASSUME answer' \in {BuildDB!Found(k, m.results[k]) : k \in Keys}
                \cup {BuildDB!Listed(l) : l \in BuildDB!Listable}
                \cup {BuildDB!Epoch(m.iteration)}
      PROVE  BuildDB!Next
  <2>1. BuildDB!Read
    BY <1>2, <1>3, <1>5, Zenon DEF BuildDB!Read
  <2>. QED
    BY <2>1, Zenon DEF BuildDB!Next
<1>6. CASE answer' = Epoch(m.iteration)
  BY <1>5, <1>6, Zenon DEF Epoch, BuildDB!Epoch
<1>7. CASE \E k \in Keys : answer' = Found(k, m.results[k])
  BY <1>5, <1>7, Zenon DEF Found, BuildDB!Found
<1>8. ASSUME NEW l \in [Keys -> Results \cup {NoResult}],
             \A k \in Keys : l[k] \in {m.results[k], NoResult},
             answer' = Listed(l)
      PROVE  BuildDB!Next
  <2>1. l \in BuildDB!Listable
    BY <1>3, <1>8, Zenon DEF BuildDB!Listable
  <2>2. answer' = BuildDB!Listed(l)
    BY <1>8, Zenon DEF Listed, BuildDB!Listed
  <2>. QED
    BY <1>5, <2>1, <2>2, Zenon
<1>. QED
  BY <1>4, <1>6, <1>7, <1>8, Zenon DEF m

\* getCurrentEpoch reads the iteration, of tables of this version.
LEMMA EpochMaps ==
    ASSUME SInv, ~void, GetCurrentEpoch
    PROVE  BuildDB!Next
<1>1. TypeOK /\ SoundInv /\ void = FALSE
  BY TypesAre, Zenon DEF SInv
<1>2. PICK o \in OpenOutcomes :
         /\ Opened(o) /\ UNCHANGED <<txn, building>>
         /\ \/ /\ answer' = Epoch(View(o).iteration)
               /\ void' = (void \/ View(o).schema = "other")
            \/ answer' = Failed /\ void' = void
  BY Zenon DEF GetCurrentEpoch
<1>3. CASE void'
  BY <1>3, VoidMaps, Zenon
<1>4. CASE ~void'
  <2>1. View(o) \in Tables /\ Sound(View(o))
    BY <1>1, ViewIs, Zenon
  <2>2. View(o).schema # "other" =>
           Meaning(View(o)).iteration = View(o).iteration
    BY <2>1, MeaningParts, Zenon
  <2>3. void' = void
    BY <1>1, <1>2, <1>4, Zenon
  <2>4. answer' = Failed \/ answer' = Epoch(Meaning(View(o)).iteration)
    BY <1>2, <1>4, <2>2, Zenon
  <2>5. UNCHANGED <<txn, building, void>>
    BY <1>2, <2>3, Zenon
  <2>. QED
    BY <1>1, <1>2, <2>4, <2>5, ReadMaps, Zenon
<1>. QED
  BY <1>3, <1>4, Zenon

\* lookupRuleResult gives the result of the key or fails.
LEMMA LookupMaps ==
    ASSUME SInv, ~void, NEW k \in Keys, LookupRuleResult(k)
    PROVE  BuildDB!Next
<1>1. TypeOK /\ SoundInv /\ void = FALSE
  BY TypesAre, Zenon DEF SInv
<1>2. PICK o \in OpenOutcomes :
         /\ Opened(o) /\ UNCHANGED <<txn, building>>
         /\ void' = (void \/ Unfaithful(k))
         /\ \/ /\ LookupRow(o, k) = NoRow
               /\ answer' = Found(k, NoResult)
            \/ /\ LookupRow(o, k) # NoRow
               /\ answer' = Found(k, Decode(LookupRow(o, k),
                               LookupAt(o, k, Len(LookupRow(o, k).deps)).found))
            \/ answer' = Failed
  BY LookupSteps, Zenon
<1>3. CASE Unfaithful(k)
  <2>1. void'
    BY <1>2, <1>3, Zenon
  <2>. QED
    BY <2>1, VoidMaps, Zenon
<1>4. CASE ~Unfaithful(k)
  <2>1. View(o) \in Tables /\ Sound(View(o))
    BY <1>1, ViewIs, Zenon
  <2>2. Meaning(View(o)).results[k] = ResultOf(View(o), k)
    BY <2>1, MeaningParts, Zenon
  <2>. DEFINE x == Decode(LookupRow(o, k),
                          LookupAt(o, k, Len(LookupRow(o, k).deps)).found)
  <2>3. /\ LookupRow(o, k) = NoRow => ResultOf(View(o), k) = NoResult
        /\ LookupRow(o, k) # NoRow => ResultOf(View(o), k) = x
    BY <1>1, <1>4, LookupSound, Zenon
  <2>4. void' = void
    BY <1>1, <1>2, <1>4, Zenon DEF Unfaithful
  <2>5. UNCHANGED <<txn, building, void>>
    BY <1>2, <2>4, Zenon
  <2>6. \/ LookupRow(o, k) = NoRow /\ answer' = Found(k, NoResult)
        \/ LookupRow(o, k) # NoRow /\ answer' = Found(k, x)
        \/ answer' = Failed
    BY <1>2, Zenon
  <2>. HIDE DEF x
  <2>7. answer' = Failed \/ answer' = Found(k, Meaning(View(o)).results[k])
    BY <2>2, <2>3, <2>6, Zenon
  <2>. QED
    BY <1>1, <1>2, <2>5, <2>7, ReadMaps, Zenon
<1>. QED
  BY <1>3, <1>4, Zenon

\* A list of results has results of the database only, and none that a row
\* other than the key's has.
LEMMA ListedSound ==
    ASSUME TypeOK, SoundInv, NEW o \in OpenOutcomes,
           NEW n \in 0 .. Len(View(o).names)
    PROVE  LET l == ListedTo(View(o), n, Listing(View(o), n))
           IN  /\ l \in [Keys -> Results \cup {NoResult}]
               /\ \A k \in Keys :
                     l[k] \in {Meaning(View(o)).results[k], NoResult}
<1>. DEFINE v == View(o)
            c == Listing(v, n)
            l == ListedTo(v, n, c)
<1>1. v \in Tables /\ Sound(v) /\ Agreeing(Cursor(v.names))
  BY ViewIs, Zenon
<1>2. v.names \in KeyNames
  BY <1>1, TablesAre, Zenon
<1>. HIDE DEF v
<1>3. n \in 0 .. Len(v.names)
  BY Zenon DEF v
<1>4. /\ c \in Cursors(KeysFound) /\ c.names = v.names /\ Agreeing(c)
  BY <1>1, <1>3, TypesAre, ListingIs, Zenon
<1>. HIDE DEF c
<1>5. ASSUME NEW id \in IDs, id \in 1 .. Len(v.names)
      PROVE  KeyOf(c, id) = v.names[id]
  BY <1>4, <1>5, Zenon DEF KeyOf, Agreeing, Agrees
<1>6. ASSUME NEW k \in Keys PROVE l[k] \in {ResultOf(v, k), NoResult}
  <2>. DEFINE ids == {i \in 1 .. n : v.names[i] = k /\ v.rows[i] # NoRow}
              i == CHOOSE i \in ids : TRUE
              keys == [d \in 1 .. Len(v.rows[i].deps) |->
                          KeyOf(c, DecodedID(v.rows[i].deps[d]))]
  <2>1. l[k] = IF ids = {} THEN NoResult ELSE Decode(v.rows[i], keys)
    BY <1>6, Zenon DEF ListedTo
  <2>2. ASSUME ids # {} PROVE Decode(v.rows[i], keys) = ResultOf(v, k)
    <3>1. i \in ids
      BY <2>2, Zenon
    <3>. HIDE DEF i
    <3>2. i \in 1 .. n /\ v.names[i] = k /\ v.rows[i] # NoRow
      BY <3>1, Zenon
    <3>3. i \in 1 .. Len(v.names) /\ i \in IDs
      <4>1. i \in 1 .. Len(v.names)
        BY <1>2, <1>3, <3>2, NamesAre
      <4>. QED
        BY <1>2, <4>1, NamesAre, Zenon
    <3>4. ResultOf(v, k) = IF v.rows[i] = NoRow THEN NoResult
                           ELSE DecodedRow(v, i)
      BY <1>1, <3>2, <3>3, ResultAt, Zenon
    <3>5. ResultOf(v, k) = DecodedRow(v, i)
      BY <3>2, <3>4, Zenon
    <3>. DEFINE f == [d \in 1 .. Len(v.rows[i].deps) |->
                         v.names[DecodedID(v.rows[i].deps[d])]]
    <3>6. \A d \in 1 .. Len(v.rows[i].deps) : keys[d] = f[d]
      <4>1. v.rows[i].deps \in Blobs
        BY <1>1, <3>3, TablesAre, Zenon
      <4>2. \A d \in 1 .. Len(v.rows[i].deps) :
               DecodedID(v.rows[i].deps[d]) \in IDs
        BY <4>1, BlobsAre, Zenon
      <4>3. \A d \in 1 .. Len(v.rows[i].deps) :
               DecodedID(v.rows[i].deps[d]) \in 1 .. Len(v.names)
        BY <1>1, <3>2, <3>3, Zenon DEF Sound
      <4>. QED
        BY <1>5, <4>2, <4>3, Zenon
    <3>7. DecodedRow(v, i) = Decode(v.rows[i], f)
      BY Zenon DEF DecodedRow
    <3>. HIDE DEF keys, f
    <3>8. Decode(v.rows[i], keys) = Decode(v.rows[i], f)
      BY <3>6, DecodeSame, Zenon
    <3>. QED
      BY <3>5, <3>7, <3>8, Zenon
  <2>. HIDE DEF l, keys, i, ids
  <2>. QED
    BY <2>1, <2>2, Zenon
<1>7. \A k \in Keys : /\ ResultOf(v, k) \in Results \cup {NoResult}
                      /\ Meaning(v).results[k] = ResultOf(v, k)
  BY <1>1, ResultAt, MeaningParts, Zenon
<1>8. l = [k \in Keys |-> l[k]]
  <2>. DEFINE ids(k) == {i \in 1 .. n : v.names[i] = k /\ v.rows[i] # NoRow}
              row(k) == v.rows[CHOOSE i \in ids(k) : TRUE]
              listed(k) == IF ids(k) = {} THEN NoResult
                           ELSE Decode(row(k),
                                       [i \in 1 .. Len(row(k).deps) |->
                                           KeyOf(c, DecodedID(row(k).deps[i]))])
  <2>1. l = [k \in Keys |-> listed(k)]
    BY Zenon DEF ListedTo
  <2>. HIDE DEF l, listed
  <2>. QED
    BY <2>1, Zenon
<1>. HIDE DEF l
<1>9. \A k \in Keys : l[k] \in Results \cup {NoResult}
  BY <1>6, <1>7, Zenon
<1>10. l \in [Keys -> Results \cup {NoResult}]
  <2>1. [k \in Keys |-> l[k]] \in [Keys -> Results \cup {NoResult}]
    BY <1>9, Zenon
  <2>. QED
    BY <1>8, <2>1, Zenon
<1>11. \A k \in Keys : l[k] \in {Meaning(v).results[k], NoResult}
  BY <1>6, <1>7, Zenon
<1>. QED
  BY <1>10, <1>11, Zenon DEF l, c, v

\* getKeysWithResult lists some of what is stored, or fails.
LEMMA ListMaps ==
    ASSUME SInv, ~void, GetKeysWithResult
    PROVE  BuildDB!Next
<1>1. TypeOK /\ SoundInv /\ void = FALSE
  BY TypesAre, Zenon DEF SInv
<1>2. PICK o \in OpenOutcomes :
         /\ Opened(o) /\ UNCHANGED <<txn, building, void>>
         /\ \/ \E n \in 0 .. Len(View(o).names) :
                  answer' = Listed(ListedTo(View(o), n, Listing(View(o), n)))
            \/ answer' = Failed
  BY Zenon DEF GetKeysWithResult
<1>3. CASE answer' = Failed
  BY <1>1, <1>2, <1>3, ReadMaps, Zenon
<1>4. ASSUME NEW n \in 0 .. Len(View(o).names),
             answer' = Listed(ListedTo(View(o), n, Listing(View(o), n)))
      PROVE  BuildDB!Next
  <2>. DEFINE l == ListedTo(View(o), n, Listing(View(o), n))
  <2>1. /\ l \in [Keys -> Results \cup {NoResult}]
        /\ \A k \in Keys : l[k] \in {Meaning(View(o)).results[k], NoResult}
    BY <1>1, ListedSound, Zenon
  <2>2. answer' = Listed(l)
    BY <1>4, Zenon
  <2>. HIDE DEF l
  <2>. QED
    BY <1>1, <1>2, <2>1, <2>2, ReadMaps, Zenon
<1>. QED
  BY <1>2, <1>3, <1>4, Zenon

WithResult(m, k, r) == [m EXCEPT !.results[k] = r]
WithIteration(m, n) == [m EXCEPT !.iteration = n]
SameResults(d, c) == \A j \in Keys : ResultOf(d, j) = ResultOf(c, j)
SameIteration(d, c) == d.iteration = c.iteration

\* The meaning of tables of this version.
LEMMA CurrentMeans ==
    ASSUME NEW c, Current(c)
    PROVE  Meaning(c) = [results |-> [j \in Keys |-> ResultOf(c, j)],
                         iteration |-> c.iteration]
<1>. DEFINE rs == [j \in Keys |-> ResultOf(c, j)]
<1>1. Meaning(c) = [results |-> rs,
                    iteration |-> IF c.schema = "other" THEN 0 ELSE c.iteration]
  BY MeaningIs, Zenon
<1>2. c.schema # "other"
  BY Zenon DEF Current
<1>. HIDE DEF rs
<1>3. Meaning(c) = [results |-> rs, iteration |-> c.iteration]
  BY <1>1, <1>2, Zenon
<1>. QED
  BY <1>3, Zenon DEF rs

\* Tables that mean the same but for a result.
LEMMA MeaningSet ==
    ASSUME NEW c, NEW d, Current(c), Current(d), NEW k \in Keys, NEW r,
           Replaces(d, c, k, r), SameIteration(d, c)
    PROVE  Meaning(d) = WithResult(Meaning(c), k, r)
<1>. DEFINE rs == [j \in Keys |-> ResultOf(c, j)]
            e == [rs EXCEPT ![k] = r]
            ss == [j \in Keys |-> ResultOf(d, j)]
            m == c.iteration
            n == d.iteration
<1>1. Meaning(c) = [results |-> rs, iteration |-> m]
  BY CurrentMeans, Zenon
<1>2. Meaning(d) = [results |-> ss, iteration |-> n]
  BY CurrentMeans, Zenon
<1>3. ss = e
  BY Zenon DEF Replaces
<1>4. n = m
  BY Zenon DEF SameIteration
<1>. HIDE DEF rs, ss, m, n
<1>5. Meaning(c).results = rs
  BY <1>1
<1>6. WithResult(Meaning(c), k, r) = [Meaning(c) EXCEPT !.results = e]
  BY <1>5, Zenon DEF WithResult
<1>. HIDE DEF e
<1>7. [Meaning(c) EXCEPT !.results = e] = [results |-> e, iteration |-> m]
  BY <1>1
<1>8. Meaning(d) = [results |-> e, iteration |-> m]
  BY <1>2, <1>3, <1>4, Zenon
<1>. QED
  BY <1>6, <1>7, <1>8, Zenon

\* Tables that mean the same but for the iteration.
LEMMA MeaningIterated ==
    ASSUME NEW c, NEW d, Current(c), Current(d), SameResults(d, c)
    PROVE  /\ Meaning(d) = WithIteration(Meaning(c), d.iteration)
           /\ SameIteration(d, c) => Meaning(d) = Meaning(c)
<1>. DEFINE rs == [j \in Keys |-> ResultOf(c, j)]
            ss == [j \in Keys |-> ResultOf(d, j)]
            m == c.iteration
            n == d.iteration
<1>1. Meaning(c) = [results |-> rs, iteration |-> m]
  BY CurrentMeans, Zenon
<1>2. Meaning(d) = [results |-> ss, iteration |-> n]
  BY CurrentMeans, Zenon
<1>3. ss = rs
  BY Zenon DEF SameResults
<1>. HIDE DEF rs, ss, m, n
<1>4. Meaning(d) = WithIteration(Meaning(c), n)
  BY <1>1, <1>2, <1>3 DEF WithIteration
<1>5. n = m => Meaning(d) = Meaning(c)
  BY <1>1, <1>2, <1>3, Zenon
<1>. QED
  BY <1>4, <1>5, Zenon DEF n, m, SameIteration

\* setCurrentIteration sets the iteration of the transaction, or fails.
LEMMA IterationMaps ==
    ASSUME SInv, ~void, NEW n \in 1 .. MaxIteration, SetCurrentIteration(n)
    PROVE  BuildDB!Next
<1>. DEFINE t == [txn EXCEPT !.iteration = n]
<1>1. TypeOK /\ SoundInv /\ void = FALSE /\ txn \in Tables /\ Sound(txn)
  BY TypesAre, Zenon DEF SInv, SoundInv
<1>2. /\ building /\ building' = building /\ file' = file
      /\ \/ /\ txn.schema # "none" /\ txn' = t /\ answer' = Done
            /\ void' = (void \/ txn.schema = "other")
         \/ txn' = txn /\ void' = void /\ answer' = Failed
  BY Zenon DEF SetCurrentIteration
<1>3. CASE void'
  BY <1>3, VoidMaps, Zenon
<1>4. CASE txn' = txn /\ void' = void /\ answer' = Failed
  BY <1>2, <1>4, FailureMaps, Zenon DEF Unmoved
<1>5. ASSUME ~void', txn.schema # "none", txn' = t, answer' = Done,
             void' = (void \/ txn.schema = "other")
      PROVE  BuildDB!Next
  <2>1. txn.schema = "current"
    <3>1. txn.schema \in {"none", "current", "other"}
      BY <1>1, TablesAre, Zenon
    <3>. QED
      BY <1>5, <3>1, Zenon
  <2>2. n \in 0 .. MaxIteration
    OBVIOUS
  <2>3. /\ t \in Tables /\ t.schema = txn.schema /\ t.iteration = n
        /\ SameResults(t, txn)
    BY <1>1, <2>2, IterationSound, Zenon DEF SameResults
  <2>4. Current(txn) /\ Current(t)
    BY <2>1, <2>3, Zenon DEF Current
  <2>. HIDE DEF t
  <2>5. Meaning(t) = WithIteration(Meaning(txn), t.iteration)
    BY <2>3, <2>4, MeaningIterated, Zenon
  <2>6. Meaning(t) = WithIteration(Meaning(txn), n)
    BY <2>3, <2>5, Zenon
  <2>7. /\ Meaning(file)' = Meaning(file) /\ building' = building
        /\ Meaning(txn)' = WithIteration(Meaning(txn), n)
        /\ void' = void
    BY <1>1, <1>2, <1>5, <2>6, MeaningNext, Zenon
  <2>8. BuildDB!SetIteration(n)
    BY <1>2, <1>5, <2>7, Zenon
       DEF BuildDB!SetIteration, WithIteration, BuildDB!Done, Done
  <2>. QED
    BY <2>2, <2>8, Zenon DEF BuildDB!Next
<1>. QED
  BY <1>2, <1>3, <1>4, <1>5, Zenon

\* setRuleResult sets the result of its key, or fails and changes no result.
LEMMA SetMaps ==
    ASSUME SInv, ~void, NEW k \in Keys, NEW r \in Results, SetRuleResult(k, r)
    PROVE  BuildDB!Next
<1>. DEFINE ks == NamedKeys(k, r)
            bad == \E i \in 1 .. Len(ks) : Unfaithful(ks[i])
            w == Written(txn, SetAt(ks, Len(ks)), r, txn.iteration)
<1>1. TypeOK /\ SoundInv /\ void = FALSE /\ txn \in Tables
  BY TypesAre, Zenon DEF SInv
<1>2. /\ building /\ conn = "open" /\ file' = file /\ building' = building
      /\ \/ txn' = w /\ answer' = Done /\ void' = (void \/ bad)
         \/ /\ \E n \in 0 .. Len(ks) : txn' = Grown(txn, SetAt(ks, n).names)
            /\ answer' = Failed /\ void' = (void \/ bad)
         \/ void' = TRUE
  BY <1>1, SetSteps, Zenon
<1>3. CASE void'
  BY <1>3, VoidMaps, Zenon
<1>4. Current(txn)
  BY <1>1, <1>2, Zenon DEF SoundInv, ConnectionInv, Current
<1>5. ASSUME ~void', txn' = w, answer' = Done, void' = (void \/ bad)
      PROVE  BuildDB!Next
  <2>1. ~bad
    BY <1>5, Zenon
  <2>2. w.schema = txn.schema /\ w.iteration = txn.iteration
    BY Zenon DEF Written, TablesOf
  <2>3. ~bad => Replaces(w, txn, k, r)
    BY <1>1, <1>2, StoresSound, Zenon
  <2>. HIDE DEF w, bad
  <2>4. Current(w) /\ SameIteration(w, txn) /\ Replaces(w, txn, k, r)
    BY <1>4, <2>1, <2>2, <2>3, Zenon DEF Current, SameIteration
  <2>5. Meaning(w) = WithResult(Meaning(txn), k, r)
    BY <1>4, <2>4, MeaningSet, Zenon
  <2>6. /\ Meaning(file)' = Meaning(file) /\ building' = building
        /\ Meaning(txn)' = WithResult(Meaning(txn), k, r)
    BY <1>2, <1>5, <2>5, MeaningNext, Zenon
  <2>7. void' = void
    BY <1>1, <1>5, <2>1, Zenon
  <2>8. BuildDB!Set(k, r)
    BY <1>2, <1>5, <2>6, <2>7, Zenon
       DEF BuildDB!Set, WithResult, BuildDB!Done, Done
  <2>. QED
    BY <2>8, Zenon DEF BuildDB!Next
<1>6. ASSUME ~void', NEW n \in 0 .. Len(ks),
             txn' = Grown(txn, SetAt(ks, n).names), answer' = Failed,
             void' = (void \/ bad)
      PROVE  BuildDB!Next
  <2>. DEFINE t == Grown(txn, SetAt(ks, n).names)
  <2>1. ~bad
    BY <1>6, Zenon
  <2>2. /\ t.schema = txn.schema /\ t.iteration = txn.iteration
        /\ ~bad => SameResults(t, txn)
    BY <1>1, <1>2, FailsSound, Zenon DEF SameResults
  <2>3. txn' = t
    BY <1>6, Zenon
  <2>. HIDE DEF t, bad
  <2>4. Meaning(t) = Meaning(txn)
    <3>1. Current(t) /\ SameIteration(t, txn) /\ SameResults(t, txn)
      BY <1>4, <2>1, <2>2, Zenon DEF Current, SameIteration
    <3>. QED
      BY <1>4, <3>1, MeaningIterated, Zenon
  <2>5. void' = void
    BY <1>1, <1>6, <2>1, Zenon
  <2>6. Unmoved
    BY <1>2, <2>3, <2>4, <2>5, Zenon DEF Unmoved
  <2>. QED
    BY <1>6, <2>6, FailureMaps, Zenon
<1>. QED
  BY <1>2, <1>3, <1>5, <1>6, Zenon

\* The end of the process loses the build in progress and nothing else.
LEMMA EndMaps ==
    ASSUME SInv, ProcessEnds
    PROVE  BuildDB!Next
<1>1. /\ txn' = NoFile /\ building' = FALSE /\ answer' = Done
      /\ file' = file /\ void' = void
  BY Zenon DEF ProcessEnds
<1>2. Meaning(NoFile) = Empty
  BY EmptyMeans, Zenon DEF NoFile
<1>3. Meaning(file)' = Meaning(file) /\ Meaning(txn)' = Empty
  BY <1>1, <1>2, MeaningNext, Zenon
<1>4. BuildDB!Lose
  BY <1>1, <1>3, Zenon DEF BuildDB!Lose, BuildDB!Empty, Empty, BuildDB!Done, Done
<1>. QED
  BY <1>4, Zenon DEF BuildDB!Next

\* buildStarted begins a build from what is saved, or fails.
LEMMA StartMaps ==
    ASSUME SInv, ~void, BuildStarted
    PROVE  BuildDB!Next
<1>1. TypeOK /\ SoundInv
  BY Zenon DEF SInv
<1>2. PICK o \in OpenOutcomes :
         /\ ~building /\ Opened(o)
         /\ \/ building' = TRUE /\ txn' = o.file /\ answer' = Done
            \/ answer' = Failed /\ UNCHANGED <<building, txn>>
         /\ void' = void
  BY Zenon DEF BuildStarted
<1>3. CASE answer' = Failed /\ UNCHANGED <<building, txn>>
  <2>1. UNCHANGED <<txn, building, void>>
    BY <1>2, <1>3, Zenon
  <2>. QED
    BY <1>1, <1>2, <1>3, <2>1, ReadMaps, Zenon
<1>4. CASE building' = TRUE /\ txn' = o.file /\ answer' = Done
  <2>1. Meaning(o.file) = Meaning(file)
    BY <1>1, OpeningSound, Zenon
  <2>2. file' = o.file
    BY <1>2, Zenon DEF Opened
  <2>3. Meaning(file)' = Meaning(file) /\ Meaning(txn)' = Meaning(file)
    BY <1>4, <2>1, <2>2, MeaningNext, Zenon
  <2>4. BuildDB!Begin
    BY <1>2, <1>4, <2>3, Zenon DEF BuildDB!Begin, BuildDB!Done, Done
  <2>. QED
    BY <2>4, Zenon DEF BuildDB!Next
<1>. QED
  BY <1>2, <1>3, <1>4, Zenon

\* buildComplete saves the build in progress as a whole.
LEMMA CompleteMaps ==
    ASSUME SInv, ~void, BuildComplete
    PROVE  BuildDB!Next
<1>1. /\ building /\ building' = FALSE /\ txn' = NoFile /\ answer' = Done
      /\ \/ file' = txn /\ void' = void
         \/ void' = TRUE
  BY Zenon DEF BuildComplete
<1>2. CASE void'
  BY <1>2, VoidMaps, Zenon
<1>3. CASE file' = txn /\ void' = void
  <2>1. Meaning(NoFile) = Empty
    BY EmptyMeans, Zenon DEF NoFile
  <2>2. Meaning(file)' = Meaning(txn) /\ Meaning(txn)' = Empty
    BY <1>1, <1>3, <2>1, MeaningNext, Zenon
  <2>3. BuildDB!Commit
    BY <1>1, <1>3, <2>2, Zenon
       DEF BuildDB!Commit, BuildDB!Empty, Empty, BuildDB!Done, Done
  <2>. QED
    BY <2>3, Zenon DEF BuildDB!Next
<1>. QED
  BY <1>1, <1>2, <1>3, Zenon

\* A file that is replaced between builds is whatever the other process left.
LEMMA ReplacedMaps ==
    ASSUME ~building, Meaning(file') \in BuildDB!Contents,
           UNCHANGED <<txn, building, void>>, answer' = Done
    PROVE  BuildDB!Next
<1>1. /\ Meaning(file)' \in BuildDB!Contents /\ Meaning(txn)' = Meaning(txn)
      /\ building' = building /\ void' = void
  BY MeaningNext, Zenon
<1>2. BuildDB!Replaced
  BY <1>1, Zenon DEF BuildDB!Replaced, BuildDB!Done, Done
<1>. QED
  BY <1>2, Zenon DEF BuildDB!Next

\* Another version leaves nothing.
LEMMA OtherVersionMaps ==
    ASSUME SInv, ~void, OtherVersion
    PROVE  BuildDB!Next
<1>1. TypeOK /\ SoundInv /\ void = FALSE
  BY TypesAre, Zenon DEF SInv
<1>2. CASE void'
  BY <1>2, VoidMaps, Zenon
<1>3. CASE ~void'
  <2>1. ~building
    BY <1>1, Zenon DEF OtherVersion, SoundInv, ConnectionInv
  <2>2. file' \in Tables /\ Sound(file')
    BY NoFileSound, ContentsSound, Zenon DEF OtherVersion
  <2>3. Meaning(file') \in BuildDB!Contents
    BY <2>2, MeaningParts, Zenon
  <2>4. void' = void
    BY <1>1, <1>3, Zenon DEF OtherVersion
  <2>5. UNCHANGED <<txn, building, void>> /\ answer' = Done
    BY <2>4, Zenon DEF OtherVersion
  <2>. QED
    BY <2>1, <2>3, <2>5, ReplacedMaps, Zenon
<1>. QED
  BY <1>2, <1>3, Zenon

\* Another build leaves results.
LEMMA OtherBuildMaps ==
    ASSUME SInv, ~void, NEW k \in Keys, NEW r \in Results,
           NEW n \in 1 .. MaxIteration, OtherBuild(k, r, n)
    PROVE  BuildDB!Next
<1>. DEFINE w == Written(Base, OtherAt(NamedKeys(k, r)), r, n)
<1>1. TypeOK /\ SoundInv
  BY Zenon DEF SInv
<1>2. n \in 0 .. MaxIteration
  OBVIOUS
<1>3. /\ ~building /\ UNCHANGED <<txn, building, void>> /\ answer' = Done
      /\ \A i \in 1 .. Len(NamedKeys(k, r)) : ~Unfaithful(NamedKeys(k, r)[i])
  BY Zenon DEF OtherBuild
<1>4. Base \in Tables /\ w \in Tables /\ Sound(w)
  BY <1>1, <1>2, <1>3, OtherSound, Zenon
<1>5. file' = w
  BY <1>4, OtherSteps, Zenon
<1>6. Meaning(w) \in BuildDB!Contents
  BY <1>4, MeaningParts, Zenon
<1>. HIDE DEF w
<1>. QED
  BY <1>3, <1>5, <1>6, ReplacedMaps, Zenon

\* Every step of the database is one of ResultStore, or leaves it as it was.
LEMMA StepMaps ==
    ASSUME SInv, [Next]_vars
    PROVE  [BuildDB!Next]_(BuildDB!vars)
<1>1. CASE UNCHANGED vars
  <2>1. /\ file' = file /\ txn' = txn /\ building' = building
        /\ answer' = answer /\ void' = void
    BY <1>1, Zenon DEF vars, tables
  <2>2. Meaning(file)' = Meaning(file) /\ Meaning(txn)' = Meaning(txn)
    BY <2>1, MeaningNext, Zenon
  <2>3. UNCHANGED BuildDB!vars
    BY <2>1, <2>2, Zenon DEF BuildDB!vars
  <2>. QED
    BY <2>3, Zenon
<1>2. ASSUME Next PROVE BuildDB!Next
  <2>1. ~void /\ TypeOK /\ SoundInv
    BY <1>2, Zenon DEF Next, SInv
  <2>2. CASE OpenFails \/ GetKeys
    <3>1. PICK o \in OpenOutcomes : /\ Opened(o) /\ answer' \in {Done, Failed}
                                    /\ UNCHANGED <<txn, building, void>>
      BY <2>2, Zenon DEF OpenFails, GetKeys
    <3>. QED
      BY <2>1, <3>1, ReadMaps, Zenon
  <2>3. CASE NullStatement \/ ProcessEnds
    BY <2>3, EndMaps, Zenon DEF NullStatement
  <2>4. CASE BuildStarted
    BY <2>1, <2>4, StartMaps, Zenon
  <2>5. CASE BuildComplete
    BY <2>1, <2>5, CompleteMaps, Zenon
  <2>6. CASE GetKeysWithResult
    BY <2>1, <2>6, ListMaps, Zenon
  <2>7. CASE GetCurrentEpoch
    BY <2>1, <2>7, EpochMaps, Zenon
  <2>8. CASE OtherVersion
    BY <2>1, <2>8, OtherVersionMaps, Zenon
  <2>9. ASSUME NEW n \in 1 .. MaxIteration, SetCurrentIteration(n)
        PROVE  BuildDB!Next
    BY <2>1, <2>9, IterationMaps, Zenon
  <2>10. ASSUME NEW k \in Keys, LookupRuleResult(k) PROVE BuildDB!Next
    BY <2>1, <2>10, LookupMaps, Zenon
  <2>11. ASSUME NEW k \in Keys, NEW r \in Results, SetRuleResult(k, r)
         PROVE  BuildDB!Next
    BY <2>1, <2>11, SetMaps, Zenon
  <2>12. ASSUME NEW k \in Keys, NEW r \in Results, NEW n \in 1 .. MaxIteration,
                OtherBuild(k, r, n)
         PROVE  BuildDB!Next
    BY <2>1, <2>12, OtherBuildMaps, Zenon
  <2>. QED
    BY <1>2, <2>2, <2>3, <2>4, <2>5, <2>6, <2>7, <2>8, <2>9, <2>10, <2>11,
       <2>12, Zenon DEF Next
<1>. QED
  BY <1>1, <1>2, Zenon

\* The database keeps the promise of BuildDB.h for any keys, results and column,
\* over failures of SQLite, crashes and builds of other processes: it implements
\* ResultStore, with what file and txn mean for saved and current.
THEOREM DatabaseImplements == Spec => ImplementsBuildDB
<1>1. Init => BuildDB!Init
  BY InitMaps, Zenon
<1>2. SInv /\ [Next]_vars => [BuildDB!Next]_(BuildDB!vars)
  BY StepMaps, Zenon
<1>. QED
  BY <1>1, <1>2, InvariantHolds, PTL DEF Spec, ImplementsBuildDB, BuildDB!Spec
==============================================================================
