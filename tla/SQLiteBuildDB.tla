---------------------------- MODULE SQLiteBuildDB ----------------------------
(***************************************************************************)
(* The SQLite build database (lib/Core/SQLiteBuildDB.cpp): the tables, the *)
(* transaction of a build, the lazily opened connection and the two caches *)
(* of key IDs, which live as long as the object, across connections.       *)
(*                                                                         *)
(* Every call holds dbMutex from beginning to end and is one step.  Any    *)
(* call into SQLite may fail.  The engine's key IDs and keys correspond    *)
(* one to one, and a key stands for both.  IDs of keys are given out in    *)
(* order and no key is ever deleted, so key_names is a sequence.           *)
(*                                                                         *)
(* void is set where the code lets the promises of the database go: the    *)
(* file is replaced, or the transaction rolled back, while the caches keep *)
(* the IDs of keys; the query for an ID fails and another ID is taken; the *)
(* column does not give back the key; a table of another version is used.  *)
(* A behaviour is followed up to that step.                                *)
(***************************************************************************)
EXTENDS Integers, Sequences, FiniteSets, Functions

CONSTANTS
    Keys,
    Results,             \* values with dependencies, in order
    NoResult, NoKey,
    Column,              \* what the column, declared STRING, keeps of a key:
                         \* a text that looks like a number becomes one
    MaxIteration         \* bound on iterations

MaxID == Cardinality(Keys)
IDs == 0 .. MaxID

Dependencies == [key : Keys, orderOnly : 0 .. 1, singleUse : 0 .. 1]

ASSUME SQLiteAssumption ==
    /\ IsFiniteSet(Keys) /\ NoKey \notin Keys /\ NoResult \notin Results
    /\ \A r \in Results : /\ r = [val |-> r.val, deps |-> r.deps]
                          /\ r.val # NoResult
                          /\ r.deps \in Seq(Dependencies)
    /\ Column \in [Keys -> Keys]
    /\ MaxIteration \in Nat

VARIABLES
    recreateOnUnmatchedVersion,
    file,                \* what is committed
    txn,                 \* what the open transaction has made of it
    building,            \* whether there is an open transaction
    conn,                \* db and the prepared statements
    dbKeyIDs, engineKeyIDs,
    answer,              \* what the last call returned
    void

tables == <<recreateOnUnmatchedVersion, file, txn, building>>
caches == <<dbKeyIDs, engineKeyIDs>>
vars == <<tables, conn, caches, answer, void>>

-----------------------------------------------------------------------------
NoRow == [val |-> NoResult, deps |-> <<>>]
Contents(schema) == [schema |-> schema, names |-> <<>>,
                     rows |-> [i \in IDs |-> NoRow], iteration |-> 0]
NoFile == Contents("none")
Fresh == Contents("current")

NoIDs == [k \in Keys |-> 0]
NoKeys == [i \in IDs |-> NoKey]

Failed == [call |-> "failed"]
Done == [call |-> "done"]
Found(k, r) == [call |-> "lookup", key |-> k, result |-> r]
Listed(results) == [call |-> "list", results |-> results]
Epoch(n) == [call |-> "epoch", value |-> n]

Init ==
    /\ recreateOnUnmatchedVersion \in BOOLEAN
    /\ file = NoFile /\ txn = NoFile
    /\ building = FALSE
    /\ conn = "closed"
    /\ dbKeyIDs = NoIDs /\ engineKeyIDs = NoKeys
    /\ answer = Done
    /\ void = FALSE

(***************************************************************************)
(* The process ends, in a crash or not: the connection rolls back and the  *)
(* caches are gone.                                                        *)
(***************************************************************************)
ProcessEnds ==
    /\ txn' = NoFile /\ building' = FALSE
    /\ conn' = "closed"
    /\ dbKeyIDs' = NoIDs /\ engineKeyIDs' = NoKeys
    /\ answer' = Done
    /\ UNCHANGED <<file, void>>

-----------------------------------------------------------------------------
(***************************************************************************)
(* open(): what can become of the connection and the file.  Only some ways *)
(* to fail close the connection again.  The others leave it without its    *)
(* prepared statements, and the next call takes it to be open.  A file of  *)
(* another version is removed and made anew; the caches are not.           *)
(***************************************************************************)
Outcome(c, f, ok) == [conn |-> c, file |-> f, ok |-> ok]

OpenOutcomes ==
    IF conn # "closed" THEN {Outcome(conn, file, TRUE)}
    ELSE {Outcome("unprepared", file, FALSE)} \cup
         IF file.schema = "current" THEN {Outcome("open", file, TRUE)}
         ELSE IF ~recreateOnUnmatchedVersion
         THEN {Outcome("closed", file, FALSE)}
         ELSE {Outcome("open", Fresh, TRUE),
               Outcome("unprepared", Fresh, FALSE),
               Outcome("closed", NoFile, FALSE),
               Outcome("closed", file, FALSE)}

Opened(o) == conn' = o.conn /\ file' = o.file

View(o) == IF building THEN txn ELSE o.file

OpenFails ==
    \E o \in OpenOutcomes :
        /\ ~o.ok
        /\ Opened(o)
        /\ answer' = Failed
        /\ UNCHANGED <<txn, building, caches, void>>

\* A call that uses a prepared statement the connection does not have.
NullStatement == conn = "unprepared" /\ ProcessEnds

-----------------------------------------------------------------------------
(***************************************************************************)
(* Keys and IDs.                                                           *)
(***************************************************************************)
\* Mutant of Encode: the ID is shifted by one bit only.
EncodeNarrow(id, d) == 2 * id + 2 * d.singleUse + d.orderOnly

Encode(id, d) == 4 * id + 2 * d.singleUse + d.orderOnly
DecodedID(raw) == raw \div 4
Decoded(k, raw) == [key |-> k, orderOnly |-> raw % 2,
                    singleUse |-> (raw \div 2) % 2]

\* The row of key_names a key is found in, or 0.
NamedID(names, k) ==
    LET found == {i \in 1 .. Len(names) : names[i] = Column[k]}
    IN  IF found = {} THEN 0 ELSE CHOOSE i \in found : TRUE

\* The column gives back another key than was put in.
Unfaithful(k) == Column[k] # k

\* What getKeyID and getKeyIDForID work on: the caches, key_names and the IDs
\* or keys found so far.
Cursor(names) == [names |-> names, db |-> dbKeyIDs, engine |-> engineKeyIDs,
                  found |-> <<>>]

Learn(c, k, id) ==
    IF id = 0 THEN [c EXCEPT !.found = Append(@, id)]
    ELSE [c EXCEPT !.db[k] = id, !.engine[id] = k, !.found = Append(@, id)]

\* Mutant of GetKeyID: the key is inserted without a search for it.
GetKeyIDUnsearched(c, k) ==
    IF c.db[k] # 0 THEN [c EXCEPT !.found = Append(@, c.db[k])]
    ELSE Learn([c EXCEPT !.names = Append(@, Column[k])], k, Len(c.names) + 1)

\* Mutant of GetKeyID: the row ID is read before the insert.
GetKeyIDEarly(c, k) ==
    LET known == NamedID(c.names, k)
    IN  IF c.db[k] # 0 THEN [c EXCEPT !.found = Append(@, c.db[k])]
        ELSE IF known # 0 THEN Learn(c, k, known)
        ELSE Learn([c EXCEPT !.names = Append(@, Column[k])], k, Len(c.names))

\* getKeyID: a key that has no row yet is given one.
GetKeyID(c, k) ==
    LET known == NamedID(c.names, k)
    IN  IF c.db[k] # 0 THEN [c EXCEPT !.found = Append(@, c.db[k])]
        ELSE IF known # 0 THEN Learn(c, k, known)
        ELSE Learn([c EXCEPT !.names = Append(@, Column[k])], k,
                   Len(c.names) + 1)

\* getKeyIDForID: the key found for an ID; NoKey if there is none.
KeyOf(c, id) ==
    IF c.engine[id] # NoKey THEN c.engine[id]
    ELSE IF id \in 1 .. Len(c.names) THEN c.names[id] ELSE NoKey

GetKeyIDForID(c, id) ==
    LET k == KeyOf(c, id)
    IN  IF c.engine[id] # NoKey \/ k = NoKey
        THEN [c EXCEPT !.found = Append(@, k)]
        ELSE [c EXCEPT !.engine[id] = k, !.db[k] = id, !.found = Append(@, k)]

\* getKeyID on the first n of some keys.
Identified(c, ks, n) ==
    LET at[i \in 0 .. Len(ks)] ==
            IF i = 0 THEN c ELSE GetKeyID(at[i - 1], ks[i])
    IN  at[n]

\* getKeyIDForID on the first n dependencies of a row.
Resolved(c, deps, n) ==
    LET at[i \in 0 .. Len(deps)] ==
            IF i = 0 THEN c
            ELSE GetKeyIDForID(at[i - 1], DecodedID(deps[i]))
    IN  at[n]

Cache(c) == dbKeyIDs' = c.db /\ engineKeyIDs' = c.engine

-----------------------------------------------------------------------------
(***************************************************************************)
(* Reading.                                                                *)
(***************************************************************************)
Decode(row, keys) ==
    [val |-> row.val,
     deps |-> [i \in 1 .. Len(row.deps) |-> Decoded(keys[i], row.deps[i])]]

\* Mutant of LookupRuleResult: a dependency that cannot be read ends the list
\* of dependencies, and the call succeeds.
LookupRuleResultShort(k) ==
    \E o \in OpenOutcomes :
        LET names == View(o).names
            id == IF dbKeyIDs[k] # 0 THEN dbKeyIDs[k] ELSE NamedID(names, k)
            row == View(o).rows[id]
        IN  /\ o.ok /\ o.conn = "open" /\ ~Unfaithful(k) /\ row # NoRow
            /\ Opened(o)
            /\ \E n \in 0 .. Len(row.deps) :
                  LET some == Resolved(Cursor(names), row.deps, n)
                  IN  /\ answer' = Found(k, Decode([row EXCEPT
                                       !.deps = SubSeq(@, 1, n)], some.found))
                      /\ Cache(some)
            /\ UNCHANGED <<txn, building, void>>

\* The first dependency that is not found, or is not cached and cannot be
\* read, ends the call with an error.  The others stay cached.
LookupRuleResult(k) ==
    \E o \in OpenOutcomes :
        LET names == View(o).names
            id == IF dbKeyIDs[k] # 0 THEN dbKeyIDs[k] ELSE NamedID(names, k)
            row == View(o).rows[id]
            start == IF dbKeyIDs[k] # 0 \/ row = NoRow THEN Cursor(names)
                     ELSE [Learn(Cursor(names), k, id) EXCEPT !.found = <<>>]
            at(n) == Resolved(start, row.deps, n)
            all == at(Len(row.deps))
        IN  /\ o.ok /\ o.conn = "open"
            /\ Opened(o)
            /\ void' = (void \/ Unfaithful(k))
            /\ \/ row = NoRow /\ answer' = Found(k, NoResult) /\ Cache(start)
               \/ /\ row # NoRow
                  /\ \A i \in 1 .. Len(row.deps) : all.found[i] # NoKey
                  /\ answer' = Found(k, Decode(row, all.found))
                  /\ Cache(all)
               \/ /\ row # NoRow
                  /\ answer' = Failed
                  /\ \E n \in 0 .. Len(row.deps) - 1 :
                        /\ at(n).engine[DecodedID(row.deps[n + 1])] = NoKey
                        /\ \A i \in 1 .. n : at(n).found[i] # NoKey
                        /\ Cache(at(n))
               \/ answer' = Failed /\ UNCHANGED caches
            /\ UNCHANGED <<txn, building>>

\* getKeysWithResult on the rows up to n.
NameRow(c, view, i) ==
    [Learn(c, view.names[i], i) EXCEPT !.found = <<>>]

ListRow(c, view, i) ==
    IF view.rows[i] = NoRow THEN c
    ELSE Resolved(NameRow(c, view, i), view.rows[i].deps,
                  Len(view.rows[i].deps))

Listing(view, n) ==
    LET at[i \in 0 .. Len(view.names)] ==
            IF i = 0 THEN Cursor(view.names) ELSE ListRow(at[i - 1], view, i)
    IN  at[n]

ListedTo(view, n, c) ==
    [k \in Keys |->
        LET ids == {i \in 1 .. n : view.names[i] = k /\ view.rows[i] # NoRow}
            row == view.rows[CHOOSE i \in ids : TRUE]
        IN  IF ids = {} THEN NoResult
            ELSE Decode(row, [i \in 1 .. Len(row.deps) |->
                                  KeyOf(c, DecodedID(row.deps[i]))])]

\* An error of the query ends the list as its end does; so does the statement
\* that was not prepared.  An error in a dependency is reported.
GetKeysWithResult ==
    \E o \in OpenOutcomes :
        LET view == View(o)
        IN  /\ o.ok
            /\ Opened(o)
            /\ \/ \E n \in 0 .. Len(view.names) :
                     /\ o.conn = "open" \/ n = 0
                     /\ answer' = Listed(ListedTo(view, n, Listing(view, n)))
                     /\ Cache(Listing(view, n))
               \/ \E i \in 1 .. Len(view.names) :
                     \E n \in 0 .. Len(view.rows[i].deps) - 1 :
                        LET deps == view.rows[i].deps
                            c == Resolved(NameRow(Listing(view, i - 1), view, i),
                                          deps, n)
                        IN  /\ o.conn = "open"
                            /\ c.engine[DecodedID(deps[n + 1])] = NoKey
                            /\ answer' = Failed
                            /\ Cache(c)
               \/ answer' = Failed /\ UNCHANGED caches
            /\ UNCHANGED <<txn, building, void>>

\* getKeys and dump, but for what they write out.
GetKeys ==
    \E o \in OpenOutcomes :
        /\ o.ok
        /\ Opened(o)
        /\ answer' \in {Done, Failed}
        /\ UNCHANGED <<txn, building, caches, void>>

\* This one needs no prepared statement, and the version may not have been
\* compared.
GetCurrentEpoch ==
    \E o \in OpenOutcomes :
        /\ o.ok
        /\ Opened(o)
        /\ \/ /\ View(o).schema # "none"
              /\ answer' = Epoch(View(o).iteration)
              /\ void' = (void \/ View(o).schema = "other")
           \/ answer' = Failed /\ UNCHANGED void
        /\ UNCHANGED <<txn, building, caches>>

-----------------------------------------------------------------------------
(***************************************************************************)
(* Writing, between buildStarted and buildComplete.                        *)
(***************************************************************************)
BuildStarted ==
    \E o \in OpenOutcomes :
        /\ ~building
        /\ o.ok
        /\ Opened(o)
        /\ \/ /\ building' = TRUE /\ txn' = o.file
              /\ answer' = Done
           \/ answer' = Failed /\ UNCHANGED <<building, txn>>
        /\ UNCHANGED <<caches, void>>

SetCurrentIteration(n) ==
    /\ building
    /\ \/ /\ txn.schema # "none"
          /\ txn' = [txn EXCEPT !.iteration = n]
          /\ answer' = Done
          /\ void' = (void \/ txn.schema = "other")
       \/ answer' = Failed /\ UNCHANGED <<txn, void>>
    /\ UNCHANGED <<file, building, conn, caches>>

\* The keys a result names, the first its own.
NamedKeys(k, r) == [i \in 1 .. Len(r.deps) + 1 |->
                       IF i = 1 THEN k ELSE r.deps[i - 1].key]

StoredRow(r, ids) ==
    [val |-> r.val,
     deps |-> [i \in 1 .. Len(r.deps) |-> Encode(ids[i + 1], r.deps[i])]]

Store(r, c) ==
    /\ txn' = [txn EXCEPT !.names = c.names,
                          !.rows[c.found[1]] = StoredRow(r, c.found)]
    /\ Cache(c)
    /\ answer' = Done

\* Keys named before a failure keep their rows and their places in the caches.
SetFails(ks) ==
    \E n \in 0 .. Len(ks) :
        LET some == Identified(Cursor(txn.names), ks, n)
        IN  /\ n < Len(ks) => some.db[ks[n + 1]] = 0
            /\ txn' = [txn EXCEPT !.names = some.names]
            /\ Cache(some)
            /\ answer' = Failed

\* The query of getKeyIDFromDB fails for a key that has a row: the insert that
\* follows is ignored, and the ID of the last row inserted is taken.
SetMisread(ks, r) ==
    \E m \in 1 .. Len(ks), id \in 0 .. Len(txn.names) :
        LET before == Identified(Cursor(txn.names), ks, m - 1)
            rest == SubSeq(ks, m + 1, Len(ks))
        IN  /\ before.db[ks[m]] = 0 /\ NamedID(before.names, ks[m]) # 0
            /\ Store(r, Identified(Learn(before, ks[m], id), rest, Len(rest)))

\* An error after which SQLite rolls the transaction back by itself.
SetRollsBack == txn' = file /\ answer' = Failed /\ UNCHANGED caches

SetRuleResult(k, r) ==
    LET ks == NamedKeys(k, r)
    IN  /\ building /\ conn = "open"
        /\ \/ /\ \/ Store(r, Identified(Cursor(txn.names), ks, Len(ks)))
                 \/ SetFails(ks)
              /\ void' = (void \/ \E i \in 1 .. Len(ks) : Unfaithful(ks[i]))
           \/ (SetMisread(ks, r) \/ SetRollsBack) /\ void' = TRUE
        /\ UNCHANGED <<file, building, conn>>

\* That END fails is only asserted not to happen; without assertions the close
\* rolls back, and the caches keep the IDs of keys that are lost.
BuildComplete ==
    /\ building /\ building' = FALSE
    /\ \/ file' = txn /\ UNCHANGED void
       \/ void' = TRUE /\ UNCHANGED file
    /\ txn' = NoFile
    /\ conn' = "closed"
    /\ answer' = Done
    /\ UNCHANGED caches

-----------------------------------------------------------------------------
(***************************************************************************)
(* Other processes, between builds: one that removes the file or replaces  *)
(* it by one of another version, and one that builds.                      *)
(***************************************************************************)
OtherVersion ==
    /\ conn = "closed"
    /\ file' \in {NoFile, Contents("other")}
    /\ void' = (void \/ dbKeyIDs # NoIDs)
    /\ answer' = Done
    /\ UNCHANGED <<txn, building, conn, caches>>

OtherBuild(k, r, n) ==
    LET ks == NamedKeys(k, r)
        base == IF file.schema = "current" THEN file ELSE Fresh
        none == [names |-> base.names, db |-> NoIDs, engine |-> NoKeys,
                 found |-> <<>>]
        all == Identified(none, ks, Len(ks))
    IN  /\ ~building
        /\ conn = "closed" \/ file.schema = "current"
        /\ \A i \in 1 .. Len(ks) : ~Unfaithful(ks[i])
        /\ file' = [base EXCEPT !.names = all.names,
                                !.rows[all.found[1]] = StoredRow(r, all.found),
                                !.iteration = n]
        /\ answer' = Done
        /\ UNCHANGED <<txn, building, conn, caches, void>>

Next ==
    /\ ~void
    /\ UNCHANGED recreateOnUnmatchedVersion
    /\ \/ OpenFails \/ NullStatement \/ ProcessEnds
       \/ BuildStarted \/ BuildComplete
       \/ GetCurrentEpoch \/ GetKeys \/ GetKeysWithResult
       \/ OtherVersion
       \/ \E n \in 1 .. MaxIteration : SetCurrentIteration(n)
       \/ \E k \in Keys : LookupRuleResult(k)
       \/ \E k \in Keys, r \in Results : SetRuleResult(k, r)
       \/ \E k \in Keys, r \in Results, n \in 1 .. MaxIteration :
             OtherBuild(k, r, n)

Spec == Init /\ [][Next]_vars

-----------------------------------------------------------------------------
(***************************************************************************)
(* Properties.                                                             *)
(***************************************************************************)
\* What the tables hold, as the engine understands it.
Meaning(c) ==
    LET result(k) ==
            LET id == NamedID(c.names, k)
                row == c.rows[id]
            IN  IF Unfaithful(k) \/ row = NoRow THEN NoResult
                ELSE Decode(row, [i \in 1 .. Len(row.deps) |->
                                      c.names[DecodedID(row.deps[i])]])
    IN  [results |-> [k \in Keys |-> result(k)],
         iteration |-> IF c.schema = "other" THEN 0 ELSE c.iteration]

ConnView == IF building THEN txn ELSE file

KeyNames == {s \in UNION {[1 .. n -> Keys] : n \in IDs} : IsInjective(s)}
Rows == [val : {r.val : r \in Results} \cup {NoResult},
         deps : Seq(0 .. 4 * MaxID + 3)]
Tables == [schema : {"none", "current", "other"}, names : KeyNames,
           rows : [IDs -> Rows], iteration : 0 .. MaxIteration]

\* Types of the variables.
TypeOK ==
    /\ recreateOnUnmatchedVersion \in BOOLEAN
    /\ file \in Tables /\ txn \in Tables
    /\ building \in BOOLEAN /\ void \in BOOLEAN
    /\ conn \in {"closed", "open", "unprepared"}
    /\ dbKeyIDs \in [Keys -> IDs]
    /\ engineKeyIDs \in [IDs -> Keys \cup {NoKey}]

\* The caches of getKeyID and getKeyIDForID are inverse to each other and
\* agree with key_names as the connection sees it, over every rollback, close
\* and reopening and whatever other processes wrote in between: the fast path
\* of lookupRuleResult and the blobs setRuleResult writes rely on it.
CachesAgree ==
    ~void =>
        /\ \A k \in Keys : dbKeyIDs[k] # 0 => engineKeyIDs[dbKeyIDs[k]] = k
        /\ \A i \in IDs : engineKeyIDs[i] # NoKey =>
               /\ dbKeyIDs[engineKeyIDs[i]] = i
               /\ i \in 1 .. Len(ConnView.names)
               /\ ConnView.names[i] = engineKeyIDs[i]

\* Every row of rule_results, and every dependency in its blob, has a name in
\* key_names, in the file and in the transaction: the foreign key the schema
\* declares and SQLite does not enforce, and the one no schema can declare.
ReferencesResolve ==
    ~void => \A c \in {file, txn} :
        \A i \in IDs : c.rows[i] # NoRow =>
            /\ i \in 1 .. Len(c.names)
            /\ \A d \in 1 .. Len(c.rows[i].deps) :
                  DecodedID(c.rows[i].deps[d]) \in 1 .. Len(c.names)

BuildDB == INSTANCE ResultStore
               WITH saved <- Meaning(file), current <- Meaning(txn)

\* The database keeps the promise of BuildDB.h: a lookup gives the result last
\* set for the key, with its dependencies in order and their flags, or none; a
\* build's results are there for the next process all or not at all.
ImplementsBuildDB == BuildDB!Spec
==============================================================================
