--------------------------- MODULE RecordsProofs ---------------------------
(***************************************************************************)
(* What the handlers over the database keep, for any tables, names, ids,   *)
(* seed and number of requests handled at a time: the types, the unique    *)
(* constraints and the foreign keys, together one inductive invariant, and *)
(* what a single commit may do to the database.                            *)
(***************************************************************************)
EXTENDS Records, FiniteSetTheorems, TLAPS

\* What a handler holds between two statements.
StateOK(s) ==
    /\ s.pc \in {"idle", "create", "update", "refresh", "delete", "read_grants", "grants", "seed"}
    /\ s.pc = "create" =>
           s.table \in Tables /\ s.row \in Row /\ (s.table = "users" => s.row.a # Invalid)
    /\ s.pc = "update" =>
           /\ s.key \in Keys /\ s.loaded \in Row
           /\ \/ s.field \in {"a", "b"} /\ s.value \in Values
              \/ s.field = "name" /\ s.value \in Names
           /\ s.field = "a" /\ s.key[1] = "users" => s.value # Invalid
    /\ s.pc = "refresh" => s.key \in Keys /\ s.status \in {200, 201}
    /\ s.pc = "delete" => s.key \in Keys
    /\ s.pc \in {"read_grants", "grants"} => s.user \in Ids /\ s.wanted \in SUBSET Ids
    /\ s.pc = "grants" => \A g \in s.existing : g[1] = s.user
    /\ s.pc = "seed" => s.missing \in SUBSET SeedRows

\* The types of the database.
TablesOK ==
    /\ DOMAIN rows \subseteq Keys /\ \A k \in DOMAIN rows : rows[k] \in Row
    /\ nextId \in [Tables -> 1..(MaxId + 1)]
    /\ \A k \in DOMAIN rows : k[2] < nextId[k[1]]
    /\ \A k \in Of("users") : rows[k].a # Invalid
    /\ grants \subseteq Ids \X Ids

DbInv == TablesOK /\ UniqueNames /\ NoDangling

ReqInv ==
    /\ req = [r \in Requests |-> req[r]]
    /\ \A r \in Requests : StateOK(req[r])
    /\ last \in Statuses \cup {None} /\ left \in 0..MaxRequests

\* The inductive invariant: a commit keeps the constraints because of what its
\* handler holds, and the handler's reads have their types because of the tables'.
Inv == DbInv /\ ReqInv

\* A key is a table and an id.
LEMMA KeyParts ==
    ASSUME NEW k \in Keys
    PROVE  k[1] \in Tables /\ k[2] \in Ids /\ k = <<k[1], k[2]>>
BY DEF Keys

\* The tables at first satisfy the constraints, so the system starts in the
\* invariant.
LEMMA InitInv == Init => Inv
<1> SUFFICES ASSUME Init PROVE Inv
  OBVIOUS
<1>1. TablesOK
  <2>1. DOMAIN rows \subseteq Keys /\ \A k \in DOMAIN rows : rows[k] \in Row
    BY InitialRowsConsistent DEF Init
  <2>2. nextId \in [Tables -> 1..(MaxId + 1)]
    BY InitialRowsConsistent, RecordsConstants DEF Init
  <2>3. \A k \in DOMAIN rows : k[2] < nextId[k[1]]
    <3> TAKE k \in DOMAIN rows
    <3>1. k[1] \in Tables /\ k[2] \in Ids
      BY <2>1, KeyParts
    <3>2. k \in InitialIn(k[1])
      BY DEF Init, InitialIn
    <3> QED
      BY <3>1, <3>2, InitialRowsConsistent DEF Init, Ids
  <2>4. \A k \in Of("users") : rows[k].a # Invalid
    BY InitialRowsConsistent DEF Init, Of
  <2> QED
    BY <2>1, <2>2, <2>3, <2>4 DEF TablesOK, Init
<1>2. UniqueNames
  BY InitialRowsConsistent DEF Init, UniqueNames, Of, InitialIn, Unique
<1>3. NoDangling
  BY InitialRowsConsistent DEF Init, NoDangling, OwnerExists
<1>4. ReqInv
  BY RecordsConstants DEF Init, ReqInv, StateOK, Idle
<1> QED
  BY <1>1, <1>2, <1>3, <1>4 DEF Inv, DbInv

-----------------------------------------------------------------------------
(* The commits, one by one, on the tables. *)

\* Handlers that leave the database alone leave its constraints alone.
LEMMA SameDb == ASSUME DbInv, UNCHANGED db PROVE DbInv'
BY DEF DbInv, db, TablesOK, UniqueNames, NoDangling, OwnerExists, Of

\* Inserts under new ids, of rows whose names are free and whose owners exist,
\* keep the constraints, however many of them a table gets.
LEMMA InsertKeeps ==
    ASSUME DbInv, NEW new \in SUBSET Keys,
           DOMAIN rows' = DOMAIN rows \cup new,
           \A k \in DOMAIN rows : rows'[k] = rows[k] /\ k \notin new,
           \A k \in new : /\ rows'[k] \in Row /\ OwnerExists(rows'[k].owner)
                          /\ k[1] = "users" => rows'[k].a # Invalid
                          /\ k[1] \in Unique => rows'[k].name \notin NamesIn(k[1]),
           \A k, l \in new : k[1] = l[1] /\ rows'[k].name = rows'[l].name => k = l,
           nextId' \in [Tables -> 1..(MaxId + 1)],
           \A t \in Tables : nextId[t] =< nextId'[t],
           \A k \in new : k[2] < nextId'[k[1]],
           grants' = grants
    PROVE  DbInv'
<1>1. TablesOK'
  <2>1. (DOMAIN rows \subseteq Keys /\ \A k \in DOMAIN rows : rows[k] \in Row)'
    BY DEF DbInv, TablesOK
  <2>2. ASSUME NEW k \in DOMAIN rows PROVE k[2] < nextId'[k[1]]
    <3>1. k[1] \in Tables /\ k[2] \in Ids /\ k[2] < nextId[k[1]]
      BY KeyParts DEF DbInv, TablesOK
    <3> QED
      BY <3>1, RecordsConstants DEF DbInv, TablesOK, Ids
  <2>3. (\A k \in Of("users") : rows[k].a # Invalid)'
    BY DEF DbInv, TablesOK, Of
  <2> QED
    BY <2>1, <2>2, <2>3 DEF DbInv, TablesOK
<1>2. UniqueNames'
  <2>1. \A k \in DOMAIN rows : rows[k].name \in NamesIn(k[1])
    BY DEF NamesIn, Of
  <2> QED
    BY <2>1 DEF DbInv, UniqueNames, Of, Unique
<1>3. NoDangling'
  BY DEF DbInv, NoDangling, OwnerExists
<1> QED
  BY <1>1, <1>2, <1>3 DEF DbInv

\* An update of a column of a row that is there keeps the constraints, if the
\* value has the column's type and a new name is free.
LEMMA UpdateKeeps ==
    ASSUME DbInv, NEW key \in DOMAIN rows, NEW row \in Row,
           key[1] = "users" => row.a # Invalid,
           key[1] \in Unique => row.name \notin {rows[k].name : k \in Of(key[1]) \ {key}},
           row.owner = rows[key].owner,
           rows' = With(key, row),
           nextId' = nextId, grants' = grants
    PROVE  DbInv'
<1>1. /\ DOMAIN rows' = DOMAIN rows
      /\ rows'[key] = row
      /\ \A k \in DOMAIN rows \ {key} : rows'[k] = rows[k]
  BY DEF With
<1>2. TablesOK'
  BY <1>1 DEF DbInv, TablesOK, Of
<1>3. UniqueNames'
  BY <1>1 DEF DbInv, UniqueNames, Of, Unique
<1>4. NoDangling'
  BY <1>1 DEF DbInv, NoDangling, OwnerExists
<1> QED
  BY <1>2, <1>3, <1>4 DEF DbInv

\* A delete takes the grants of its user or of its page with it, and is refused
\* while the user owns something: nothing is left dangling.
LEMMA DeleteKeeps ==
    ASSUME DbInv, NEW key \in Keys,
           ~(key[1] = "users" /\ \E k \in DOMAIN rows : rows[k].owner = key[2]),
           rows' = Without(key), grants' = Cascade(key), nextId' = nextId
    PROVE  DbInv'
<1>1. /\ DOMAIN rows' = DOMAIN rows \ {key}
      /\ \A k \in DOMAIN rows' : rows'[k] = rows[k]
  BY DEF Without
<1>2. TablesOK'
  BY <1>1 DEF DbInv, TablesOK, Of, Cascade
<1>3. UniqueNames'
  BY <1>1 DEF DbInv, UniqueNames, Of
<1>4. NoDangling'
  <2>1. ASSUME NEW g \in grants'
        PROVE  <<"users", g[1]>> \in DOMAIN rows' /\ <<"pages", g[2]>> \in DOMAIN rows'
    <3>1. /\ g \in grants
          /\ <<"users", g[1]>> # key /\ <<"pages", g[2]>> # key
      BY DEF Cascade
    <3>2. <<"users", g[1]>> \in DOMAIN rows /\ <<"pages", g[2]>> \in DOMAIN rows
      BY <3>1 DEF DbInv, NoDangling
    <3> QED
      BY <1>1, <3>1, <3>2
  <2>2. ASSUME NEW k \in DOMAIN rows', rows'[k].owner # None
        PROVE  <<"users", rows'[k].owner>> \in DOMAIN rows'
    <3>1. rows'[k] = rows[k] /\ k \in DOMAIN rows
      BY <1>1
    <3>2. <<"users", rows[k].owner>> \in DOMAIN rows
      BY <2>2, <3>1 DEF DbInv, NoDangling, OwnerExists
    <3>3. <<"users", rows[k].owner>> # key
      BY <3>1
    <3> QED
      BY <1>1, <3>1, <3>2, <3>3
  <2> QED
    BY <2>1, <2>2 DEF NoDangling, OwnerExists
<1> QED
  BY <1>2, <1>3, <1>4 DEF DbInv

\* New grants of a user who is there to pages that are there, in place of old
\* ones, keep the constraints.
LEMMA GrantKeeps ==
    ASSUME DbInv, NEW existing, NEW new \in SUBSET (Ids \X Ids),
           \A g \in new : {<<"users", g[1]>>, <<"pages", g[2]>>} \subseteq DOMAIN rows,
           grants' = Replaced(existing, new), rows' = rows, nextId' = nextId
    PROVE  DbInv'
<1>1. TablesOK'
  BY DEF DbInv, TablesOK, Of, Replaced
<1>2. UniqueNames'
  BY DEF DbInv, UniqueNames, Of
<1>3. NoDangling'
  BY DEF DbInv, NoDangling, OwnerExists, Replaced
<1> QED
  BY <1>1, <1>2, <1>3 DEF DbInv

-----------------------------------------------------------------------------
(* The handlers, action by action. *)

\* Request r goes on to a state its handler can be in, or is answered.
Moves(r) ==
    /\ \E s : StateOK(s) /\ req' = [req EXCEPT ![r] = s]
    /\ last' \in Statuses \cup {None}

\* A step of one request leaves every other one where it was.
LEMMA MovesKeeps ==
    ASSUME ReqInv, NEW r \in Requests, Moves(r), left' \in 0..MaxRequests
    PROVE  ReqInv'
BY DEF ReqInv, Moves

\* An answer, with or without a change to the database.
LEMMA AnswerMoves ==
    ASSUME NEW r, NEW status \in Statuses, Answer(r, status)
    PROVE  Moves(r)
BY DEF Answer, Moves, StateOK, Idle

\* A refusal changes nothing but the request.
LEMMA RefuseMoves ==
    ASSUME NEW r, NEW status \in Statuses, Refuse(r, status)
    PROVE  Moves(r) /\ UNCHANGED db
BY AnswerMoves DEF Refuse

\* A handler that goes on holds what the next statement needs.
LEMMA ProceedMoves ==
    ASSUME ReqInv, NEW r, NEW s, StateOK(s), Proceed(r, s)
    PROVE  Moves(r) /\ UNCHANGED db
BY DEF Proceed, Moves, ReqInv

\* A commit that succeeds moves the request on, or answers it.
LEMMA CommittedMoves ==
    ASSUME ReqInv, NEW r, NEW key \in Keys, NEW status \in {200, 201}, Committed(r, key, status)
    PROVE  Moves(r)
BY DEF Committed, Moves, ReqInv, StateOK

\* The checks before a handler's first statement answer with one of its codes.
LEMMA CheckStatuses ==
    ASSUME NEW caller, NEW floor, NEW table, NEW value
    PROVE  Authorized(caller, floor) \in Statuses /\ Checked(table, value) \in Statuses
<1>1. Authorized(caller, floor) \in {200, 401, 403}
  BY DEF Authorized
<1>2. Checked(table, value) \in {200, 400, 422}
  BY DEF Checked
<1> QED
  BY <1>1, <1>2 DEF Statuses

\* The first part of a handler changes nothing in the database.
LEMMA BeginMoves ==
    ASSUME Inv, NEW r \in Requests, Begin(r)
    PROVE  Moves(r) /\ UNCHANGED db /\ left' \in 0..MaxRequests
<1>1. ASSUME NEW c \in Names, NEW t \in Tables, NEW n \in Names, NEW o \in Ids \cup {None},
             NEW v \in Values, BeginCreate(r, c, t, n, o, v)
      PROVE  Moves(r) /\ UNCHANGED db
  <2> DEFINE row == [name |-> n, owner |-> o, a |-> v, b |-> 0]
             s == [pc |-> "create", table |-> t, row |-> row]
  <2>1. CASE \E status \in Statuses : Refuse(r, status)
    BY <2>1, RefuseMoves
  <2>2. CASE Checked(t, v) = 200 /\ Proceed(r, s)
    <3>1. row \in Row
      BY RecordsConstants DEF Row
    <3>2. t = "users" => v # Invalid
      BY <2>2 DEF Checked
    <3>3. StateOK(s)
      BY <3>1, <3>2 DEF StateOK
    <3> QED
      BY <2>2, <3>3, ProceedMoves DEF Inv
  <2>3. 409 \in Statuses
    BY DEF Statuses
  <2> QED
    BY <1>1, <2>1, <2>2, <2>3, CheckStatuses DEF BeginCreate
<1>2. ASSUME NEW c \in Names, NEW k \in Keys, NEW f \in {"a", "b", "name"},
             NEW v \in IF f = "name" THEN Names ELSE Values, BeginUpdate(r, c, k, f, v)
      PROVE  Moves(r) /\ UNCHANGED db
  <2> DEFINE s == [pc |-> "update", key |-> k, field |-> f, value |-> v, loaded |-> rows[k]]
  <2>1. CASE \E status \in Statuses : Refuse(r, status)
    BY <2>1, RefuseMoves
  <2>2. CASE /\ f = "a" => Checked(k[1], v) = 200
             /\ k \in DOMAIN rows /\ Proceed(r, s)
    <3>1. rows[k] \in Row
      BY <2>2 DEF Inv, DbInv, TablesOK
    <3>2. f = "a" /\ k[1] = "users" => v # Invalid
      BY <2>2 DEF Checked
    <3>3. StateOK(s)
      BY <3>1, <3>2 DEF StateOK
    <3> QED
      BY <2>2, <3>3, ProceedMoves DEF Inv
  <2>3. 404 \in Statuses
    BY DEF Statuses
  <2> QED
    BY <1>2, <2>1, <2>2, <2>3, CheckStatuses DEF BeginUpdate
<1>3. ASSUME NEW c \in Names, NEW k \in Keys, BeginDelete(r, c, k)
      PROVE  Moves(r) /\ UNCHANGED db
  <2>1. CASE \E status \in Statuses : Refuse(r, status)
    BY <2>1, RefuseMoves
  <2>2. CASE Proceed(r, [pc |-> "delete", key |-> k])
    <3>1. StateOK([pc |-> "delete", key |-> k])
      BY DEF StateOK
    <3> QED
      BY <2>2, <3>1, ProceedMoves DEF Inv
  <2>3. 404 \in Statuses
    BY DEF Statuses
  <2> QED
    BY <1>3, <2>1, <2>2, <2>3, CheckStatuses DEF BeginDelete
<1>4. ASSUME NEW p \in Ids, BeginDuplicate(r, p)
      PROVE  Moves(r) /\ UNCHANGED db
  <2>1. CASE Refuse(r, 404)
    BY <2>1, RefuseMoves DEF Statuses
  <2>2. CASE /\ <<"pages", p>> \in DOMAIN rows
             /\ Proceed(r, [pc |-> "create", table |-> "pages", row |-> rows[<<"pages", p>>]])
    <3>1. StateOK([pc |-> "create", table |-> "pages", row |-> rows[<<"pages", p>>]])
      BY <2>2, RecordsConstants DEF StateOK, Inv, DbInv, TablesOK
    <3> QED
      BY <2>2, <3>1, ProceedMoves DEF Inv
  <2> QED
    BY <1>4, <2>1, <2>2 DEF BeginDuplicate
<1>5. ASSUME NEW c \in Names, NEW u \in Ids, NEW w \in SUBSET Ids, BeginGrants(r, c, u, w)
      PROVE  Moves(r) /\ UNCHANGED db
  <2>1. CASE \E status \in Statuses : Refuse(r, status)
    BY <2>1, RefuseMoves
  <2>2. CASE Proceed(r, [pc |-> "read_grants", user |-> u, wanted |-> w])
    <3>1. StateOK([pc |-> "read_grants", user |-> u, wanted |-> w])
      BY DEF StateOK
    <3> QED
      BY <2>2, <3>1, ProceedMoves DEF Inv
  <2>3. 404 \in Statuses
    BY DEF Statuses
  <2> QED
    BY <1>5, <2>1, <2>2, <2>3, CheckStatuses DEF BeginGrants
<1>6. ASSUME BeginSeed(r) PROVE Moves(r) /\ UNCHANGED db
  <2>1. StateOK([pc |-> "seed", todo |-> SeedOrder, missing |-> {}])
    BY DEF StateOK
  <2> QED
    BY <1>6, <2>1, ProceedMoves DEF Inv, BeginSeed
<1>7. left' \in 0..MaxRequests
  BY RecordsConstants DEF Begin, Inv, ReqInv
<1> QED
  BY <1>1, <1>2, <1>3, <1>4, <1>5, <1>6, <1>7 DEF Begin

\* An insert fails as a whole or puts the row under the table's next id.
LEMMA CommitCreateKeeps ==
    ASSUME Inv, NEW r \in Requests, CommitCreate(r)
    PROVE  Moves(r) /\ DbInv'
<1> DEFINE t == req[r].table
           row == req[r].row
           key == <<t, nextId[t]>>
<1>1. StateOK(req[r]) /\ req[r].pc = "create" /\ ReqInv /\ DbInv
  BY DEF Inv, ReqInv, CommitCreate
<1>2. t \in Tables /\ row \in Row /\ (t = "users" => row.a # Invalid)
  BY <1>1 DEF StateOK
<1>3. CASE Refuse(r, IF t \in ConflictCaught THEN 409 ELSE 500)
  <2>1. 409 \in Statuses /\ 500 \in Statuses
    BY DEF Statuses
  <2> QED
    BY <1>1, <1>3, <2>1, RefuseMoves, SameDb
<1>4. CASE /\ t \in Unique => row.name \notin NamesIn(t)
           /\ OwnerExists(row.owner)
           /\ nextId[t] =< MaxId
           /\ rows' = With(key, row)
           /\ nextId' = [nextId EXCEPT ![t] = @ + 1]
           /\ Committed(r, key, 201) /\ grants' = grants
  <2> HIDE DEF t, row
  <2>1. nextId[t] \in 1..MaxId /\ nextId \in [Tables -> 1..(MaxId + 1)]
    BY <1>1, <1>2, <1>4, RecordsConstants DEF DbInv, TablesOK
  <2>2. key \in Keys /\ key[1] = t /\ key[2] = nextId[t]
    BY <1>2, <2>1 DEF Keys, Ids
  <2>3. key \notin DOMAIN rows
    BY <1>1, <2>1, <2>2 DEF DbInv, TablesOK
  <2> HIDE DEF key
  <2>4. /\ DOMAIN rows' = DOMAIN rows \cup {key}
        /\ rows'[key] = row
        /\ \A k \in DOMAIN rows : rows'[k] = rows[k] /\ k \notin {key}
    BY <1>4, <2>3 DEF With
  <2>5. /\ nextId' \in [Tables -> 1..(MaxId + 1)]
        /\ \A u \in Tables : nextId[u] =< nextId'[u]
        /\ key[2] < nextId'[key[1]]
    BY <1>2, <1>4, <2>1, <2>2, RecordsConstants
  <2>6. OwnerExists(rows'[key].owner) /\ grants' = grants
    BY <1>4, <2>4
  <2> DEFINE new == {key}
  <2>7. /\ new \in SUBSET Keys /\ DOMAIN rows' = DOMAIN rows \cup new
        /\ \A k \in DOMAIN rows : rows'[k] = rows[k] /\ k \notin new
        /\ \A k \in new : k[2] < nextId'[k[1]]
        /\ \A k, l \in new : k[1] = l[1] /\ rows'[k].name = rows'[l].name => k = l
    BY <2>2, <2>4, <2>5
  <2>8. \A k \in new : /\ rows'[k] \in Row /\ OwnerExists(rows'[k].owner)
                       /\ k[1] = "users" => rows'[k].a # Invalid
                       /\ k[1] \in Unique => rows'[k].name \notin NamesIn(k[1])
    BY <1>2, <1>4, <2>2, <2>4, <2>6
  <2> HIDE DEF new
  <2>9. DbInv'
    BY <1>1, <2>5, <2>6, <2>7, <2>8, InsertKeeps
  <2> QED
    BY <1>1, <1>4, <2>2, <2>9, CommittedMoves
<1> QED
  BY <1>3, <1>4 DEF CommitCreate

\* An update writes back the columns it changed, to a row that is still there.
LEMMA UpdatedColumns ==
    ASSUME DbInv, NEW key \in DOMAIN rows, NEW loaded, NEW field, NEW value,
           \/ field \in {"a", "b"} /\ value \in Values
           \/ field = "name" /\ value \in Names
    PROVE  LET new == Updated(key, loaded, field, value)
           IN  /\ new \in Row
               /\ new.owner = rows[key].owner
               /\ new = rows[key] \/ new[field] = value
               /\ \A f \in {"name", "owner", "a", "b"} \ {field} : new[f] = rows[key][f]
<1>1. rows[key] \in Row
  BY DEF DbInv, TablesOK
<1> QED
  BY <1>1 DEF Updated, Row

\* The commit of an update keeps names and references.
LEMMA CommitUpdateKeeps ==
    ASSUME Inv, NEW r \in Requests, CommitUpdate(r)
    PROVE  Moves(r) /\ DbInv'
<1> DEFINE key == req[r].key
           new == Updated(key, req[r].loaded, req[r].field, req[r].value)
<1>1. StateOK(req[r]) /\ req[r].pc = "update" /\ ReqInv /\ DbInv
  BY DEF Inv, ReqInv, CommitUpdate
<1>2. CASE Refuse(r, 500)
  BY <1>1, <1>2, RefuseMoves, SameDb DEF Statuses
<1>3. CASE /\ key \in DOMAIN rows
           /\ key[1] \in Unique => new.name \notin {rows[k].name : k \in Of(key[1]) \ {key}}
           /\ rows' = With(key, new)
           /\ Committed(r, key, 200) /\ nextId' = nextId /\ grants' = grants
  <2>1. /\ key \in Keys
        /\ \/ req[r].field \in {"a", "b"} /\ req[r].value \in Values
           \/ req[r].field = "name" /\ req[r].value \in Names
        /\ req[r].field = "a" /\ key[1] = "users" => req[r].value # Invalid
    BY <1>1 DEF StateOK
  <2>2. /\ new \in Row /\ new.owner = rows[key].owner
        /\ new = rows[key] \/ new[req[r].field] = req[r].value
        /\ \A f \in {"name", "owner", "a", "b"} \ {req[r].field} : new[f] = rows[key][f]
    BY <1>1, <1>3, <2>1, UpdatedColumns
  <2>3. key[1] = "users" => rows[key].a # Invalid
    BY <1>1, <1>3 DEF DbInv, TablesOK, Of
  <2> HIDE DEF new, key
  <2>4. key[1] = "users" => new.a # Invalid
    <3>1. CASE req[r].field = "a"
      <4>1. new[req[r].field] = new.a
        BY <3>1
      <4> QED
        BY <2>1, <2>2, <2>3, <3>1, <4>1
    <3>2. CASE req[r].field # "a"
      BY <2>2, <2>3, <3>2
    <3> QED
      BY <3>1, <3>2
  <2>5. DbInv'
    BY <1>1, <1>3, <2>2, <2>4, UpdateKeeps
  <2> QED
    BY <1>1, <1>3, <2>1, <2>5, CommittedMoves
<1> QED
  BY <1>2, <1>3 DEF CommitUpdate

\* The commit of a delete, with all that depends on the row, keeps them.
LEMMA CommitDeleteKeeps ==
    ASSUME Inv, NEW r \in Requests, CommitDelete(r)
    PROVE  Moves(r) /\ DbInv'
<1>1. StateOK(req[r]) /\ req[r].pc = "delete" /\ ReqInv /\ DbInv
  BY DEF Inv, ReqInv, CommitDelete
<1>2. req[r].key \in Keys
  BY <1>1 DEF StateOK
<1>3. CASE Refuse(r, 500)
  BY <1>1, <1>3, RefuseMoves, SameDb DEF Statuses
<1>4. CASE ~Refuse(r, 500)
  <2>1. Answer(r, 204) /\ 204 \in Statuses
    BY <1>4 DEF CommitDelete, Statuses
  <2>2. DbInv'
    BY <1>1, <1>2, <1>4, DeleteKeeps DEF CommitDelete
  <2> QED
    BY <2>1, <2>2, AnswerMoves
<1> QED
  BY <1>3, <1>4

\* The commit of a new set of pages keeps them.
LEMMA CommitGrantsKeeps ==
    ASSUME Inv, NEW r \in Requests, CommitGrants(r)
    PROVE  Moves(r) /\ DbInv'
<1> DEFINE u == req[r].user
           new == {<<u, p>> : p \in req[r].wanted}
<1>1. StateOK(req[r]) /\ req[r].pc = "grants" /\ ReqInv /\ DbInv
  BY DEF Inv, ReqInv, CommitGrants
<1>2. u \in Ids /\ req[r].wanted \in SUBSET Ids
  BY <1>1 DEF StateOK
<1>3. CASE Refuse(r, 500)
  BY <1>1, <1>3, RefuseMoves, SameDb DEF Statuses
<1>4. CASE ~Refuse(r, 500)
  <2>1. /\ Answer(r, 200) /\ grants' = Replaced(req[r].existing, new)
        /\ rows' = rows /\ nextId' = nextId
        /\ new # {} => /\ <<"users", u>> \in DOMAIN rows
                       /\ \A g \in new : <<"pages", g[2]>> \in DOMAIN rows
    BY <1>4 DEF CommitGrants
  <2>2. /\ new \in SUBSET (Ids \X Ids)
        /\ \A g \in new : {<<"users", g[1]>>, <<"pages", g[2]>>} \subseteq DOMAIN rows
    BY <1>2, <2>1
  <2>3. DbInv'
    BY <1>1, <2>1, <2>2, GrantKeeps
  <2>4. 200 \in Statuses
    BY DEF Statuses
  <2> QED
    BY <2>1, <2>3, <2>4, AnswerMoves
<1> QED
  BY <1>3, <1>4

\* The rows the seed found missing, and that still are, go in together, each
\* under an id of its own.
LEMMA CommitSeedKeeps ==
    ASSUME Inv, NEW r \in Requests, CommitSeed(r)
    PROVE  Moves(r) /\ DbInv'
<1> DEFINE missing == req[r].missing
           Count(t) == Cardinality({s \in missing : s[1] = t})
           new == {k \in Keys : k[2] >= nextId[k[1]] /\ k[2] < nextId[k[1]] + Count(k[1])}
           Seeded(k, s) == [name |-> s[2], owner |-> None,
                            a |-> IF k[1] = "users" THEN SuperAdmin ELSE 0, b |-> 0]
<1>1. StateOK(req[r]) /\ req[r].pc = "seed" /\ ReqInv /\ DbInv
  BY DEF Inv, ReqInv, CommitSeed
<1>2. missing \in SUBSET SeedRows
  BY <1>1 DEF StateOK
<1>3. CASE Refuse(r, 500)
  BY <1>1, <1>3, RefuseMoves, SameDb DEF Statuses
<1>4. CASE ~Refuse(r, 500)
  <2>1. /\ \A s \in missing : s[2] \notin NamesIn(s[1])
        /\ \A t \in Tables : nextId[t] + Count(t) =< MaxId + 1
        /\ nextId' = [t \in Tables |-> nextId[t] + Count(t)]
        /\ Answer(r, 200) /\ grants' = grants
    BY <1>4 DEF CommitSeed
  <2>2. PICK seed \in [new -> missing] :
               /\ \A k \in new : seed[k][1] = k[1]
               /\ \A k, l \in new : seed[k] = seed[l] => k = l
               /\ rows' = [k \in DOMAIN rows \cup new |->
                               IF k \in new THEN Seeded(k, seed[k]) ELSE rows[k]]
    BY <1>4 DEF CommitSeed
  <2>3. \A t \in Tables : Count(t) \in Nat
    <3> TAKE t \in Tables
    <3>1. {s \in missing : s[1] = t} \subseteq SeedRows /\ IsFiniteSet(SeedRows)
      BY <1>2, RecordsConstants
    <3> QED
      BY <3>1, FS_Subset, FS_CardinalityType
  <2>4. /\ new \in SUBSET Keys
        /\ \A k \in new : k[2] >= nextId[k[1]] /\ k[2] < nextId[k[1]] + Count(k[1])
    OBVIOUS
  <2> HIDE DEF missing, Count, new
  <2>5. nextId \in [Tables -> 1..(MaxId + 1)] /\ \A k \in DOMAIN rows : k[2] < nextId[k[1]]
    BY <1>1 DEF DbInv, TablesOK
  <2>6. /\ nextId' \in [Tables -> 1..(MaxId + 1)]
        /\ \A t \in Tables : nextId[t] =< nextId'[t]
        /\ \A k \in new : k[2] < nextId'[k[1]]
    <3>1. \A k \in new : k[1] \in Tables
      BY <2>4, KeyParts
    <3> QED
      BY <2>1, <2>3, <2>4, <2>5, <3>1, RecordsConstants
  <2>7. \A k \in new : k \notin DOMAIN rows
    <3>1. \A k \in new : k[1] \in Tables /\ k[2] \in Ids
      BY <2>4, KeyParts
    <3> QED
      BY <2>4, <2>5, <3>1 DEF Ids
  <2>8. /\ DOMAIN rows' = DOMAIN rows \cup new
        /\ \A k \in DOMAIN rows : rows'[k] = rows[k] /\ k \notin new
        /\ \A k \in new : rows'[k] = Seeded(k, seed[k])
    BY <2>2, <2>7
  <2>9. \A k \in new : /\ seed[k] \in Tables \X Names
                       /\ seed[k] = <<k[1], seed[k][2]>> /\ seed[k][2] \in Names
                       /\ seed[k][2] \notin NamesIn(k[1])
    BY <1>2, <2>1, <2>2, RecordsConstants
  <2>10. \A k \in new : /\ rows'[k] \in Row /\ rows'[k].owner = None
                        /\ k[1] = "users" => rows'[k].a # Invalid
                        /\ rows'[k].name = seed[k][2]
    BY <2>8, <2>9, RecordsConstants DEF Row
  <2>11. /\ \A k \in new : rows'[k].name \notin NamesIn(k[1]) /\ OwnerExists(rows'[k].owner)
         /\ \A k, l \in new : k[1] = l[1] /\ rows'[k].name = rows'[l].name => k = l
    BY <2>2, <2>9, <2>10 DEF OwnerExists
  <2>12. DbInv'
    BY <1>1, <2>1, <2>4, <2>6, <2>8, <2>10, <2>11, InsertKeeps
  <2>13. 200 \in Statuses
    BY DEF Statuses
  <2> QED
    BY <2>1, <2>12, <2>13, AnswerMoves
<1> QED
  BY <1>3, <1>4

\* Every step of a request under way.
LEMMA ContinueKeeps ==
    ASSUME Inv, NEW r \in Requests, Continue(r)
    PROVE  Moves(r) /\ DbInv'
<1>1. StateOK(req[r]) /\ ReqInv /\ DbInv
  BY DEF Inv, ReqInv
<1>2. CASE ReadGrants(r)
  <2> DEFINE s == [pc |-> "grants", user |-> req[r].user, wanted |-> req[r].wanted,
                   existing |-> GrantsOf(req[r].user)]
  <2>1. StateOK(s)
    BY <1>1, <1>2 DEF StateOK, ReadGrants, GrantsOf
  <2>2. Proceed(r, s)
    BY <1>2 DEF ReadGrants
  <2> QED
    BY <1>1, <2>1, <2>2, ProceedMoves, SameDb
<1>3. CASE ReadSeed(r)
  <2> DEFINE t == Head(req[r].todo)
             found == req[r].missing \cup {x \in SeedRows : x[1] = t /\ x[2] \notin NamesIn(t)}
             s == [pc |-> "seed", todo |-> Tail(req[r].todo), missing |-> found]
  <2>1. found \in SUBSET SeedRows
    BY <1>1, <1>3 DEF StateOK, ReadSeed
  <2>2. StateOK(s)
    BY <2>1 DEF StateOK
  <2>3. Proceed(r, s)
    BY <1>3 DEF ReadSeed
  <2> QED
    BY <1>1, <2>2, <2>3, ProceedMoves, SameDb
<1>4. CASE Refresh(r)
  <2>1. req[r].status \in Statuses /\ 500 \in Statuses
    BY <1>1, <1>4 DEF StateOK, Refresh, Statuses
  <2> QED
    BY <1>1, <1>4, <2>1, RefuseMoves, SameDb DEF Refresh
<1> QED
  BY <1>2, <1>3, <1>4, CommitCreateKeeps, CommitUpdateKeeps, CommitDeleteKeeps,
     CommitGrantsKeeps, CommitSeedKeeps DEF Continue

\* The invariant is inductive.
LEMMA InvInductive == Inv /\ [Next]_vars => Inv'
<1> SUFFICES ASSUME Inv, [Next]_vars PROVE Inv'
  OBVIOUS
<1>1. CASE Next
  <2>1. PICK r \in Requests : Begin(r) \/ Continue(r)
    BY <1>1 DEF Next
  <2>2. CASE Begin(r)
    <3>1. Moves(r) /\ UNCHANGED db /\ left' \in 0..MaxRequests
      BY <2>2, BeginMoves
    <3> QED
      BY <3>1, MovesKeeps, SameDb DEF Inv
  <2>3. CASE Continue(r)
    <3>1. Moves(r) /\ DbInv'
      BY <2>3, ContinueKeeps
    <3>2. left' \in 0..MaxRequests
      BY <2>3 DEF Continue, Inv, ReqInv
    <3> QED
      BY <3>1, <3>2, MovesKeeps DEF Inv
  <2> QED
    BY <2>1, <2>2, <2>3
<1>2. CASE UNCHANGED vars
  BY <1>2, SameDb DEF Inv, vars, db, ReqInv
<1> QED
  BY <1>1, <1>2

\* The invariant holds in every state.
LEMMA InvAlways == Spec => []Inv
BY InitInv, InvInductive, PTL DEF Spec

\* Every table holds rows of its type under ids its sequence has handed out, no
\* user has an invalid access level, and every request is in a state of its
\* handler, whatever requests interleave.
THEOREM RecordsTypeCorrect == Spec => []TypeOK
<1>1. Inv => TypeOK
  BY DEF Inv, DbInv, TablesOK, ReqInv, StateOK, TypeOK
<1> QED
  BY <1>1, InvAlways, PTL

\* Two requests that both found a name free never both get it: the unique
\* constraints hold, though the handlers check before they insert.
THEOREM NamesStayUnique == Spec => []UniqueNames
<1>1. Inv => UniqueNames
  BY DEF Inv, DbInv
<1> QED
  BY <1>1, InvAlways, PTL

\* A grant has its user and its page, and an owned row its owner, whatever is
\* deleted while other handlers are between their reads and their commit.
THEOREM NothingDangles == Spec => []NoDangling
<1>1. Inv => NoDangling
  BY DEF Inv, DbInv
<1> QED
  BY <1>1, InvAlways, PTL

-----------------------------------------------------------------------------
(* What a single step may do. *)

\* A request that changes is the one whose handler ran; before its first
\* statement it was idle, and after it the database is what it was.
LEMMA WhoMoved ==
    ASSUME Inv, [Next]_vars, NEW q \in Requests, req'[q] # req[q]
    PROVE  \/ req[q] = Idle /\ UNCHANGED db
           \/ Continue(q)
<1>1. Next
  BY DEF vars
<1>2. PICK r \in Requests : Begin(r) \/ Continue(r)
  BY <1>1 DEF Next
<1>3. Moves(r) /\ (Begin(r) => UNCHANGED db)
  BY <1>2, BeginMoves, ContinueKeeps
<1>4. q = r
  BY <1>3 DEF Moves, Inv, ReqInv
<1> QED
  BY <1>2, <1>3, <1>4 DEF Begin

\* No request that ends in an error leaves anything behind, and the one kind of
\* error that follows a commit is a row that is gone again.
THEOREM ErrorsChangeNothing == Spec => FailedChangesNothing
<1> DEFINE A == \A r \in Requests : req'[r] # req[r] =>
          /\ ~(req'[r].pc = "refresh" \/ (Ends(r) /\ last' < 400)) => UNCHANGED db
          /\ Ends(r) /\ req[r].pc = "refresh" /\ last' >= 400
                 => req[r].key \notin DOMAIN rows'
<1>1. Inv /\ [Next]_vars => [A]_vars
  <2> SUFFICES ASSUME Inv, [Next]_vars, NEW r \in Requests, req'[r] # req[r]
               PROVE  /\ ~(req'[r].pc = "refresh" \/ (Ends(r) /\ last' < 400)) => UNCHANGED db
                      /\ Ends(r) /\ req[r].pc = "refresh" /\ last' >= 400
                             => req[r].key \notin DOMAIN rows'
    OBVIOUS
  <2>1. StateOK(req[r]) /\ req = [q \in Requests |-> req[q]]
    BY DEF Inv, ReqInv
  <2>2. CASE req[r] = Idle /\ UNCHANGED db
    BY <2>2 DEF Ends, Idle
  <2>3. CASE Continue(r)
    <3>1. CASE ReadGrants(r) \/ ReadSeed(r)
      BY <3>1 DEF ReadGrants, ReadSeed, Proceed
    <3>2. CASE CommitCreate(r)
      BY <2>1, <3>2 DEF CommitCreate, Refuse, Committed
    <3>3. CASE CommitUpdate(r)
      BY <2>1, <3>3 DEF CommitUpdate, Refuse, Committed
    <3>4. CASE CommitDelete(r)
      BY <2>1, <3>4 DEF CommitDelete, Refuse, Answer, Ends, Idle
    <3>5. CASE CommitGrants(r)
      BY <2>1, <3>5 DEF CommitGrants, Refuse, Answer, Ends, Idle
    <3>6. CASE CommitSeed(r)
      BY <2>1, <3>6 DEF CommitSeed, Refuse, Answer, Ends, Idle
    <3>7. CASE Refresh(r)
      BY <2>1, <3>7 DEF Refresh, Refuse, Answer, StateOK, db
    <3> QED
      BY <2>3, <3>1, <3>2, <3>3, <3>4, <3>5, <3>6, <3>7 DEF Continue
  <2> QED
    BY <2>2, <2>3, WhoMoved
<1> HIDE DEF A
<1>2. Spec => [][A]_vars
  BY <1>1, InvAlways, PTL DEF Spec
<1> QED
  BY <1>2 DEF A, FailedChangesNothing

\* A create of a parameter or of a unit definition that is beaten to the name is
\* answered 409, however the two creates interleave.
THEOREM LostCreateIsConflict == Spec => ConflictIs409
<1> DEFINE A == \A r \in Requests :
          Ends(r) /\ req[r].pc = "create" /\ req[r].table \in {"parameters", "unit_defs"}
              => last' = 409
<1>1. Inv /\ [Next]_vars => [A]_vars
  <2> SUFFICES ASSUME Inv, [Next]_vars, NEW r \in Requests, Ends(r), req[r].pc = "create",
                      req[r].table \in {"parameters", "unit_defs"}
               PROVE  last' = 409
    OBVIOUS
  <2>1. CommitCreate(r)
    <3>1. req'[r] # req[r] /\ req[r] # Idle
      BY DEF Ends
    <3>2. Continue(r)
      BY <3>1, WhoMoved
    <3> QED
      BY <3>2 DEF Continue, ReadGrants, CommitGrants, CommitUpdate, Refresh, CommitDelete,
                  ReadSeed, CommitSeed
  <2>2. ~Committed(r, <<req[r].table, nextId[req[r].table]>>, 201)
    BY DEF Committed, Ends, Idle, Inv, ReqInv
  <2> QED
    BY <2>1, <2>2 DEF CommitCreate, Refuse, Answer, ConflictCaught
<1> HIDE DEF A
<1>2. Spec => [][A]_vars
  BY <1>1, InvAlways, PTL DEF Spec
<1> QED
  BY <1>2 DEF A, ConflictIs409

\* Updates of two columns of one row, loaded at the same time, both last.
THEOREM UpdatesAllLast == Spec => NoLostUpdate
<1> DEFINE A == \A r \in Requests :
          req[r].pc = "update" /\ req'[r].pc = "refresh" =>
              /\ \A f \in {"name", "owner", "a", "b"} \ {req[r].field} :
                     rows'[req[r].key][f] = rows[req[r].key][f]
              /\ \A k \in DOMAIN rows \ {req[r].key} : rows'[k] = rows[k]
<1>1. Inv /\ [Next]_vars => [A]_vars
  <2> SUFFICES ASSUME Inv, [Next]_vars, NEW r \in Requests,
                      req[r].pc = "update", req'[r].pc = "refresh"
               PROVE  /\ \A f \in {"name", "owner", "a", "b"} \ {req[r].field} :
                             rows'[req[r].key][f] = rows[req[r].key][f]
                      /\ \A k \in DOMAIN rows \ {req[r].key} : rows'[k] = rows[k]
    OBVIOUS
  <2> DEFINE key == req[r].key
             new == Updated(key, req[r].loaded, req[r].field, req[r].value)
  <2>1. CommitUpdate(r)
    <3>1. req'[r] # req[r] /\ req[r] # Idle
      BY DEF Idle
    <3>2. Continue(r)
      BY <3>1, WhoMoved
    <3> QED
      BY <3>2 DEF Continue, ReadGrants, CommitGrants, CommitCreate, Refresh, CommitDelete,
                  ReadSeed, CommitSeed
  <2>2. key \in DOMAIN rows /\ rows' = With(key, new)
    <3>1. ~Refuse(r, 500)
      BY DEF Refuse, Answer, Idle, Inv, ReqInv
    <3> QED
      BY <2>1, <3>1 DEF CommitUpdate
  <2>3. \A f \in {"name", "owner", "a", "b"} \ {req[r].field} : new[f] = rows[key][f]
    <3>1. DbInv /\ StateOK(req[r])
      BY DEF Inv, ReqInv
    <3>2. \/ req[r].field \in {"a", "b"} /\ req[r].value \in Values
          \/ req[r].field = "name" /\ req[r].value \in Names
      BY <3>1 DEF StateOK
    <3> QED
      BY <2>2, <3>1, <3>2, UpdatedColumns
  <2> HIDE DEF key, new
  <2>4. rows'[key] = new /\ \A k \in DOMAIN rows \ {key} : rows'[k] = rows[k]
    BY <2>2 DEF With
  <2> QED
    BY <2>3, <2>4 DEF key
<1> HIDE DEF A
<1>2. Spec => [][A]_vars
  BY <1>1, InvAlways, PTL DEF Spec
<1> QED
  BY <1>2 DEF A, NoLostUpdate

\* A PUT of a user's pages that succeeds leaves just the pages asked for, if
\* nobody changed the user's grants since it read them, and in any case takes
\* nobody else's away.
THEOREM GrantsAreReplaced == Spec => GrantsReplaced
<1> DEFINE A == \A r \in Requests :
          Ends(r) /\ req[r].pc = "grants" /\ last' = 200 =>
              /\ req[r].existing = GrantsOf(req[r].user)
                     => {g[2] : g \in {h \in grants' : h[1] = req[r].user}} = req[r].wanted
              /\ grants \ grants' \subseteq GrantsOf(req[r].user)
<1>1. Inv /\ [Next]_vars => [A]_vars
  <2> SUFFICES ASSUME Inv, [Next]_vars, NEW r \in Requests,
                      Ends(r), req[r].pc = "grants", last' = 200
               PROVE  /\ req[r].existing = GrantsOf(req[r].user)
                             => {g[2] : g \in {h \in grants' : h[1] = req[r].user}} = req[r].wanted
                      /\ grants \ grants' \subseteq GrantsOf(req[r].user)
    OBVIOUS
  <2>1. CommitGrants(r)
    <3>1. req'[r] # req[r] /\ req[r] # Idle
      BY DEF Ends
    <3>2. Continue(r)
      BY <3>1, WhoMoved
    <3> QED
      BY <3>2 DEF Continue, ReadGrants, CommitUpdate, CommitCreate, Refresh, CommitDelete,
                  ReadSeed, CommitSeed
  <2>2. grants' = (grants \ req[r].existing) \cup {<<req[r].user, p>> : p \in req[r].wanted}
    BY <2>1 DEF CommitGrants, Refuse, Answer, Replaced
  <2>3. \A g \in req[r].existing : g[1] = req[r].user
    BY DEF Inv, ReqInv, StateOK
  <2> DEFINE u == req[r].user
             wanted == req[r].wanted
  <2>4. ASSUME req[r].existing = GrantsOf(u)
        PROVE  {g[2] : g \in {h \in grants' : h[1] = u}} = wanted
    <3>1. {h \in grants' : h[1] = u} = {<<u, p>> : p \in wanted}
      BY <2>2, <2>4 DEF GrantsOf
    <3> DEFINE granted == {g[2] : g \in {h \in grants' : h[1] = u}}
    <3>2. ASSUME NEW p \in granted PROVE p \in wanted
      <4>1. PICK g \in {h \in grants' : h[1] = u} : p = g[2]
        BY <3>2
      <4> QED
        BY <3>1, <4>1
    <3>3. ASSUME NEW p \in wanted PROVE p \in granted
      <4>1. <<u, p>> \in {h \in grants' : h[1] = u} /\ <<u, p>>[2] = p
        BY <3>1, <3>3
      <4> QED
        BY <4>1, Zenon
    <3> HIDE DEF granted
    <3>4. granted = wanted
      BY <3>2, <3>3
    <3> QED
      BY <3>4 DEF granted
  <2>5. grants \ grants' \subseteq GrantsOf(u)
    BY <2>2, <2>3 DEF GrantsOf
  <2> QED
    BY <2>4, <2>5
<1> HIDE DEF A
<1>2. Spec => [][A]_vars
  BY <1>1, InvAlways, PTL DEF Spec
<1> QED
  BY <1>2, PTL DEF A, GrantsReplaced
=============================================================================
