------------------------------ MODULE Records ------------------------------
(***************************************************************************)
(* The REST handlers over the database: users and page grants (api/        *)
(* admin.py), pages, parameters, unit definitions, server connections and  *)
(* saved searches, and the seed that runs at startup                       *)
(* (db/seed.py).  Each handler is a coroutine with a session of its own:   *)
(* it reads, decides, and commits later, and other requests commit in      *)
(* between.                                                                *)
(*                                                                         *)
(* One action is one statement or one commit.  The database is PostgreSQL  *)
(* at READ COMMITTED: a commit applies everything or, if it violates a     *)
(* unique constraint or a foreign key of db/models.py, nothing, and raises.*)
(* A row is [name, owner, a, b]: its natural key, the user it belongs to   *)
(* and two of its other columns.  Of a user, a is the access level and b   *)
(* is 0 while it is active; of a unit definition, a is the expression.     *)
(***************************************************************************)
EXTENDS Integers, FiniteSets, Sequences

CONSTANTS
    None,
    Requests,     \* how many requests are handled at a time
    Tables,       \* the tables of this instance
    Names,
    Values,       \* of a column, which 0 and Invalid are among
    Invalid,      \* no access level, and no expression the unit engine takes
    InitialRows,  \* the tables at first
    SeedRows,     \* the rows of the seed: a set of <<table, name>>
    SeedOrder,    \* the tables in the order in which the seed reads them
    MaxId,        \* bound: the ids of a table are 1..MaxId
    MaxRequests   \* bound: the requests made

AllTables == {"users", "pages", "parameters", "unit_defs", "server_connections",
              "saved_searches"}

\* Mutant: the mnemonic of a parameter is only an index.
UniqueButParameters == {"users", "unit_defs", "server_connections"}

\* unique=True and UniqueConstraint in models.py.
Unique == {"users", "parameters", "unit_defs", "server_connections"}

\* The handlers that look the name up before they insert.
Prechecked == {"users", "parameters", "server_connections"}

\* Mutant: only create_unit turns a failed commit into a 409.
ConflictCaughtUnits == {"unit_defs"}

\* The handlers that turn a failed commit into a 409.
ConflictCaught == {"parameters", "unit_defs"}

\* Tables with a PUT; owned tables have a foreign key to users.
Updatable == {"users", "pages", "parameters", "server_connections"}
Owned == {"pages", "saved_searches"}

\* access_level: the rank in _LEVEL_RANK that the mutations of a table require.
SuperAdmin == 2
Floor(table) ==
    CASE table = "users" -> SuperAdmin [] table = "server_connections" -> 1 [] OTHER -> 0

ASSUME RecordsConstants ==
    /\ Tables \subseteq AllTables /\ {"users", "pages"} \subseteq Tables
    /\ Values \subseteq Nat /\ {0, Invalid} \subseteq Values
    /\ MaxId \in Nat /\ MaxRequests \in Nat
    /\ SuperAdmin \in Values \ {Invalid}
    /\ SeedRows \subseteq Tables \X Names /\ IsFiniteSet(SeedRows)
    /\ \A s \in SeedRows : \E i \in DOMAIN SeedOrder : SeedOrder[i] = s[1]
    /\ None \notin Names /\ None \notin Nat

Ids == 1..MaxId
Keys == Tables \X Ids
Row == [name : Names, owner : Ids \cup {None}, a : Values, b : Values]

InitialIn(table) == {k \in DOMAIN InitialRows : k[1] = table}

\* The tables at first are ones the handlers could have left: the ids are those
\* the sequences have handed out, and the constraints of models.py hold.
ASSUME InitialRowsConsistent ==
    /\ DOMAIN InitialRows \subseteq Keys
    /\ \A t \in Tables :
           /\ Cardinality(InitialIn(t)) \in 0..MaxId
           /\ \A k \in InitialIn(t) : k[2] =< Cardinality(InitialIn(t))
           /\ t \in Unique => \A k, l \in InitialIn(t) :
                                 InitialRows[k].name = InitialRows[l].name => k = l
    /\ \A k \in DOMAIN InitialRows :
           /\ InitialRows[k] \in Row
           /\ k[1] = "users" => InitialRows[k].a # Invalid
           /\ InitialRows[k].owner # None
                  => <<"users", InitialRows[k].owner>> \in DOMAIN InitialRows

VARIABLES
    rows,    \* the tables: a function from <<table, id>> to rows
    nextId,  \* the sequence of each table's primary key
    grants,  \* page_grants: a set of <<user, page>>
    req,     \* the requests being handled
    last,    \* the status of the request that ended last
    left     \* the requests that may still be made

vars == <<rows, nextId, grants, req, last, left>>
db == <<rows, nextId, grants>>

Idle == [pc |-> "idle"]

Init ==
    /\ rows = InitialRows
    /\ nextId = [t \in Tables |-> 1 + Cardinality(InitialIn(t))]
    /\ grants = {}
    /\ req = [r \in Requests |-> Idle]
    /\ last = None /\ left = MaxRequests

-----------------------------------------------------------------------------
(* What a handler reads and what a commit does. *)

Of(table) == {k \in DOMAIN rows : k[1] = table}
NamesIn(table) == {rows[k].name : k \in Of(table)}
GrantsOf(u) == {g \in grants : g[1] = u}

\* require_level over get_current_user: the status for a caller, who is known by
\* the username in the token; 200 if it may.
Authorized(caller, floor) ==
    LET users == {rows[k] : k \in {k \in Of("users") : rows[k].name = caller /\ rows[k].b = 0}}
    IN  CASE floor = 0                      -> 200
          [] users = {}                     -> 401
          [] \E u \in users : u.a < floor   -> 403
          [] OTHER                          -> 200

\* Mutant: the access level of a user is not validated.
CheckedUnits(table, value) ==
    IF table = "unit_defs" /\ value = Invalid THEN 400 ELSE 200

\* _validate_level, and create_unit's validate of the expression.
Checked(table, value) ==
    CASE table = "users" /\ value = Invalid     -> 422
      [] table = "unit_defs" /\ value = Invalid -> 400
      [] OTHER                                  -> 200

With(key, row) == [k \in DOMAIN rows \cup {key} |-> IF k = key THEN row ELSE rows[k]]
Without(key) == [k \in DOMAIN rows \ {key} |-> rows[k]]

OwnerExists(owner) == owner = None \/ <<"users", owner>> \in DOMAIN rows

\* The answer ends the request.
Answer(r, status) == req' = [req EXCEPT ![r] = Idle] /\ last' = status
Refuse(r, status) == Answer(r, status) /\ UNCHANGED db
Proceed(r, state) == req' = [req EXCEPT ![r] = state] /\ UNCHANGED <<db, last>>

\* session.refresh comes after the commit.
Committed(r, key, status) ==
    /\ req' = [req EXCEPT ![r] = [pc |-> "refresh", key |-> key, status |-> status]]
    /\ UNCHANGED last

-----------------------------------------------------------------------------
(* The first part of each handler: up to what it has read. *)

BeginCreate(r, caller, table, name, owner, value) ==
    LET auth == Authorized(caller, Floor(table))
        checked == Checked(table, value)
    IN  /\ owner # None => table \in Owned
        /\ value # 0 => table \in {"users", "unit_defs"}
        /\ IF auth # 200 THEN Refuse(r, auth)
           ELSE IF checked # 200 THEN Refuse(r, checked)
           ELSE IF table \in Prechecked /\ name \in NamesIn(table) THEN Refuse(r, 409)
           ELSE Proceed(r, [pc |-> "create", table |-> table,
                            row |-> [name |-> name, owner |-> owner, a |-> value, b |-> 0]])

\* Of the natural keys only a server's name can be updated.
BeginUpdate(r, caller, key, field, value) ==
    LET auth == Authorized(caller, Floor(key[1]))
        checked == IF field = "a" THEN Checked(key[1], value) ELSE 200
    IN  /\ key[1] \in Updatable /\ (field = "name" => key[1] = "server_connections")
        /\ value = Invalid => field = "a" /\ key[1] = "users"
        /\ IF auth # 200 THEN Refuse(r, auth)
           ELSE IF checked # 200 THEN Refuse(r, checked)
           ELSE IF key \notin DOMAIN rows THEN Refuse(r, 404)
           ELSE Proceed(r, [pc |-> "update", key |-> key, field |-> field,
                            value |-> value, loaded |-> rows[key]])

BeginDelete(r, caller, key) ==
    LET auth == Authorized(caller, Floor(key[1]))
    IN  IF auth # 200 THEN Refuse(r, auth)
        ELSE IF key \notin DOMAIN rows THEN Refuse(r, 404)
        ELSE Proceed(r, [pc |-> "delete", key |-> key])

BeginDuplicate(r, page) ==
    IF <<"pages", page>> \notin DOMAIN rows THEN Refuse(r, 404)
    ELSE Proceed(r, [pc |-> "create", table |-> "pages", row |-> rows[<<"pages", page>>]])

\* set_user_pages: the user and the pages must be there.
BeginGrants(r, caller, u, wanted) ==
    LET auth == Authorized(caller, SuperAdmin)
    IN  IF auth # 200 THEN Refuse(r, auth)
        ELSE IF <<"users", u>> \notin DOMAIN rows THEN Refuse(r, 404)
        ELSE IF \E p \in wanted : <<"pages", p>> \notin DOMAIN rows THEN Refuse(r, 404)
        ELSE Proceed(r, [pc |-> "read_grants", user |-> u, wanted |-> wanted])

\* Mutant: the old grants are committed away before the new ones are added.
ReadGrantsDeleting(r) ==
    /\ req[r].pc = "read_grants"
    /\ grants' = grants \ GrantsOf(req[r].user)
    /\ req' = [req EXCEPT ![r] = [pc |-> "grants", user |-> req[r].user,
                                  wanted |-> req[r].wanted, existing |-> {}]]
    /\ UNCHANGED <<rows, nextId, last>>

ReadGrants(r) ==
    /\ req[r].pc = "read_grants"
    /\ Proceed(r, [pc |-> "grants", user |-> req[r].user, wanted |-> req[r].wanted,
                   existing |-> GrantsOf(req[r].user)])

\* run_seed: it reads table after table, and adds the rows it finds missing.
BeginSeed(r) == Proceed(r, [pc |-> "seed", todo |-> SeedOrder, missing |-> {}])

ReadSeed(r) ==
    /\ req[r].pc = "seed" /\ req[r].todo # <<>>
    /\ LET t == Head(req[r].todo)
       IN  Proceed(r, [pc |-> "seed", todo |-> Tail(req[r].todo),
                       missing |-> req[r].missing \cup
                           {s \in SeedRows : s[1] = t /\ s[2] \notin NamesIn(t)}])

-----------------------------------------------------------------------------
(* The commits. *)

\* An insert with a fresh id.
CommitCreate(r) ==
    LET t == req[r].table
        row == req[r].row
        key == <<t, nextId[t]>>
        failed == (t \in Unique /\ row.name \in NamesIn(t)) \/ ~OwnerExists(row.owner)
    IN  /\ req[r].pc = "create"
        /\ IF failed
           THEN Refuse(r, IF t \in ConflictCaught THEN 409 ELSE 500)
           ELSE /\ nextId[t] =< MaxId
                /\ rows' = With(key, row)
                /\ nextId' = [nextId EXCEPT ![t] = @ + 1]
                /\ Committed(r, key, 201) /\ UNCHANGED grants

\* Mutant: the row is written back as it was loaded, with the new value in it.
UpdatedWhole(key, loaded, field, value) == [loaded EXCEPT ![field] = value]

\* The columns that were set to something else than was loaded are updated.
Updated(key, loaded, field, value) ==
    IF loaded[field] = value THEN rows[key] ELSE [rows[key] EXCEPT ![field] = value]

\* A row that is gone by now, or a name that is taken, raises.
CommitUpdate(r) ==
    LET key == req[r].key
        new == Updated(key, req[r].loaded, req[r].field, req[r].value)
        taken == {rows[k].name : k \in Of(key[1]) \ {key}}
    IN  /\ req[r].pc = "update"
        /\ IF key \notin DOMAIN rows \/ (key[1] \in Unique /\ new.name \in taken)
           THEN Refuse(r, 500)
           ELSE /\ rows' = With(key, new)
                /\ Committed(r, key, 200) /\ UNCHANGED <<nextId, grants>>

\* What was committed may be gone before it is read back.
Refresh(r) ==
    /\ req[r].pc = "refresh"
    /\ Refuse(r, IF req[r].key \in DOMAIN rows THEN req[r].status ELSE 500)

\* Mutant: only the grants of a user who is deleted go with it.
CascadeUsersOnly(key) ==
    {g \in grants : ~(key[1] = "users" /\ g[1] = key[2])}

\* The grants left after a delete: those of the user, or of the page, are gone.
Cascade(key) ==
    {g \in grants : ~(key[1] = "users" /\ g[1] = key[2]) /\ ~(key[1] = "pages" /\ g[2] = key[2])}

\* A row that somebody else has deleted is not missed.  A user who owns a page
\* or a saved search cannot be deleted.
CommitDelete(r) ==
    LET key == req[r].key
        owned == key[1] = "users" /\ \E k \in DOMAIN rows : rows[k].owner = key[2]
    IN  /\ req[r].pc = "delete"
        /\ IF owned THEN Refuse(r, 500)
           ELSE /\ rows' = Without(key) /\ grants' = Cascade(key)
                /\ Answer(r, 204) /\ UNCHANGED nextId

\* Mutant: the old grants stay.
ReplacedAdding(existing, new) == grants \cup new

Replaced(existing, new) == (grants \ existing) \cup new

\* The flush inserts before it deletes, so a page the user keeps violates
\* uq_page_grant, as does one another request has granted meanwhile.
CommitGrants(r) ==
    LET u == req[r].user
        new == {<<u, p>> : p \in req[r].wanted}
        dangling == new # {} /\ (<<"users", u>> \notin DOMAIN rows
                                 \/ \E g \in new : <<"pages", g[2]>> \notin DOMAIN rows)
    IN  /\ req[r].pc = "grants"
        /\ IF dangling \/ new \cap grants # {} THEN Refuse(r, 500)
           ELSE grants' = Replaced(req[r].existing, new) /\ Answer(r, 200)
                /\ UNCHANGED <<rows, nextId>>

\* All the missing rows or none, under the next ids of their tables; a failure is
\* logged and the application starts.  The seeded user is a super admin.
CommitSeed(r) ==
    LET missing == req[r].missing
        Count(t) == Cardinality({s \in missing : s[1] = t})
        new == {k \in Keys : k[2] >= nextId[k[1]] /\ k[2] < nextId[k[1]] + Count(k[1])}
        Seeded(k, s) == [name |-> s[2], owner |-> None,
                         a |-> IF k[1] = "users" THEN SuperAdmin ELSE 0, b |-> 0]
    IN  /\ req[r].pc = "seed" /\ req[r].todo = <<>>
        /\ IF \E s \in missing : s[2] \in NamesIn(s[1]) THEN Refuse(r, 500)
           ELSE /\ \A t \in Tables : nextId[t] + Count(t) =< MaxId + 1
                /\ \E seed \in [new -> missing] :
                       /\ \A k \in new : seed[k][1] = k[1]
                       /\ \A k, l \in new : seed[k] = seed[l] => k = l
                       /\ rows' = [k \in DOMAIN rows \cup new |->
                                     IF k \in new THEN Seeded(k, seed[k]) ELSE rows[k]]
                /\ nextId' = [t \in Tables |-> nextId[t] + Count(t)]
                /\ Answer(r, 200) /\ UNCHANGED grants

-----------------------------------------------------------------------------
Begin(r) ==
    /\ req[r] = Idle /\ left > 0 /\ left' = left - 1
    /\ \/ \E c \in Names, t \in Tables, n \in Names, o \in Ids \cup {None}, v \in Values :
              BeginCreate(r, c, t, n, o, v)
       \/ \E c \in Names, k \in Keys :
              \/ \E f \in {"a", "b", "name"} : \E v \in IF f = "name" THEN Names ELSE Values :
                     BeginUpdate(r, c, k, f, v)
              \/ BeginDelete(r, c, k)
       \/ \E p \in Ids : BeginDuplicate(r, p)
       \/ \E c \in Names, u \in Ids, w \in SUBSET Ids : BeginGrants(r, c, u, w)
       \/ BeginSeed(r)

Continue(r) ==
    /\ UNCHANGED left
    /\ \/ ReadGrants(r) \/ CommitGrants(r)
       \/ CommitCreate(r) \/ CommitUpdate(r) \/ Refresh(r) \/ CommitDelete(r)
       \/ ReadSeed(r) \/ CommitSeed(r)

Next == \E r \in Requests : Begin(r) \/ Continue(r)

Spec == Init /\ [][Next]_vars

-----------------------------------------------------------------------------
(* Properties. *)

Statuses == {200, 201, 204, 400, 401, 403, 404, 409, 422, 500}

\* The tables hold rows under ids that were handed out, of a user with a valid
\* access level, and a request is in a state of its handler.
TypeOK ==
    /\ DOMAIN rows \subseteq Keys /\ \A k \in DOMAIN rows : rows[k] \in Row
    /\ nextId \in [Tables -> 1..(MaxId + 1)]
    /\ \A k \in DOMAIN rows : k[2] < nextId[k[1]]
    /\ \A k \in Of("users") : rows[k].a # Invalid
    /\ grants \subseteq Ids \X Ids
    /\ \A r \in Requests : req[r].pc \in
           {"idle", "create", "update", "refresh", "delete", "read_grants", "grants", "seed"}
    /\ last \in Statuses \cup {None} /\ left \in 0..MaxRequests

\* Two requests that both found a name free do not both get it.
UniqueNames ==
    \A t \in Tables \cap {"users", "parameters", "unit_defs", "server_connections"} :
        \A k, l \in Of(t) : rows[k].name = rows[l].name => k = l

\* Whatever is deleted while somebody else is granting or creating, a grant has
\* its user and its page, and an owned row its owner.
NoDangling ==
    /\ \A g \in grants : {<<"users", g[1]>>, <<"pages", g[2]>>} \subseteq DOMAIN rows
    /\ \A k \in DOMAIN rows : OwnerExists(rows[k].owner)

Ends(r) == req[r] # Idle /\ req'[r] = Idle

\* A request that is answered with an error has left nothing of it behind: no
\* step but a commit that succeeds changes the database, and when the answer is
\* an error all the same, because the row could not be read back, the row is gone.
FailedChangesNothing ==
    [][\A r \in Requests : req'[r] # req[r] =>
          /\ ~(req'[r].pc = "refresh" \/ (Ends(r) /\ last' < 400)) => UNCHANGED db
          /\ Ends(r) /\ req[r].pc = "refresh" /\ last' >= 400
                 => req[r].key \notin DOMAIN rows']_vars

\* "409 if the mnemonic already exists": a create of a parameter or of a unit
\* definition that loses a race to another is answered 409, never 500.
ConflictIs409 ==
    [][\A r \in Requests :
          Ends(r) /\ req[r].pc = "create" /\ req[r].table \in {"parameters", "unit_defs"}
              => last' = 409]_vars

\* Updates of two columns of a row, read at the same time, both last: a commit
\* changes the column it was asked to, and no other.
NoLostUpdate ==
    [][\A r \in Requests :
          req[r].pc = "update" /\ req'[r].pc = "refresh" =>
              /\ \A f \in {"name", "owner", "a", "b"} \ {req[r].field} :
                     rows'[req[r].key][f] = rows[req[r].key][f]
              /\ \A k \in DOMAIN rows \ {req[r].key} : rows'[k] = rows[k]]_vars

\* "Replaced wholesale": a PUT of page grants that succeeds, and that no other
\* change of the user's grants came between, leaves just the pages asked for;
\* and nobody else's grants change.
GrantsReplaced ==
    [][\A r \in Requests :
          Ends(r) /\ req[r].pc = "grants" /\ last' = 200 =>
              /\ req[r].existing = GrantsOf(req[r].user)
                     => {g[2] : g \in {h \in grants' : h[1] = req[r].user}} = req[r].wanted
              /\ grants \ grants' \subseteq GrantsOf(req[r].user)]_vars
=============================================================================
