--------------------------- MODULE ReadApiProofs ---------------------------
(***************************************************************************)
(* The requests that are put together from several reads, for any wells,   *)
(* wellbores, mudLogs and curves, and any number of changes, failures and  *)
(* requests.                                                               *)
(***************************************************************************)
EXTENDS ReadApi, PollingProofs

-----------------------------------------------------------------------------
(* The store and its clients. *)

\* What the store holds is from the catalogue; what was there when the request
\* began, and has not been deleted, is still there, with all its intervals.
StoreInv ==
    /\ DOMAIN objs \subseteq DOMAIN Objects /\ DOMAIN asof \subseteq DOMAIN objs
    /\ \A k \in DOMAIN objs : k.kind = "mudLog" => objs[k] \in MudLogs
    /\ \A k \in DOMAIN asof : k.kind = "mudLog" =>
           ToSet(asof[k].intervals) \subseteq ToSet(objs[k].intervals)

\* What was there when the request began can only become less.
AsofShrinks ==
    /\ DOMAIN asof' \subseteq DOMAIN asof
    /\ \A k \in DOMAIN asof' : asof'[k] = asof[k]

\* Appending an interval gives a mudLog with all the intervals it had.
LEMMA GrownMudLog ==
    ASSUME NEW log \in MudLogs, NEW iv \in [top : Int, bottom : Int]
    PROVE  LET after == [log EXCEPT !.growing = @ \/ <<iv>> # <<>>, !.intervals = @ \o <<iv>>]
           IN  after \in MudLogs /\ ToSet(log.intervals) \subseteq ToSet(after.intervals)
<1> DEFINE g == log.growing \/ <<iv>> # <<>>
           ivs == log.intervals \o <<iv>>
           after == [log EXCEPT !.growing = g, !.intervals = ivs]
<1>1. log.intervals \in Seq([top : Int, bottom : Int]) /\ log.growing \in BOOLEAN
  BY DEF MudLogs
<1>2. g \in BOOLEAN
  OBVIOUS
<1>3. ivs \in Seq([top : Int, bottom : Int])
  BY <1>1
<1>4. DOMAIN log.intervals \subseteq DOMAIN ivs /\ \A n \in DOMAIN log.intervals : ivs[n] = log.intervals[n]
  BY <1>1
<1> HIDE DEF g, ivs
<1>5. after.intervals = ivs /\ after \in MudLogs
  BY <1>2, <1>3 DEF MudLogs
<1>6. ToSet(log.intervals) \subseteq ToSet(ivs)
  BY <1>4 DEF ToSet
<1> QED BY <1>5, <1>6 DEF g, ivs

\* The kinds of the catalogue.
LEMMA CatalogueFacts ==
    ASSUME NEW k \in DOMAIN Objects
    PROVE  /\ k.kind \in Kinds /\ k.kind # "log"
           /\ k.kind = "mudLog" => Objects[k] \in MudLogs
<1>1. k.kind \in {"well", "wellbore", "mudLog"} /\ (k.kind = "mudLog" => Objects[k] \in MudLogs)
  BY ReadApiConstants, Zenon
<1> QED BY <1>1 DEF Kinds

\* The return codes differ.
LEMMA CodesDiffer == Success # Duplicate /\ Success # BadInput /\ Success # NotFound
  BY SMT DEF Success, Duplicate, BadInput, NotFound

\* An add of another client keeps what was there.
LEMMA AddKeepsStore ==
    ASSUME StoreInv, NEW key \in DOMAIN Objects, Add(key)
    PROVE  StoreInv' /\ AsofShrinks
<1>1. asof' = asof /\ AddCode(objs, key) = Success /\ objs' = AddObject(objs, key, Objects[key], NoBatch)
  BY DEF Add
<1>2. key \notin DOMAIN objs
  BY <1>1, CodesDiffer DEF AddCode
<1>3. objs' = Put(objs, key, Objects[key])
  BY <1>1, CatalogueFacts DEF AddObject
<1>4. DOMAIN objs' = DOMAIN objs \cup {key} /\ objs'[key] = Objects[key]
      /\ \A k \in DOMAIN objs : objs'[k] = objs[k]
  BY <1>2, <1>3 DEF Put
<1>5. key.kind = "mudLog" => Objects[key] \in MudLogs
  BY CatalogueFacts
<1> QED BY <1>1, <1>2, <1>4, <1>5 DEF StoreInv, AsofShrinks

\* An update of a mudLog keeps what was there.
LEMMA GrowKeepsStore ==
    ASSUME StoreInv, NEW key \in DOMAIN Objects, NEW iv \in [top : Int, bottom : Int], Grow(key, iv)
    PROVE  StoreInv' /\ AsofShrinks
<1> DEFINE new == [objs[key] EXCEPT !.growing = @ \/ <<iv>> # <<>>, !.intervals = @ \o <<iv>>]
<1>1. /\ asof' = asof /\ key.kind = "mudLog" /\ UpdateCode(objs, key) = Success
      /\ objs' = UpdateObject(objs, key, NoBatch, <<iv>>)
  BY DEF Grow
<1>2. key \in DOMAIN objs
  BY <1>1, CodesDiffer DEF UpdateCode
<1>3. objs[key] \in MudLogs
  BY <1>1, <1>2 DEF StoreInv
<1>4. new \in MudLogs /\ ToSet(objs[key].intervals) \subseteq ToSet(new.intervals)
  BY <1>3, GrownMudLog
<1>5. objs' = Put(objs, key, new)
  BY <1>1 DEF UpdateObject
<1> HIDE DEF new
<1>6. DOMAIN objs' = DOMAIN objs /\ \A k \in DOMAIN objs : objs'[k] = IF k = key THEN new ELSE objs[k]
  BY <1>2, <1>5 DEF Put
<1>7. ASSUME NEW k \in DOMAIN asof, k.kind = "mudLog"
      PROVE  ToSet(asof[k].intervals) \subseteq ToSet(objs'[k].intervals)
  <2>1. k \in DOMAIN objs /\ ToSet(asof[k].intervals) \subseteq ToSet(objs[k].intervals)
    BY <1>7 DEF StoreInv
  <2>2. CASE k = key
    <3>1. objs'[k] = new
      BY <1>6, <2>1, <2>2
    <3> QED BY <1>4, <2>1, <2>2, <3>1
  <2>3. CASE k # key
    <3>1. objs'[k] = objs[k]
      BY <1>6, <2>1, <2>3
    <3> QED BY <2>1, <3>1
  <2> QED BY <2>2, <2>3
<1>8. \A k \in DOMAIN objs' : k.kind = "mudLog" => objs'[k] \in MudLogs
  BY <1>4, <1>6 DEF StoreInv
<1> QED BY <1>1, <1>6, <1>7, <1>8 DEF StoreInv, AsofShrinks

\* A delete takes the object out of both.
LEMMA DeleteKeepsStore ==
    ASSUME StoreInv, NEW key, Delete(key)
    PROVE  StoreInv' /\ AsofShrinks
<1>1. objs' = Removed(objs, key) /\ asof' = Removed(asof, key)
  BY DEF Delete, DeleteObject
<1>2. /\ DOMAIN objs' = DOMAIN objs \ {key} /\ DOMAIN asof' = DOMAIN asof \ {key}
      /\ \A k \in DOMAIN objs' : objs'[k] = objs[k]
      /\ \A k \in DOMAIN asof' : asof'[k] = asof[k]
  BY <1>1 DEF Removed
<1> QED BY <1>2 DEF StoreInv, AsofShrinks

\* What a query finds: at least the objects of its kind under the well and the
\* wellbore it names.
LEMMA QueryFinds ==
    ASSUME NEW store, NEW k \in DOMAIN store
    PROVE  /\ k.kind = "well" => k \in Found(store, Query("well", "", ""))
           /\ k.kind = "wellbore" => k \in Found(store, Query("wellbore", k.well, ""))
           /\ k.kind = "mudLog" => k \in Found(store, Query("mudLog", k.well, k.bore))
<1>1. \A q : k.kind = q.kind /\ q.uid = "" /\ q.well \in {"", k.well} /\ q.bore \in {"", k.bore}
                 => k \in Found(store, q)
  BY Zenon DEF Found, Matches
<1>2. ASSUME NEW w \in {"", k.well}, NEW b \in {"", k.bore}
      PROVE  k \in Found(store, Query(k.kind, w, b))
  <2> DEFINE q == Query(k.kind, w, b)
  <2>1. q.kind = k.kind /\ q.well = w /\ q.bore = b /\ q.uid = ""
    BY Zenon DEF Query
  <2> HIDE DEF q
  <2>2. k \in Found(store, q)
    BY <1>1, <2>1, Zenon
  <2> QED BY <2>2, Zenon DEF q
<1>3. k.kind = "well" => k \in Found(store, Query("well", "", ""))
  BY <1>2, Zenon
<1>4. k.kind = "wellbore" => k \in Found(store, Query("wellbore", k.well, ""))
  BY <1>2, Zenon
<1>5. k.kind = "mudLog" => k \in Found(store, Query("mudLog", k.well, k.bore))
  BY <1>2, Zenon
<1> QED BY <1>3, <1>4, <1>5, Zenon

\* The wellbores a query of a well returns, and what they miss.
BoresOf(w) == UidsOf(Found(objs, Query("wellbore", w, "")))

\* Every wellbore of the well is among them.
LEMMA BoreFound ==
    ASSUME NEW k \in DOMAIN objs, k.kind = "wellbore"
    PROVE  k.uid \in BoresOf(k.well)
<1> DEFINE F == Found(objs, Query("wellbore", k.well, ""))
<1>1. k \in F
  BY QueryFinds, Zenon
<1> HIDE DEF F
<1>2. k.uid \in UidsOf(F)
  BY <1>1 DEF UidsOf
<1> QED BY <1>2, Zenon DEF F, BoresOf

\* The intervals of a wellbore's mudLogs hold those of each.
LEMMA LithologyHolds ==
    ASSUME NEW k \in DOMAIN objs, k.kind = "mudLog"
    PROVE  ToSet(objs[k].intervals) \subseteq Lithology(k.well, k.bore)
<1> DEFINE F == Found(objs, Query("mudLog", k.well, k.bore))
<1>1. k \in F
  BY QueryFinds, Zenon
<1> HIDE DEF F
<1>2. \A iv : IntervalInRange(iv, None, None, "any-part")
  BY DEF IntervalInRange
<1>3. ToSet(objs[k].intervals) = IntervalsOf(objs[k], None, None, "any-part")
  BY <1>2 DEF IntervalsOf, ToSet
<1>4. Lithology(k.well, k.bore) = UNION {IntervalsOf(objs[j], None, None, "any-part") : j \in F}
  BY Zenon DEF Lithology, F
<1> QED BY <1>1, <1>3, <1>4

-----------------------------------------------------------------------------
(* The tree. *)

\* A tree under way, or built.
IsTree(r) ==
    r = [op |-> r.op, todo |-> r.todo, failed |-> r.failed,
         got |-> [w \in DOMAIN r.got |-> r.got[w]]]

\* The part of the tree that is due of an object that was there at the start.
InTree(k) ==
    /\ k.kind = "well" => k.uid \in DOMAIN req.got
    /\ k.kind = "wellbore" /\ k.well \in DOMAIN req.got \ (req.failed \cup req.todo)
           => k.uid \in req.got[k.well]

\* A well is in the tree from the start, its wellbores once it was asked for them.
TreeInv ==
    req.op \in {"tree", "treed"} =>
        /\ IsTree(req) /\ (req.op = "treed" => req.todo = {})
        /\ \A k \in DOMAIN asof : InTree(k)

\* The tree begins with every well.
LEMMA BeginTreeKeeps ==
    ASSUME StoreInv, NEW ok \in BOOLEAN, BeginTree(ok)
    PROVE  /\ TreeInv' /\ req'.op \in {"refused", "tree"}
           /\ req'.op = "tree" => DOMAIN req'.got \subseteq Wells
<1> DEFINE wells == UidsOf(Found(objs, Query("well", "", "")))
<1>0. asof' = objs /\ req' \in IF ~ok THEN {[op |-> "refused", status |-> s] : s \in {500, 502}}
                               ELSE {[op |-> "tree", todo |-> wells, failed |-> {},
                                      got |-> [w \in wells |-> {}]]}
  BY Zenon DEF BeginTree, Begins
<1>1. /\ asof' = objs /\ (~ok => req'.op = "refused")
      /\ ok => req' = [op |-> "tree", todo |-> wells, failed |-> {}, got |-> [w \in wells |-> {}]]
  <2> HIDE DEF wells
  <2> QED BY <1>0
<1>2. \A k \in DOMAIN objs : k.kind = "well" => k.uid \in wells
  <2> DEFINE F == Found(objs, Query("well", "", ""))
  <2>1. \A k \in DOMAIN objs : k.kind = "well" => k \in F
    BY QueryFinds, Zenon
  <2> HIDE DEF F
  <2>2. \A k \in F : k.uid \in UidsOf(F)
    BY DEF UidsOf
  <2> QED BY <2>1, <2>2, Zenon DEF F
<1>a. wells \subseteq Wells
  <2> DEFINE F == Found(objs, Query("well", "", ""))
  <2>1. \A q : q.kind = "well" => \A k \in Found(objs, q) : k \in DOMAIN objs /\ k.kind = "well"
    BY Zenon DEF Found, Matches
  <2>2. Query("well", "", "").kind = "well"
    BY Zenon DEF Query
  <2>3. \A k \in F : k \in DOMAIN objs /\ k.kind = "well"
    BY <2>1, <2>2, Zenon
  <2> HIDE DEF F
  <2>4. UidsOf(F) \subseteq Wells
    BY <2>3 DEF UidsOf, Wells, StoreInv
  <2> QED BY <2>4, Zenon DEF F
<1> HIDE DEF wells
<1>3. CASE ~ok
  BY <1>1, <1>3 DEF TreeInv
<1>4. CASE ok
  <2>1. /\ req'.op = "tree" /\ req'.todo = wells /\ req'.failed = {} /\ DOMAIN req'.got = wells
        /\ req'.got = [w \in wells |-> {}]
    BY <1>1, <1>4
  <2>2. IsTree(req')
    BY <1>1, <1>4 DEF IsTree
  <2>3. \A k \in DOMAIN asof' : InTree(k)'
    BY <1>1, <1>2, <2>1 DEF InTree
  <2> QED BY <1>a, <2>1, <2>2, <2>3 DEF TreeInv
<1> QED BY <1>3, <1>4

\* A query of a well's wellbores, answered or not, does what is due of the well.
LEMMA TreeBoresKeeps ==
    ASSUME StoreInv, TreeInv, NEW w, NEW ok \in BOOLEAN, TreeBores(w, ok)
    PROVE  TreeInv' /\ req'.op = "tree" /\ req.op = "tree" /\ DOMAIN req'.got = DOMAIN req.got
<1>1. /\ req.op = "tree" /\ w \in req.todo /\ asof' = asof
      /\ req' = [req EXCEPT !.todo = @ \ {w},
                            !.failed = IF ok THEN @ ELSE @ \cup {w},
                            !.got = [@ EXCEPT ![w] = IF ok THEN BoresOf(w) ELSE {}]]
  BY Zenon DEF TreeBores, Continues, BoresOf
<1>2. IsTree(req) /\ \A k \in DOMAIN asof : InTree(k)
  BY <1>1 DEF TreeInv
<1> DEFINE cell == IF ok THEN BoresOf(w) ELSE {}
           fails == IF ok THEN req.failed ELSE req.failed \cup {w}
           got == [v \in DOMAIN req.got |-> IF v = w THEN cell ELSE req.got[v]]
<1> HIDE DEF cell, fails
<1>3. [req.got EXCEPT ![w] = cell] = got
  BY <1>2 DEF IsTree
<1> HIDE DEF got
<1>a. req' = [req EXCEPT !.todo = req.todo \ {w}, !.failed = fails, !.got = got]
  BY <1>1, <1>3 DEF cell, fails
<1>4. req' = [op |-> "tree", todo |-> req.todo \ {w}, failed |-> fails, got |-> got]
  BY <1>1, <1>2, <1>a DEF IsTree
<1>5. /\ req'.op = "tree" /\ req'.todo = req.todo \ {w} /\ req'.failed = fails /\ req'.got = got
  BY <1>4
<1>6. /\ DOMAIN got = DOMAIN req.got
      /\ \A v \in DOMAIN req.got : got[v] = IF v = w THEN cell ELSE req.got[v]
      /\ got = [v \in DOMAIN got |-> got[v]]
  BY DEF got
<1>7. IsTree(req')
  BY <1>4, <1>5, <1>6 DEF IsTree
<1>8. ASSUME NEW k \in DOMAIN asof PROVE InTree(k)'
  <2>1. InTree(k) /\ k \in DOMAIN objs
    BY <1>2 DEF StoreInv
  <2>2. k.kind = "well" => k.uid \in DOMAIN req'.got
    BY <1>5, <1>6, <2>1 DEF InTree
  <2>3. ASSUME k.kind = "wellbore", k.well \in DOMAIN req'.got \ (req'.failed \cup req'.todo)
        PROVE  k.uid \in req'.got[k.well]
    <3>1. k.well \in DOMAIN req.got /\ k.well \notin fails /\ k.well \notin req.todo \ {w}
      BY <1>5, <1>6, <2>3
    <3>2. CASE k.well = w
      <4>1. ok
        BY <3>1, <3>2 DEF fails
      <4>2. k.uid \in BoresOf(w)
        BY <2>1, <2>3, <3>2, BoreFound
      <4>3. cell = BoresOf(w)
        BY <4>1 DEF cell
      <4> QED BY <1>5, <1>6, <3>1, <3>2, <4>2, <4>3
    <3>3. CASE k.well # w
      <4>1. k.well \notin req.failed \cup req.todo
        BY <3>1, <3>3 DEF fails
      <4>2. k.uid \in req.got[k.well]
        BY <2>1, <2>3, <3>1, <4>1 DEF InTree
      <4> QED BY <1>5, <1>6, <3>1, <3>3, <4>2
    <3> QED BY <3>2, <3>3
  <2> QED BY <2>2, <2>3 DEF InTree
<1> QED BY <1>1, <1>5, <1>6, <1>7, <1>8 DEF TreeInv

\* The last well done, the tree is what was due.
LEMMA FinishTreeKeeps ==
    ASSUME TreeInv, FinishTree
    PROVE  TreeInv' /\ req'.op = "treed"
<1>1. req.op = "tree" /\ req.todo = {} /\ asof' = asof /\ req' = [req EXCEPT !.op = "treed"]
  BY DEF FinishTree, Continues
<1>2. IsTree(req) /\ \A k \in DOMAIN asof : InTree(k)
  BY <1>1 DEF TreeInv
<1> DEFINE got == [w \in DOMAIN req.got |-> req.got[w]]
<1>3. req.got = got
  BY <1>2 DEF IsTree
<1>4. DOMAIN got = DOMAIN req.got
  OBVIOUS
<1>5. req' = [op |-> "treed", todo |-> req.todo, failed |-> req.failed, got |-> req.got]
  BY <1>1, <1>2 DEF IsTree
<1>6. /\ req'.op = "treed" /\ req'.todo = req.todo /\ req'.failed = req.failed /\ req'.got = req.got
  BY <1>5
<1>7. IsTree(req')
  BY <1>3, <1>5, <1>6 DEF IsTree
<1> QED BY <1>1, <1>2, <1>6, <1>7 DEF TreeInv, InTree

-----------------------------------------------------------------------------
(* The comparison. *)

\* A comparison under way, or made.
IsCompare(r) ==
    r = [op |-> r.op, todo |-> r.todo, bores |-> r.bores, failed |-> r.failed,
         got |-> [w \in DOMAIN r.got |-> r.got[w]]]

\* What marks the failed query of a well's wellbores, and the key of a mudLog's
\* wellbore.
WellMark(w) == <<w, "">>
BoreKey(k) == Key("wellbore", k.well, "", k.bore)

\* A mudLog whose intervals the answer owes.
Due(k) ==
    /\ k.kind = "mudLog" /\ k.well \in DOMAIN req.got /\ BoreKey(k) \in DOMAIN asof
    /\ WellMark(k.well) \notin req.failed /\ <<k.well, k.bore>> \notin req.failed

\* The wellbore of a mudLog was asked for: its well is no longer to do, or is the
\* one being done and the wellbore is no longer to do.
Visited(k) ==
    \/ k.well \notin ToSet(req.todo)
    \/ k.well = Head(req.todo) /\ req.bores # None /\ k.bore \notin req.bores

\* What is due of a mudLog that was there at the start.
Compared(k) == Due(k) /\ Visited(k) => ToSet(asof[k].intervals) \subseteq req.got[k.well]

\* A comparison has the intervals of every wellbore it has visited.
CompareInv ==
    req.op \in {"compare", "compared"} =>
        /\ IsCompare(req) /\ req.todo \in Seq(Named)
        /\ (req.op = "compare") = (req.todo # <<>>)
        /\ \A k \in DOMAIN asof : Compared(k)

\* At the start every well is still to do.
LEMMA BeginCompareKeeps ==
    ASSUME NEW n \in Nat, NEW wells \in [1..n -> Named], BeginCompare(wells)
    PROVE  /\ CompareInv' /\ req'.op \in {"refused", "compare"}
           /\ req'.op = "compare" => DOMAIN req'.got \subseteq Named
<1> DEFINE got == [w \in ToSet(wells) |-> {}]
<1>1. asof' = objs /\ req' = IF wells = <<>> \/ Len(wells) > MaxWells THEN [op |-> "refused", status |-> 400]
              ELSE [op |-> "compare", todo |-> wells, bores |-> None, failed |-> {}, got |-> got]
  BY Zenon DEF BeginCompare, Begins
<1>2. wells \in Seq(Named)
  OBVIOUS
<1>3. DOMAIN got = ToSet(wells) /\ got = [w \in DOMAIN got |-> got[w]]
  OBVIOUS
<1> HIDE DEF got
<1>4. CASE wells = <<>> \/ Len(wells) > MaxWells
  BY <1>1, <1>4 DEF CompareInv
<1>5. CASE ~(wells = <<>> \/ Len(wells) > MaxWells)
  <2>1. req' = [op |-> "compare", todo |-> wells, bores |-> None, failed |-> {}, got |-> got]
    BY <1>1, <1>5, Zenon
  <2>2. req'.op = "compare" /\ req'.todo = wells /\ req'.bores = None /\ req'.got = got
    BY <2>1
  <2>3. IsCompare(req')
    BY <1>3, <2>1, <2>2 DEF IsCompare
  <2>4. \A k \in DOMAIN asof' : Compared(k)'
    BY <1>3, <2>2 DEF Compared, Due, Visited
  <2>5. DOMAIN req'.got \subseteq Named
    BY <1>3, <2>2 DEF ToSet
  <2> QED BY <1>2, <1>5, <2>2, <2>3, <2>4, <2>5 DEF CompareInv
<1> QED BY <1>4, <1>5

\* The wellbores of the next well: those that were there are all to do, or the
\* failure of the query is on record.
LEMMA CompareBoresKeeps ==
    ASSUME StoreInv, CompareInv, NEW ok \in BOOLEAN, CompareBores(ok)
    PROVE  CompareInv' /\ req'.op = "compare" /\ req.op = "compare" /\ DOMAIN req'.got = DOMAIN req.got
<1> DEFINE w == Head(req.todo)
           bores == IF ok THEN BoresOf(w) ELSE {}
           fails == IF ok THEN req.failed ELSE req.failed \cup {WellMark(w)}
<1>1. /\ req.op = "compare" /\ req.bores = None /\ asof' = asof
      /\ req' = [req EXCEPT !.bores = bores, !.failed = fails]
  BY Zenon DEF CompareBores, Continues, BoresOf, WellMark
<1>2. /\ IsCompare(req) /\ req.todo \in Seq(Named) /\ req.todo # <<>>
      /\ \A k \in DOMAIN asof : Compared(k)
  BY <1>1 DEF CompareInv
<1> HIDE DEF w, bores, fails
<1>4. /\ req.got = [v \in DOMAIN req.got |-> req.got[v]]
      /\ req = [op |-> req.op, todo |-> req.todo, bores |-> req.bores, failed |-> req.failed,
                got |-> req.got]
  BY <1>2 DEF IsCompare
<1>3. req' = [op |-> "compare", todo |-> req.todo, bores |-> bores, failed |-> fails,
              got |-> req.got]
  BY <1>1, <1>4
<1>5. /\ req'.op = "compare" /\ req'.todo = req.todo /\ req'.bores = bores
      /\ req'.failed = fails /\ req'.got = req.got
  BY <1>3, <1>4
<1>6. IsCompare(req')
  BY <1>3, <1>4, <1>5 DEF IsCompare
<1>7. ASSUME NEW k \in DOMAIN asof, Due(k)', Visited(k)'
      PROVE  ToSet(asof[k].intervals) \subseteq req.got[k.well]
  <2>1. Due(k)
    BY <1>1, <1>5, <1>7 DEF Due, fails
  <2>2. CASE k.well \notin ToSet(req.todo)
    BY <1>2, <2>1, <2>2 DEF Compared, Visited
  <2>3. CASE k.well = w /\ k.bore \notin bores
    <3>1. ok
      BY <1>1, <1>5, <1>7, <2>3 DEF Due, fails
    <3>2. BoreKey(k) \in DOMAIN objs
      BY <2>1 DEF Due, StoreInv
    <3>3. BoreKey(k).kind = "wellbore" /\ BoreKey(k).well = k.well /\ BoreKey(k).uid = k.bore
      BY Zenon DEF BoreKey, Key
    <3>4. k.bore \in BoresOf(k.well)
      BY <3>2, <3>3, BoreFound
    <3> QED BY <2>3, <3>1, <3>4 DEF bores
  <2> QED BY <1>5, <1>7, <2>2, <2>3 DEF Visited, w
<1>8. \A k \in DOMAIN asof' : Compared(k)'
  BY <1>1, <1>5, <1>7 DEF Compared
<1> QED BY <1>1, <1>2, <1>5, <1>6, <1>8 DEF CompareInv

\* The mudLogs of one wellbore: their intervals are taken, or the failure of the
\* query is on record.
LEMMA CompareMudLogsKeeps ==
    ASSUME StoreInv, CompareInv, NEW b, NEW ok \in BOOLEAN, CompareMudLogs(b, ok)
    PROVE  CompareInv' /\ req'.op = "compare" /\ req.op = "compare" /\ DOMAIN req'.got = DOMAIN req.got
<1> DEFINE w == Head(req.todo)
           cell == req.got[w] \cup Lithology(w, b)
           got == [v \in DOMAIN req.got |-> IF ok /\ v = w THEN cell ELSE req.got[v]]
           fails == IF ok THEN req.failed ELSE req.failed \cup {<<w, b>>}
<1>1. /\ req.op = "compare" /\ req.bores # None /\ b \in req.bores /\ asof' = asof
      /\ req' = [req EXCEPT !.bores = req.bores \ {b},
                            !.got = IF ok THEN [req.got EXCEPT ![w] = cell] ELSE req.got,
                            !.failed = fails]
  BY DEF CompareMudLogs, Continues
<1>2. /\ IsCompare(req) /\ req.todo \in Seq(Named) /\ req.todo # <<>>
      /\ \A k \in DOMAIN asof : Compared(k)
  BY <1>1 DEF CompareInv
<1> HIDE DEF w, cell, fails
<1>3. (IF ok THEN [req.got EXCEPT ![w] = cell] ELSE req.got) = got
  BY <1>2 DEF IsCompare
<1>4. /\ DOMAIN got = DOMAIN req.got /\ got = [v \in DOMAIN got |-> got[v]]
      /\ \A v \in DOMAIN req.got : got[v] = IF ok /\ v = w THEN cell ELSE req.got[v]
  OBVIOUS
<1> HIDE DEF got
<1>5. req' = [req EXCEPT !.bores = req.bores \ {b}, !.got = got, !.failed = fails]
  BY <1>1, <1>3
<1>6. req' = [op |-> "compare", todo |-> req.todo, bores |-> req.bores \ {b}, failed |-> fails, got |-> got]
  BY <1>1, <1>2, <1>5 DEF IsCompare
<1>7. /\ req'.op = "compare" /\ req'.todo = req.todo /\ req'.bores = req.bores \ {b}
      /\ req'.failed = fails /\ req'.got = got
  BY <1>6
<1>8. IsCompare(req')
  BY <1>4, <1>6, <1>7 DEF IsCompare
<1>9. ASSUME NEW k \in DOMAIN asof, Due(k)', Visited(k)'
      PROVE  ToSet(asof[k].intervals) \subseteq got[k.well]
  <2>1. Due(k)
    BY <1>1, <1>4, <1>7, <1>9 DEF Due, fails
  <2>2. k.well \in DOMAIN req.got /\ req.got[k.well] \subseteq got[k.well]
    BY <1>4, <2>1 DEF Due, cell
  <2>3. CASE Visited(k)
    BY <1>2, <2>1, <2>2, <2>3 DEF Compared
  <2>4. CASE ~Visited(k)
    <3>1. k.well = w /\ k.bore = b
      BY <1>1, <1>7, <1>9, <2>4 DEF Visited, w
    <3>2. ok
      BY <1>7, <1>9, <3>1 DEF Due, fails
    <3>3. k \in DOMAIN objs /\ k.kind = "mudLog"
          /\ ToSet(asof[k].intervals) \subseteq ToSet(objs[k].intervals)
      BY <2>1 DEF Due, StoreInv
    <3>4. ToSet(objs[k].intervals) \subseteq Lithology(w, b)
      BY <3>1, <3>3, LithologyHolds
    <3>5. got[k.well] = cell
      BY <1>4, <2>2, <3>1, <3>2
    <3> QED BY <3>3, <3>4, <3>5 DEF cell
  <2> QED BY <2>3, <2>4
<1>10. \A k \in DOMAIN asof' : Compared(k)'
  BY <1>1, <1>7, <1>9 DEF Compared
<1> QED BY <1>1, <1>2, <1>4, <1>7, <1>8, <1>10 DEF CompareInv

\* A well is done when no wellbore of it is to do.
LEMMA CompareNextKeeps ==
    ASSUME CompareInv, CompareNext
    PROVE  /\ CompareInv' /\ req'.op \in {"compare", "compared"}
           /\ req.op = "compare" /\ DOMAIN req'.got = DOMAIN req.got
<1> DEFINE op == IF Len(req.todo) = 1 THEN "compared" ELSE "compare"
           rest == Tail(req.todo)
<1>1. /\ req.op = "compare" /\ req.bores = {} /\ asof' = asof
      /\ req' = [req EXCEPT !.todo = rest, !.bores = None,
                            !.op = IF Len(req.todo) = 1 THEN "compared" ELSE req.op]
  BY Zenon DEF CompareNext, Continues
<1>2. /\ IsCompare(req) /\ req.todo \in Seq(Named) /\ req.todo # <<>>
      /\ \A k \in DOMAIN asof : Compared(k)
  BY <1>1 DEF CompareInv
<1> DEFINE s == req.todo
<1>a. s \in Seq(Named) /\ s # <<>>
  BY <1>2
<1> HIDE DEF s
<1>b. /\ Len(s) \in Nat /\ Len(s) > 0 /\ DOMAIN s = 1..Len(s)
      /\ Tail(s) \in Seq(Named) /\ Len(Tail(s)) = Len(s) - 1 /\ DOMAIN Tail(s) = 1..(Len(s) - 1)
      /\ Head(s) = s[1] /\ \A n \in 1..(Len(s) - 1) : Tail(s)[n] = s[n + 1]
  BY <1>a
<1>c. Len(s) = 1 <=> Tail(s) = <<>>
  <2> DEFINE t == Tail(s)
  <2>1. t \in Seq(Named) /\ Len(t) = Len(s) - 1
    BY <1>b
  <2> HIDE DEF t
  <2>2. t = <<>> <=> Len(t) = 0
    BY <2>1
  <2> QED BY <1>b, <2>1, <2>2 DEF t
<1>3. rest \in Seq(Named) /\ (op = "compare") = (rest # <<>>) /\ op \in {"compare", "compared"}
  BY <1>b, <1>c DEF s
<1>4. \A v : v \in ToSet(req.todo) => v = Head(req.todo) \/ v \in ToSet(rest)
  <2>1. ASSUME NEW n \in 1..Len(s) PROVE s[n] = Head(s) \/ s[n] \in ToSet(Tail(s))
    <3>1. CASE n = 1
      BY <1>b, <3>1
    <3>2. CASE n # 1
      <4>1. n - 1 \in 1..(Len(s) - 1) /\ (n - 1) + 1 = n
        BY <1>b, <3>2
      <4>2. Tail(s)[n - 1] = s[n]
        BY <1>b, <4>1
      <4> QED BY <1>b, <4>1, <4>2 DEF ToSet
    <3> QED BY <3>1, <3>2
  <2>2. \A v \in ToSet(s) : \E n \in 1..Len(s) : v = s[n]
    BY <1>b DEF ToSet
  <2> QED BY <2>1, <2>2 DEF s
<1>5. req' = [req EXCEPT !.todo = rest, !.bores = None, !.op = op]
  BY <1>1
<1>6. {} # None
  BY ReadApiConstants, Zenon
<1> HIDE DEF op, rest
<1>7. /\ req.got = [v \in DOMAIN req.got |-> req.got[v]]
      /\ req = [op |-> req.op, todo |-> req.todo, bores |-> req.bores, failed |-> req.failed,
                got |-> req.got]
  BY <1>2 DEF IsCompare
<1>8. req' = [op |-> op, todo |-> rest, bores |-> None, failed |-> req.failed,
              got |-> req.got]
  BY <1>5, <1>7
<1>9. /\ req'.op = op /\ req'.todo = rest /\ req'.bores = None
      /\ req'.failed = req.failed /\ req'.got = req.got
  BY <1>7, <1>8
<1>10. IsCompare(req')
  BY <1>7, <1>8, <1>9 DEF IsCompare
<1>11. ASSUME NEW k \in DOMAIN asof, Due(k)', Visited(k)'
       PROVE  ToSet(asof[k].intervals) \subseteq req.got[k.well]
  <2>1. Due(k)
    BY <1>1, <1>9, <1>11 DEF Due
  <2>2. k.well \notin ToSet(rest)
    BY <1>9, <1>11 DEF Visited
  <2>3. Visited(k)
    BY <1>1, <1>4, <1>6, <2>2 DEF Visited
  <2> QED BY <1>2, <2>1, <2>3 DEF Compared
<1>12. \A k \in DOMAIN asof' : Compared(k)'
  BY <1>1, <1>9, <1>11 DEF Compared
<1> QED BY <1>1, <1>3, <1>9, <1>10, <1>12 DEF CompareInv

-----------------------------------------------------------------------------
(* The invariant of both. *)

\* A step that leaves the request alone leaves what is due of it alone, when
\* what was there at the start does not become more.
LEMMA RequestKept ==
    ASSUME TreeInv, CompareInv, AsofShrinks, req' = req
    PROVE  TreeInv' /\ CompareInv'
<1>1. TreeInv'
  BY DEF TreeInv, InTree, AsofShrinks
<1>2. ASSUME NEW k \in DOMAIN asof', Compared(k) PROVE Compared(k)'
  <2>1. asof'[k] = asof[k] /\ (BoreKey(k) \in DOMAIN asof' => BoreKey(k) \in DOMAIN asof)
    BY DEF AsofShrinks
  <2>2. Due(k)' => Due(k)
    BY <2>1 DEF Due
  <2>3. Visited(k)' = Visited(k)
    BY DEF Visited
  <2> QED BY <1>2, <2>1, <2>2, <2>3 DEF Compared
<1>3. CompareInv'
  BY <1>2 DEF CompareInv, AsofShrinks
<1> QED BY <1>1, <1>3

\* Another request owes nothing of a tree or of a comparison.
LEMMA OtherRequest ==
    /\ req'.op \notin {"tree", "treed"} => TreeInv'
    /\ req'.op \notin {"compare", "compared"} => CompareInv'
BY DEF TreeInv, CompareInv

\* A request begins with what the store has.
LEMMA BeginsKeepsStore ==
    ASSUME StoreInv, Begins
    PROVE  StoreInv'
<1>1. objs' = objs /\ asof' = objs
  BY DEF Begins
<1> QED BY <1>1 DEF StoreInv

\* A request goes on without a change of the store.
LEMMA ContinuesKeepsStore ==
    ASSUME StoreInv, NEW op, Continues(op)
    PROVE  StoreInv'
<1>1. objs' = objs /\ asof' = asof
  BY DEF Continues
<1> QED BY <1>1 DEF StoreInv

\* What the tree and the comparison rest on.
QueryInv == StoreInv /\ TreeInv /\ CompareInv

\* It holds at the start, when nothing is asked.
LEMMA InitQuery == Init => QueryInv
<1> SUFFICES ASSUME Init PROVE QueryInv
  OBVIOUS
<1>1. objs = Objects /\ asof = <<>> /\ req = [op |-> "none"]
  BY DEF Init
<1>2. StoreInv
  BY <1>1, CatalogueFacts DEF StoreInv
<1> QED BY <1>1, <1>2 DEF QueryInv, TreeInv, CompareInv

\* No step of the environment breaks it.
LEMMA EnvironmentKeepsQuery == QueryInv /\ Environment => QueryInv'
<1> SUFFICES ASSUME QueryInv, Environment PROVE QueryInv'
  OBVIOUS
<1> USE DEF QueryInv
<1>1. ASSUME NEW n \in 1..MaxIdx, Ingest(n) PROVE QueryInv'
  <2>1. objs' = objs /\ asof' = asof /\ req' = req
    BY <1>1 DEF Ingest
  <2> QED BY <2>1, RequestKept DEF StoreInv, AsofShrinks
<1>2. ASSUME NEW ok \in BOOLEAN, Persist(ok) PROVE QueryInv'
  <2>1. objs' = objs /\ asof' = asof /\ req' = req
    BY <1>2 DEF Persist
  <2> QED BY <2>1, RequestKept DEF StoreInv, AsofShrinks
<1>3. ASSUME NEW saved \in 0..MaxIdx, Restart(saved) PROVE QueryInv'
  <2>1. objs' = objs /\ asof' = <<>> /\ req' = [op |-> "none"]
    BY <1>3 DEF Restart
  <2>2. StoreInv'
    BY <2>1 DEF StoreInv
  <2> QED BY <2>1, <2>2, OtherRequest
<1>4. ASSUME NEW k \in DOMAIN Objects, Add(k) PROVE QueryInv'
  <2>1. req' = req
    BY <1>4 DEF Add
  <2> QED BY <1>4, <2>1, AddKeepsStore, RequestKept
<1>5. ASSUME NEW k \in DOMAIN Objects, Delete(k) PROVE QueryInv'
  <2>1. req' = req
    BY <1>5 DEF Delete
  <2> QED BY <1>5, <2>1, DeleteKeepsStore, RequestKept
<1>6. ASSUME NEW k \in DOMAIN Objects, NEW d \in 1..2, Grow(k, [top |-> d, bottom |-> d + 1])
      PROVE  QueryInv'
  <2> DEFINE iv == [top |-> d, bottom |-> d + 1]
  <2>1. iv \in [top : Int, bottom : Int] /\ Grow(k, iv)
    BY <1>6
  <2> HIDE DEF iv
  <2>2. req' = req
    BY <2>1 DEF Grow
  <2> QED BY <2>1, <2>2, GrowKeepsStore, RequestKept
<1> QED BY <1>1, <1>2, <1>3, <1>4, <1>5, <1>6, Zenon DEF Environment

\* No step of a request breaks it.
LEMMA HandlerKeepsQuery == QueryInv /\ Handler => QueryInv'
<1> SUFFICES ASSUME QueryInv, Handler PROVE QueryInv'
  OBVIOUS
<1> USE DEF QueryInv
<1>1. ASSUME NEW mnems \in SUBSET Mnems, NEW limit \in Limits, BeginExport(mnems, limit)
      PROVE  QueryInv'
  <2>1. Begins /\ req'.op = "export"
    BY <1>1 DEF BeginExport
  <2> QED BY <2>1, BeginsKeepsStore, OtherRequest
<1>2. ASSUME NEW ok \in BOOLEAN, FinishExport(ok) PROVE QueryInv'
  <2>1. Continues("export") /\ req'.op = "exported"
    BY <1>2 DEF FinishExport
  <2> QED BY <2>1, ContinuesKeepsStore, OtherRequest
<1>3. ASSUME NEW ok \in BOOLEAN, BeginTree(ok) PROVE QueryInv'
  <2>1. Begins
    BY <1>3, Zenon DEF BeginTree
  <2> QED BY <1>3, <2>1, BeginsKeepsStore, BeginTreeKeeps, OtherRequest
<1>4. ASSUME NEW ok \in BOOLEAN, CompareBores(ok) PROVE QueryInv'
  <2>1. Continues("compare")
    BY <1>4, Zenon DEF CompareBores
  <2> QED BY <1>4, <2>1, ContinuesKeepsStore, CompareBoresKeeps, OtherRequest
<1>5. ASSUME NEW w \in Wells, NEW ok \in BOOLEAN, TreeBores(w, ok) PROVE QueryInv'
  <2>1. Continues("tree")
    BY <1>5, Zenon DEF TreeBores
  <2> QED BY <1>5, <2>1, ContinuesKeepsStore, TreeBoresKeeps, OtherRequest
<1>6. ASSUME FinishTree PROVE QueryInv'
  <2>1. Continues("tree")
    BY <1>6 DEF FinishTree
  <2> QED BY <1>6, <2>1, ContinuesKeepsStore, FinishTreeKeeps, OtherRequest
<1>7. ASSUME NEW n \in 0..(MaxWells + 1), NEW ws \in [1..n -> Named], BeginCompare(ws)
      PROVE  QueryInv'
  <2>1. Begins
    BY <1>7, Zenon DEF BeginCompare
  <2>2. n \in Nat
    BY ReadApiConstants
  <2> QED BY <1>7, <2>1, <2>2, BeginsKeepsStore, BeginCompareKeeps, OtherRequest
<1>8. ASSUME NEW b \in Bores, NEW ok \in BOOLEAN, CompareMudLogs(b, ok) PROVE QueryInv'
  <2>1. Continues("compare")
    BY <1>8 DEF CompareMudLogs
  <2> QED BY <1>8, <2>1, ContinuesKeepsStore, CompareMudLogsKeeps, OtherRequest
<1>9. ASSUME CompareNext PROVE QueryInv'
  <2>1. Continues("compare")
    BY <1>9 DEF CompareNext
  <2> QED BY <1>9, <2>1, ContinuesKeepsStore, CompareNextKeeps, OtherRequest
<1>10. ASSUME NEW w \in Wells, TreeBreaks(w) PROVE QueryInv'
  <2>1. Continues("tree") /\ req'.op = "refused"
    BY <1>10 DEF TreeBreaks
  <2> QED BY <2>1, ContinuesKeepsStore, OtherRequest
<1> QED BY <1>1, <1>2, <1>3, <1>4, <1>5, <1>6, <1>7, <1>8, <1>9, <1>10, Zenon DEF Handler

\* It holds in every state.
LEMMA QueryInvariant == Spec => []QueryInv
<1>1. QueryInv /\ UNCHANGED vars => QueryInv'
  BY DEF QueryInv, StoreInv, TreeInv, InTree, CompareInv, Compared, Due, Visited, vars
<1> QED BY <1>1, InitQuery, EnvironmentKeepsQuery, HandlerKeepsQuery, PTL DEF Spec, Next

\* The tree of get_tree has every well that was there throughout, with every
\* wellbore that was there throughout unless the query of that very well failed,
\* whatever was added, deleted or refused meanwhile.
THEOREM TreeStaysComplete == Spec => []TreeComplete
<1>1. QueryInv => TreeComplete
  <2> SUFFICES ASSUME QueryInv, req.op = "treed" PROVE TreeComplete
    BY DEF TreeComplete
  <2>1. req.todo = {} /\ \A k \in DOMAIN asof : InTree(k)
    BY DEF QueryInv, TreeInv
  <2> QED BY <2>1 DEF TreeComplete, InTree
<1> QED BY <1>1, QueryInvariant, PTL

\* The comparison of compare has every interval that was there throughout, unless
\* the query of its own wellbore or of its well failed or the wellbore was deleted.
THEOREM CompareStaysComplete == Spec => []CompareComplete
<1>1. QueryInv => CompareComplete
  <2> SUFFICES ASSUME QueryInv, req.op = "compared" PROVE CompareComplete
    BY Zenon DEF CompareComplete
  <2>1. req.todo = <<>> /\ \A k \in DOMAIN asof : Compared(k)
    BY DEF QueryInv, CompareInv
  <2>2. ToSet(req.todo) = {}
    BY <2>1 DEF ToSet
  <2>3. ASSUME NEW k \in DOMAIN asof, k.kind = "mudLog", k.well \in DOMAIN req.got,
               BoreKey(k) \in DOMAIN asof, {WellMark(k.well), <<k.well, k.bore>>} \cap req.failed = {}
        PROVE  ToSet(asof[k].intervals) \subseteq req.got[k.well]
    <3>1. Due(k) /\ Visited(k)
      BY <2>2, <2>3 DEF Due, Visited
    <3> QED BY <2>1, <3>1 DEF Compared
  <2> QED BY <2>3, Zenon DEF CompareComplete, BoreKey, WellMark
<1> QED BY <1>1, QueryInvariant, PTL

-----------------------------------------------------------------------------
(* The newest n of a finite set. *)

Above(B, a) == {b \in B : b > a}
Top(B, n) == {a \in B : Cardinality(Above(B, a)) < n}

\* The subsets of a finite set are finite and no larger.
LEMMA SubsetCard ==
    ASSUME NEW S, IsFiniteSet(S), NEW T, T \subseteq S
    PROVE  /\ IsFiniteSet(T) /\ Cardinality(T) \in Nat /\ Cardinality(S) \in Nat
           /\ Cardinality(T) =< Cardinality(S)
           /\ T # S => Cardinality(T) < Cardinality(S)
<1>1. IsFiniteSet(T) /\ Cardinality(T) =< Cardinality(S) /\ (Cardinality(S) = Cardinality(T) => S = T)
  BY FS_Subset
<1>2. Cardinality(T) \in Nat /\ Cardinality(S) \in Nat
  BY <1>1, FS_CardinalityType
<1> QED BY <1>1, <1>2

\* The higher of two indices has fewer above it.
LEMMA AboveShrinks ==
    ASSUME NEW B \in SUBSET Int, IsFiniteSet(B), NEW a \in Int, NEW c \in B, a < c
    PROVE  /\ IsFiniteSet(Above(B, a)) /\ Cardinality(Above(B, a)) \in Nat
           /\ Cardinality(Above(B, c)) \in Nat
           /\ Cardinality(Above(B, c)) < Cardinality(Above(B, a))
<1>1. Above(B, a) \subseteq B
  BY DEF Above
<1>2. IsFiniteSet(Above(B, a))
  BY <1>1, SubsetCard
<1>3. Above(B, c) \subseteq Above(B, a)
  <2>1. ASSUME NEW b \in B, b > c PROVE b > a
    BY <2>1
  <2> QED BY <2>1 DEF Above
<1>4. c \in Above(B, a) /\ c \notin Above(B, c)
  BY DEF Above
<1> QED BY <1>2, <1>3, <1>4, SubsetCard

\* A finite set of indices that is not empty has a highest one.
LEMMA HighestExists ==
    ASSUME NEW B \in SUBSET Int, IsFiniteSet(B), B # {}
    PROVE  \E a \in B : \A b \in B : b =< a
<1> DEFINE counts == {Cardinality(Above(B, a)) : a \in B}
<1>1. \A a \in B : Cardinality(Above(B, a)) \in Nat
  <2>1. \A a \in B : Above(B, a) \subseteq B
    BY DEF Above
  <2> QED BY <2>1, SubsetCard
<1>2. counts \in SUBSET Nat /\ counts # {}
  BY <1>1
<1>3. PICK least \in counts : \A j \in counts : least =< j
  BY <1>2, MinOfIndices
<1>4. PICK a \in B : least = Cardinality(Above(B, a))
  BY <1>3
<1>5. ASSUME NEW b \in B, ~(b =< a) PROVE FALSE
  <2>1. a \in Int /\ b \in Int /\ a < b
    BY <1>5
  <2>2. Cardinality(Above(B, b)) < Cardinality(Above(B, a))
    BY <2>1, AboveShrinks
  <2>3. Cardinality(Above(B, b)) \in counts
    OBVIOUS
  <2> HIDE DEF counts
  <2>4. Cardinality(Above(B, a)) =< Cardinality(Above(B, b))
    BY <1>3, <1>4, <2>3
  <2> QED BY <1>1, <2>2, <2>4
<1> QED BY <1>5

\* The highest outside the newest n has exactly those above it.
LEMMA NextOfTop ==
    ASSUME NEW B \in SUBSET Int, IsFiniteSet(B), NEW n \in Nat,
           Cardinality(Top(B, n)) = n, n < Cardinality(B)
    PROVE  Cardinality(Top(B, n + 1)) = n + 1
<1> DEFINE T == Top(B, n)
           rest == B \ T
<1>1. T \subseteq B /\ \A a \in B : a \in T <=> Cardinality(Above(B, a)) < n
  BY DEF Top
<1>a. \A a \in B : a \in Top(B, n + 1) <=> Cardinality(Above(B, a)) < n + 1
  BY DEF Top
<1>b. Top(B, n + 1) \subseteq B
  BY DEF Top
<1>2. Cardinality(T) = n
  OBVIOUS
<1> HIDE DEF T
<1>3. IsFiniteSet(T) /\ T # B
  <2>1. IsFiniteSet(T) /\ Cardinality(B) \in Nat
    BY <1>1, SubsetCard
  <2>2. Cardinality(T) # Cardinality(B)
    BY <1>2, <2>1
  <2> QED BY <2>1, <2>2
<1>4. rest \in SUBSET Int /\ rest # {} /\ IsFiniteSet(rest)
  BY <1>1, <1>3, SubsetCard
<1>5. PICK a \in rest : \A b \in rest : b =< a
  BY <1>4, HighestExists
<1>6. a \in B /\ a \notin T /\ a \in Int
  OBVIOUS
<1>7. \A b \in B : Above(B, b) \subseteq B /\ Cardinality(Above(B, b)) \in Nat
  <2>1. \A b \in B : Above(B, b) \subseteq B
    BY DEF Above
  <2> QED BY <2>1, SubsetCard
<1>8. ASSUME NEW b \in B PROVE b \in T <=> b > a
  <2>1. b \in Int
    OBVIOUS
  <2>2. ASSUME b > a PROVE b \in T
    BY <1>5, <1>6, <2>1, <2>2
  <2>3. ASSUME b \in T, ~(b > a) PROVE FALSE
    <3>1. b < a
      BY <1>6, <2>1, <2>3
    <3>2. Cardinality(Above(B, a)) < Cardinality(Above(B, b))
      BY <1>6, <2>1, <3>1, AboveShrinks
    <3>3. Cardinality(Above(B, b)) < n /\ ~(Cardinality(Above(B, a)) < n)
      BY <1>1, <1>6, <2>3
    <3> QED BY <1>6, <1>7, <3>2, <3>3
  <2> QED BY <2>2, <2>3
<1>9. Above(B, a) = T
  BY <1>1, <1>8 DEF Above
<1>10. Cardinality(Above(B, a)) = n
  BY <1>2, <1>9
<1>11. ASSUME NEW x \in B PROVE x \in Top(B, n + 1) <=> x \in T \cup {a}
  <2>1. CASE x = a
    BY <1>10, <1>a, <2>1
  <2>2. CASE x \in T
    BY <1>1, <1>7, <1>a, <2>2
  <2>3. CASE x # a /\ x \notin T
    <3>1. x < a /\ x \in Int
      BY <1>6, <1>8, <2>3
    <3>2. Cardinality(Above(B, a)) < Cardinality(Above(B, x))
      BY <1>6, <3>1, AboveShrinks
    <3> QED BY <1>7, <1>10, <1>a, <2>3, <3>2
  <2> QED BY <2>1, <2>2, <2>3
<1>12. Top(B, n + 1) = T \cup {a}
  BY <1>1, <1>6, <1>11, <1>b
<1> QED BY <1>2, <1>3, <1>6, <1>12, FS_AddElement

\* A finite set that has n indices has n newest ones.
LEMMA TopCount ==
    ASSUME NEW B \in SUBSET Int, IsFiniteSet(B), NEW n \in Nat, n =< Cardinality(B)
    PROVE  Cardinality(Top(B, n)) = n
<1>1. Cardinality(B) \in Nat
  BY FS_CardinalityType
<1> DEFINE bad == {m \in Nat : m =< Cardinality(B) /\ Cardinality(Top(B, m)) # m}
<1>2. ASSUME bad # {} PROVE FALSE
  <2>1. PICK m \in bad : \A j \in bad : m =< j
    BY <1>2, MinOfIndices
  <2>2. m # 0
    <3>1. \A a \in B : ~(Cardinality(Above(B, a)) < 0)
      <4>1. \A a \in B : Above(B, a) \subseteq B
        BY DEF Above
      <4>2. \A a \in B : Cardinality(Above(B, a)) \in Nat
        BY <4>1, SubsetCard
      <4> QED BY <4>2
    <3>2. Top(B, 0) = {}
      BY <3>1 DEF Top
    <3>3. Cardinality(Top(B, 0)) = 0
      BY <3>2, FS_EmptySet
    <3> QED BY <2>1, <3>3
  <2> DEFINE p == m - 1
  <2>3. p \in Nat /\ p < Cardinality(B) /\ p + 1 = m /\ ~(m =< p)
    BY <1>1, <2>1, <2>2
  <2> HIDE DEF p
  <2>4. Cardinality(Top(B, p)) = p
    BY <1>1, <2>1, <2>3
  <2>5. Cardinality(Top(B, m)) = m
    BY <2>3, <2>4, NextOfTop
  <2> QED BY <2>1, <2>5
<1> QED BY <1>2

\* There are never more than n newest ones.
LEMMA TopAtMost ==
    ASSUME NEW B \in SUBSET Int, IsFiniteSet(B), NEW n \in Nat
    PROVE  Cardinality(Top(B, n)) =< n
<1>1. Top(B, n) \subseteq B
  BY DEF Top
<1>2. Cardinality(Top(B, n)) =< Cardinality(B) /\ Cardinality(Top(B, n)) \in Nat /\ Cardinality(B) \in Nat
  BY <1>1, SubsetCard
<1>3. CASE n =< Cardinality(B)
  BY <1>2, <1>3, TopCount
<1>4. CASE ~(n =< Cardinality(B))
  BY <1>2, <1>4
<1> QED BY <1>3, <1>4

\* An index that is not among the newest n has n of them above it, also when it
\* is not in the set and n indices above it are.
LEMMA TopAbove ==
    ASSUME NEW B \in SUBSET Int, IsFiniteSet(B), NEW n \in Nat, NEW i \in Int,
           (i \in B /\ i \notin Top(B, n)) \/ Cardinality(Above(B, i)) >= n
    PROVE  Cardinality(Above(Top(B, n), i)) = n
<1> DEFINE A == Above(B, i)
<1>1. A \subseteq B /\ A \in SUBSET Int
  BY DEF Above
<1>2. IsFiniteSet(A) /\ Cardinality(A) \in Nat
  BY <1>1, SubsetCard
<1>3. Cardinality(A) >= n
  <2>1. i \in B /\ i \notin Top(B, n) => ~(Cardinality(A) < n)
    BY DEF Top
  <2> HIDE DEF A
  <2> QED BY <1>2, <2>1 DEF A
<1>4. ASSUME NEW a \in A PROVE Above(A, a) = Above(B, a)
  <2>1. a \in Int /\ a > i
    BY DEF Above
  <2>2. ASSUME NEW b \in B, b > a PROVE b > i
    BY <2>1, <2>2
  <2> QED BY <2>2 DEF Above
<1>5. Above(Top(B, n), i) = Top(A, n)
  BY <1>4 DEF Top, Above
<1> HIDE DEF A
<1>6. Cardinality(Top(A, n)) = n
  BY <1>1, <1>2, <1>3, TopCount
<1> QED BY <1>5, <1>6

-----------------------------------------------------------------------------
(* Samples, and the newest of them. *)

Samples == [m : Mnems, i : 1..MaxIdx, v : Nat]
Indices(S) == {s.i : s \in S}
Unique(S) == \A s, t \in S : s.i = t.i => s = t

\* The samples of a buffer are in the order of their indices, none beyond top.
Rises(s, top) ==
    /\ \A p \in DOMAIN s : s[p].i =< top
    /\ \A p, q \in DOMAIN s : p < q => s[p].i < s[q].i

\* The index of a sample is a number.
LEMMA SampleIndex == \A s \in Samples : s.i \in Int /\ s.i \in 1..MaxIdx /\ s.m \in Mnems
<1>1. MaxIdx \in Nat
  BY ReadApiConstants
<1> QED BY <1>1 DEF Samples

\* Samples with different indices are as many as their indices.
LEMMA IndexCard ==
    ASSUME NEW S \in SUBSET Samples, IsFiniteSet(S), Unique(S)
    PROVE  /\ Indices(S) \in SUBSET Int /\ IsFiniteSet(Indices(S))
           /\ Cardinality(Indices(S)) = Cardinality(S)
<1> DEFINE T == Indices(S)
           f == [s \in S |-> s.i]
<1>1. T \in SUBSET Int
  BY SampleIndex DEF Indices
<1>2. f \in [S -> T] /\ (\A t \in T : \E s \in S : f[s] = t)
      /\ (\A a, b \in S : f[a] = f[b] => a = b)
  BY DEF Indices, Unique
<1>3. f \in Bijection(S, T)
  BY <1>2 DEF Bijection, Injection, Surjection, IsInjective
<1>4. ExistsBijection(S, T)
  BY <1>3 DEF ExistsBijection
<1> HIDE DEF T
<1>5. IsFiniteSet(T) /\ Cardinality(T) = Cardinality(S)
  BY <1>4, FS_Bijection
<1> QED BY <1>1, <1>5 DEF T

\* The last n samples by index are those with the n highest indices.
LEMMA LastOfTop ==
    ASSUME NEW S \in SUBSET Samples, IsFiniteSet(S), Unique(S), NEW n \in Nat
    PROVE  /\ LastOf(S, n) \subseteq S
           /\ Indices(LastOf(S, n)) = Top(Indices(S), n)
           /\ Cardinality(LastOf(S, n)) =< n
<1> DEFINE L == LastOf(S, n)
           B == Indices(S)
           Later(s) == {t \in S : t.i > s.i}
<1>1. L \subseteq S /\ \A s \in S : s \in L <=> Cardinality(Later(s)) < n
  BY DEF LastOf
<1>2. ASSUME NEW s \in S PROVE Cardinality(Later(s)) = Cardinality(Above(B, s.i))
  <2> DEFINE A == Later(s)
  <2>1. A \subseteq S /\ A \in SUBSET Samples
    OBVIOUS
  <2>2. Indices(A) = Above(B, s.i)
    BY DEF Indices, Above
  <2> HIDE DEF A
  <2>3. IsFiniteSet(A) /\ Unique(A)
    BY <2>1, SubsetCard DEF Unique
  <2>4. Cardinality(A) = Cardinality(Above(B, s.i))
    BY <2>1, <2>2, <2>3, IndexCard
  <2> QED BY <2>4 DEF A
<1>3. B \in SUBSET Int /\ IsFiniteSet(B)
  BY IndexCard
<1> HIDE DEF L, Later
<1>4. \A s \in S : s \in L <=> s.i \in Top(B, n)
  BY <1>1, <1>2 DEF Top, Indices
<1>5. Indices(L) = Top(B, n)
  BY <1>1, <1>4 DEF Indices, Top
<1> HIDE DEF B
<1>6. L \in SUBSET Samples /\ IsFiniteSet(L) /\ Unique(L)
  BY <1>1, SubsetCard DEF Unique
<1>7. Cardinality(L) = Cardinality(Top(B, n))
  BY <1>5, <1>6, IndexCard
<1>8. Cardinality(L) =< n
  BY <1>3, <1>7, TopAtMost
<1> QED BY <1>1, <1>5, <1>8 DEF L, B

\* The samples of a buffer that rises are finitely many, one for each place, and
\* no two have the same index.
LEMMA RisingSamples ==
    ASSUME NEW s \in Seq(Samples), NEW top, Rises(s, top)
    PROVE  /\ ToSet(s) \in SUBSET Samples /\ IsFiniteSet(ToSet(s)) /\ Unique(ToSet(s))
           /\ Cardinality(ToSet(s)) = Len(s)
<1> DEFINE D == 1..Len(s)
           T == ToSet(s)
<1>1. Len(s) \in Nat /\ DOMAIN s = D /\ \A p \in D : s[p] \in Samples
  OBVIOUS
<1>2. ASSUME NEW p \in D, NEW q \in D, s[p].i = s[q].i PROVE p = q
  <2>1. p \in Int /\ q \in Int
    BY <1>1
  <2>2. s[p].i \in Int
    BY <1>1, SampleIndex
  <2>3. ~(p < q)
    BY <1>1, <1>2, <2>2 DEF Rises
  <2>4. ~(q < p)
    BY <1>1, <1>2, <2>2 DEF Rises
  <2> QED BY <2>1, <2>3, <2>4
<1>3. T = {s[p] : p \in D}
  BY <1>1 DEF ToSet
<1> HIDE DEF D, T
<1>4. T \in SUBSET Samples /\ Unique(T)
  BY <1>1, <1>2, <1>3 DEF Unique
<1> DEFINE f == [p \in D |-> s[p]]
<1>5. f \in [D -> T] /\ (\A t \in T : \E p \in D : f[p] = t) /\ (\A a, b \in D : f[a] = f[b] => a = b)
  BY <1>2, <1>3
<1>6. f \in Bijection(D, T)
  BY <1>5 DEF Bijection, Injection, Surjection, IsInjective
<1>7. ExistsBijection(D, T)
  BY <1>6 DEF ExistsBijection
<1>8. IsFiniteSet(D) /\ Cardinality(D) = Len(s)
  <2> DEFINE n == Len(s)
  <2>1. n \in Nat /\ n \in Int /\ 1 \in Int /\ D = 1..n
    BY <1>1 DEF D
  <2> HIDE DEF n
  <2>2. IsFiniteSet(1..n) /\ Cardinality(1..n) = IF 1 > n THEN 0 ELSE n - 1 + 1
    BY <2>1, FS_Interval
  <2>3. Cardinality(1..n) = n
    BY <2>1, <2>2
  <2> QED BY <2>1, <2>2, <2>3 DEF n
<1>9. IsFiniteSet(T) /\ Cardinality(T) = Len(s)
  BY <1>7, <1>8, FS_Bijection
<1> QED BY <1>4, <1>9 DEF T

\* The newest n samples of a buffer: a sample that is not among them is older than
\* all of them, and they are n.
LEMMA NewestOf ==
    ASSUME NEW s \in Seq(Samples), NEW top, Rises(s, top), NEW n \in Nat \ {0}
    PROVE  LET t == Newest(s, n)
           IN  /\ t \in Seq(Samples) /\ Rises(t, top) /\ Len(t) =< n
               /\ \A x \in ToSet(s) :
                      x \in ToSet(t) \/ (Len(t) = n /\ \A y \in ToSet(t) : y.i > x.i)
<1> DEFINE t == Newest(s, n)
<1>1. CASE Len(s) =< n
  <2>1. t = s
    BY <1>1 DEF Newest
  <2> QED BY <1>1, <2>1
<1>2. CASE ~(Len(s) =< n)
  <2> DEFINE k == Len(s) - n
  <2>1. t = SubSeq(s, k + 1, Len(s))
    BY <1>2 DEF Newest
  <2>2. Len(s) \in Nat /\ k \in Nat /\ k + n = Len(s) /\ DOMAIN s = 1..Len(s) /\ n \in Nat /\ n > 0
    BY <1>2
  <2> HIDE DEF t, k
  <2>3. t \in Seq(Samples) /\ Len(t) = n /\ DOMAIN t = 1..n /\ \A p \in 1..n : t[p] = s[k + p]
    <3> DEFINE u == SubSeq(s, k + 1, Len(s))
    <3>1. (Len(s) - (k + 1)) + 1 = n
      BY <2>2
    <3>2. u \in Seq(Samples)
      BY <2>2
    <3>3. Len(u) = n
      BY <2>2, <3>1
    <3>4. \A p \in 1..n : u[p] = s[k + p]
      BY <2>2, <3>1
    <3>5. DOMAIN u = 1..n
      BY <3>2, <3>3
    <3> QED BY <2>1, <3>2, <3>3, <3>4, <3>5
  <2>4. \A p \in 1..n : k + p \in 1..Len(s)
    BY <2>2
  <2>5. Rises(t, top)
    <3>1. \A p \in 1..n : t[p].i =< top
      BY <2>2, <2>3, <2>4 DEF Rises
    <3>2. ASSUME NEW p \in 1..n, NEW q \in 1..n, p < q PROVE t[p].i < t[q].i
      <4>1. k + p < k + q
        BY <2>2, <3>2
      <4> QED BY <2>2, <2>3, <2>4, <4>1 DEF Rises
    <3> QED BY <2>3, <3>1, <3>2 DEF Rises
  <2>6. ASSUME NEW x \in ToSet(s), x \notin ToSet(t), NEW y \in ToSet(t) PROVE y.i > x.i
    <3>1. PICK p \in 1..Len(s) : x = s[p]
      BY <2>2 DEF ToSet
    <3>2. PICK q \in 1..n : y = t[q]
      BY <2>3 DEF ToSet
    <3>3. ~(p > k)
      <4> SUFFICES ASSUME p > k PROVE FALSE
        OBVIOUS
      <4>1. p - k \in 1..n /\ k + (p - k) = p
        BY <2>2
      <4>2. t[p - k] = x
        BY <2>3, <3>1, <4>1
      <4>3. x \in ToSet(t)
        BY <2>3, <4>1, <4>2 DEF ToSet
      <4> QED BY <2>6, <4>3
    <3>4. p < k + q /\ k + q \in DOMAIN s
      BY <2>2, <2>4, <3>3
    <3>5. s[p].i < s[k + q].i
      BY <2>2, <3>4 DEF Rises
    <3>6. s[p] \in Samples /\ s[k + q] \in Samples
      BY <2>2, <3>4
    <3> QED BY <2>3, <3>1, <3>2, <3>5, <3>6, SampleIndex
  <2> QED BY <2>2, <2>3, <2>5, <2>6 DEF t
<1> QED BY <1>1, <1>2

-----------------------------------------------------------------------------
(* The buffers and the history. *)

\* The buffers rise to the cursor and keep to their capacity; the batches of the
\* history, and the one being inserted, are finite sets of samples.
FeedInv ==
    /\ cursor \in 0..MaxIdx /\ life \in 1..2
    /\ ring \in [Mnems -> Seq(Samples)]
    /\ \A m \in Mnems : Rises(ring[m], cursor) /\ Len(ring[m]) =< Capacity
    /\ history \in Seq(SUBSET Samples) /\ \A b \in DOMAIN history : IsFiniteSet(history[b])
    /\ pending \in SUBSET Samples /\ IsFiniteSet(pending)

\* A family of finite sets over a finite set has a finite union.
LEMMA FiniteFamily ==
    ASSUME NEW D, IsFiniteSet(D), NEW f, \A d \in D : IsFiniteSet(f[d])
    PROVE  IsFiniteSet(UNION {f[d] : d \in D})
<1> DEFINE T == {f[d] : d \in D}
           g == [d \in D |-> f[d]]
<1>1. g \in Surjection(D, T)
  BY DEF Surjection
<1>2. \A S \in T : IsFiniteSet(S)
  OBVIOUS
<1> HIDE DEF T, g
<1>3. IsFiniteSet(T)
  BY <1>1, FS_Surjection
<1>4. IsFiniteSet(UNION T)
  BY <1>2, <1>3, FS_UNION
<1> QED BY <1>4 DEF T

\* The places of a sequence are finitely many.
LEMMA FiniteDomain ==
    ASSUME NEW S, NEW s \in Seq(S)
    PROVE  IsFiniteSet(DOMAIN s)
<1>1. Len(s) \in Nat /\ DOMAIN s = 1..Len(s)
  OBVIOUS
<1>2. Len(s) \in Int /\ 1 \in Int
  BY <1>1
<1>3. IsFiniteSet(1..Len(s))
  BY <1>2, FS_Interval
<1> QED BY <1>1, <1>3

\* At the start there are no samples.
LEMMA InitFeed == Init => FeedInv
<1> SUFFICES ASSUME Init PROVE FeedInv
  OBVIOUS
<1>1. /\ ring = [m \in Mnems |-> <<>>] /\ history = <<>> /\ pending = {}
      /\ cursor = 0 /\ life = 1
  BY DEF Init
<1>2. Capacity \in Nat /\ MaxIdx \in Nat
  BY ReadApiConstants
<1>3. IsFiniteSet({})
  BY FS_EmptySet
<1> QED BY <1>1, <1>2, <1>3 DEF FeedInv, Rises

\* The places of two sequences, one after the other.
LEMMA Concatenated ==
    ASSUME NEW S, NEW s \in Seq(S), NEW a \in Seq(S)
    PROVE  /\ s \o a \in Seq(S) /\ Len(s \o a) = Len(s) + Len(a)
           /\ DOMAIN (s \o a) = 1..(Len(s) + Len(a))
           /\ \A p \in 1..(Len(s) + Len(a)) :
                  /\ (s \o a)[p] \in S
                  /\ (s \o a)[p] = IF p =< Len(s) THEN s[p] ELSE a[p - Len(s)]
<1>1. s \o a \in Seq(S)
  OBVIOUS
<1>2. Len(s \o a) = Len(s) + Len(a)
  OBVIOUS
<1>3. \A p \in 1..(Len(s) + Len(a)) : (s \o a)[p] = IF p =< Len(s) THEN s[p] ELSE a[p - Len(s)]
  OBVIOUS
<1> DEFINE u == s \o a
           l == Len(s) + Len(a)
<1>4. u \in Seq(S) /\ Len(u) = l
  BY <1>1, <1>2
<1> HIDE DEF u, l
<1>5. DOMAIN u = 1..l /\ \A p \in 1..l : u[p] \in S
  BY <1>4
<1> QED BY <1>1, <1>2, <1>3, <1>5 DEF u, l

\* Rows beyond the cursor continue a buffer that rises to it.
LEMMA AppendRises ==
    ASSUME NEW s \in Seq(Samples), NEW c \in Nat, Rises(s, c), NEW n \in Nat,
           NEW a \in Seq(Samples), Len(a) = n, \A j \in 1..n : a[j].i = c + j
    PROVE  s \o a \in Seq(Samples) /\ Rises(s \o a, c + n)
<1> DEFINE l == Len(s)
           u == s \o a
<1>1. l \in Nat /\ DOMAIN s = 1..l /\ \A p \in 1..l : s[p] \in Samples
  OBVIOUS
<1>2. /\ u \in Seq(Samples) /\ DOMAIN u = 1..(l + n)
      /\ \A p \in 1..l : u[p] = s[p]
      /\ \A p \in 1..(l + n) : u[p] \in Samples /\ (~(p =< l) => u[p] = a[p - l])
  <2>1. /\ u \in Seq(Samples) /\ DOMAIN u = 1..(Len(s) + n)
        /\ \A p \in 1..(Len(s) + n) :
               u[p] \in Samples /\ u[p] = IF p =< Len(s) THEN s[p] ELSE a[p - Len(s)]
    BY Concatenated
  <2> HIDE DEF u
  <2>2. \A p \in 1..l : p \in 1..(l + n) /\ p =< l
    BY <1>1
  <2> QED BY <2>1, <2>2
<1> HIDE DEF l, u
<1>3. ASSUME NEW p \in 1..(l + n) PROVE u[p].i \in Int /\ u[p] \in Samples
  <2>1. u[p] \in Samples
    BY <1>2
  <2> QED BY <2>1, SampleIndex
<1>4. ASSUME NEW p \in 1..l PROVE u[p].i = s[p].i /\ u[p].i =< c
  BY <1>1, <1>2 DEF Rises
<1>5. ASSUME NEW p \in 1..(l + n), ~(p =< l)
      PROVE  p - l \in 1..n /\ u[p].i = c + (p - l)
  BY <1>1, <1>2, <1>5
<1>6. \A p \in DOMAIN u : u[p].i =< c + n
  <2>1. ASSUME NEW p \in 1..(l + n) PROVE u[p].i =< c + n
    <3>1. CASE p =< l
      <4>1. p \in 1..l
        BY <1>1, <3>1
      <4> QED BY <1>3, <1>4, <4>1
    <3>2. CASE ~(p =< l)
      BY <1>1, <1>5, <3>2
    <3> QED BY <3>1, <3>2
  <2> QED BY <1>2, <2>1
<1>7. ASSUME NEW p \in 1..(l + n), NEW q \in 1..(l + n), p < q PROVE u[p].i < u[q].i
  <2>1. CASE q =< l
    <3>1. p \in 1..l /\ q \in 1..l
      BY <1>1, <1>7, <2>1
    <3>2. s[p].i < s[q].i
      BY <1>1, <1>7, <3>1 DEF Rises
    <3> QED BY <1>4, <3>1, <3>2
  <2>2. CASE ~(q =< l) /\ p =< l
    <3>1. p \in 1..l
      BY <1>1, <2>2
    <3>2. u[p].i =< c /\ u[p].i \in Int
      BY <1>3, <1>4, <3>1
    <3>3. u[q].i = c + (q - l) /\ q - l \in 1..n
      BY <1>5, <2>2
    <3> QED BY <1>1, <3>2, <3>3
  <2>3. CASE ~(q =< l) /\ ~(p =< l)
    <3>1. u[p].i = c + (p - l) /\ u[q].i = c + (q - l)
      BY <1>5, <2>3
    <3> QED BY <1>1, <1>7, <3>1
  <2> QED BY <2>1, <2>2, <2>3
<1>8. Rises(u, c + n)
  BY <1>2, <1>6, <1>7 DEF Rises
<1> QED BY <1>2, <1>8 DEF u

\* Ingestion continues every buffer from the cursor.
LEMMA IngestKeepsFeed ==
    ASSUME FeedInv, NEW n \in 1..MaxIdx, Ingest(n)
    PROVE  FeedInv'
<1> DEFINE At(m) == [j \in 1..n |-> [m |-> m, i |-> cursor + j, v |-> life]]
<1>1. /\ cursor + n =< MaxIdx /\ cursor' = cursor + n /\ history' = history /\ life' = life
      /\ ring' = [m \in Mnems |-> Newest(ring[m] \o At(m), Capacity)]
      /\ pending' = UNION {ToSet(At(m)) : m \in Mnems}
  BY DEF Ingest
<1>2. /\ MaxIdx \in Nat /\ n \in Nat /\ cursor \in Nat /\ life \in Nat
      /\ Capacity \in Nat \ {0} /\ IsFiniteSet(Mnems)
  BY ReadApiConstants DEF FeedInv
<1>3. \A j \in 1..n : cursor + j \in 1..MaxIdx
  BY <1>1, <1>2
<1>4. ASSUME NEW m \in Mnems
      PROVE  /\ At(m) \in Seq(Samples) /\ Len(At(m)) = n /\ DOMAIN At(m) = 1..n
             /\ \A j \in 1..n : At(m)[j].i = cursor + j
  <2>1. \A j \in 1..n : [m |-> m, i |-> cursor + j, v |-> life] \in Samples
    BY <1>2, <1>3 DEF Samples
  <2>2. At(m) \in [1..n -> Samples]
    BY <2>1
  <2>3. At(m) \in Seq(Samples) /\ Len(At(m)) = n
    BY <1>2, <2>2
  <2> QED BY <2>2, <2>3
<1> HIDE DEF At
<1>5. ASSUME NEW m \in Mnems
      PROVE  /\ ring'[m] \in Seq(Samples) /\ Rises(ring'[m], cursor') /\ Len(ring'[m]) =< Capacity
  <2> DEFINE u == ring[m] \o At(m)
  <2>1. ring[m] \in Seq(Samples) /\ Rises(ring[m], cursor)
    BY DEF FeedInv
  <2>2. u \in Seq(Samples) /\ Rises(u, cursor + n)
    BY <1>2, <1>4, <2>1, AppendRises
  <2>3. ring'[m] = Newest(u, Capacity)
    BY <1>1
  <2> HIDE DEF u
  <2>4. Newest(u, Capacity) \in Seq(Samples) /\ Rises(Newest(u, Capacity), cursor + n)
        /\ Len(Newest(u, Capacity)) =< Capacity
    BY <1>2, <2>2, NewestOf
  <2> QED BY <1>1, <2>3, <2>4
<1>6. ring' \in [Mnems -> Seq(Samples)]
  BY <1>1, <1>5
<1>7. pending' \in SUBSET Samples
  BY <1>1, <1>4 DEF ToSet
<1>8. IsFiniteSet(pending')
  <2> DEFINE f == [m \in Mnems |-> ToSet(At(m))]
  <2>1. ASSUME NEW m \in Mnems PROVE IsFiniteSet(ToSet(At(m)))
    <3> DEFINE a == At(m)
    <3>1. a \in Seq(Samples) /\ DOMAIN a = 1..n /\ \A j \in 1..n : a[j].i = cursor + j
      BY <1>4
    <3> HIDE DEF a
    <3>2. Rises(a, cursor + n)
      BY <1>2, <3>1 DEF Rises
    <3>3. IsFiniteSet(ToSet(a))
      BY <3>1, <3>2, RisingSamples
    <3> QED BY <3>3 DEF a
  <2>2. \A m \in Mnems : f[m] = ToSet(At(m))
    OBVIOUS
  <2> HIDE DEF f
  <2>3. IsFiniteSet(UNION {f[m] : m \in Mnems})
    BY <1>2, <2>1, <2>2, FiniteFamily
  <2>4. UNION {f[m] : m \in Mnems} = pending'
    BY <1>1, <2>2
  <2> QED BY <2>3, <2>4
<1>9. cursor' \in 0..MaxIdx
  BY <1>1, <1>2
<1> QED BY <1>1, <1>5, <1>6, <1>7, <1>8, <1>9 DEF FeedInv

\* The insert adds the whole batch to the history, or nothing.
LEMMA PersistKeepsFeed ==
    ASSUME FeedInv, NEW ok \in BOOLEAN, Persist(ok)
    PROVE  FeedInv' /\ UNION ToSet(history) \subseteq UNION ToSet(history')
<1>1. /\ ring' = ring /\ cursor' = cursor /\ life' = life /\ pending' = {}
      /\ history' = IF ok THEN Append(history, pending) ELSE history
  BY DEF Persist
<1>2. history \in Seq(SUBSET Samples) /\ pending \in SUBSET Samples /\ IsFiniteSet(pending)
      /\ \A b \in DOMAIN history : IsFiniteSet(history[b])
  BY DEF FeedInv
<1>3. IsFiniteSet({})
  BY FS_EmptySet
<1>4. /\ history' \in Seq(SUBSET Samples)
      /\ DOMAIN history \subseteq DOMAIN history' /\ \A b \in DOMAIN history : history'[b] = history[b]
      /\ \A b \in DOMAIN history' : b \in DOMAIN history \/ history'[b] = pending
  <2>1. CASE ok
    <3> DEFINE h == Append(history, pending)
               l == Len(history)
    <3>1. h \in Seq(SUBSET Samples) /\ Len(h) = l + 1 /\ l \in Nat
      BY <1>2
    <3>2. DOMAIN history = 1..l /\ DOMAIN h = 1..(l + 1)
      BY <1>2, <3>1
    <3>3. \A b \in 1..l : h[b] = history[b]
      BY <1>2
    <3>4. h[l + 1] = pending
      BY <1>2
    <3>5. history' = h
      BY <1>1, <2>1
    <3> HIDE DEF h, l
    <3>6. \A b \in 1..(l + 1) : b \in 1..l \/ b = l + 1
      BY <3>1
    <3>7. \A b \in 1..l : b \in 1..(l + 1)
      BY <3>1
    <3> QED BY <3>1, <3>2, <3>3, <3>4, <3>5, <3>6, <3>7
  <2>2. CASE ~ok
    BY <1>1, <1>2, <2>2
  <2> QED BY <2>1, <2>2
<1>5. \A b \in DOMAIN history' : IsFiniteSet(history'[b])
  BY <1>2, <1>4
<1>6. FeedInv'
  BY <1>1, <1>3, <1>4, <1>5 DEF FeedInv
<1>7. UNION ToSet(history) \subseteq UNION ToSet(history')
  BY <1>4 DEF ToSet
<1> QED BY <1>6, <1>7

\* A restart empties the buffers and keeps the history.
LEMMA RestartKeepsFeed ==
    ASSUME FeedInv, NEW saved \in 0..MaxIdx, Restart(saved)
    PROVE  FeedInv'
<1>1. /\ ring' = [m \in Mnems |-> <<>>] /\ pending' = {} /\ history' = history
      /\ cursor' = saved /\ life = 1 /\ life' = life + 1
  BY DEF Restart
<1>2. Capacity \in Nat /\ MaxIdx \in Nat
  BY ReadApiConstants
<1>3. IsFiniteSet({})
  BY FS_EmptySet
<1>4. life' \in 1..2 /\ cursor' \in 0..MaxIdx
  BY <1>1
<1>5. ring' \in [Mnems -> Seq(Samples)] /\ \A m \in Mnems : Rises(ring'[m], cursor') /\ Len(ring'[m]) =< Capacity
  BY <1>1, <1>2 DEF Rises
<1> QED BY <1>1, <1>3, <1>4, <1>5 DEF FeedInv

\* A step that leaves the feed alone keeps it.
LEMMA SameFeed ==
    ASSUME FeedInv, UNCHANGED feed
    PROVE  FeedInv' /\ history' = history
BY DEF FeedInv, feed

-----------------------------------------------------------------------------
(* What the export reads. *)

\* The rows of the table are finitely many, and every sample of a curve asked for
\* is in one.
LEMMA TableOf ==
    ASSUME FeedInv, NEW mnems
    PROVE  /\ IsFiniteSet(TableRows(mnems)) /\ \A row \in TableRows(mnems) : row[2] \in Samples
           /\ \A x \in UNION ToSet(history) : x.m \in Asked(mnems) =>
                  \E row \in TableRows(mnems) : row[2] = x
<1> DEFINE D == DOMAIN history
           All == UNION {{b} \X history[b] : b \in D}
           f == [b \in D |-> {b} \X history[b]]
<1>1. /\ IsFiniteSet(D) /\ \A b \in D : IsFiniteSet(history[b]) /\ history[b] \in SUBSET Samples
  BY FiniteDomain DEF FeedInv
<1>2. ASSUME NEW b \in D PROVE IsFiniteSet(f[b])
  <2>1. IsFiniteSet({b}) /\ IsFiniteSet(history[b])
    BY <1>1, FS_Singleton
  <2>2. IsFiniteSet({b} \X history[b])
    BY <2>1, FS_Product
  <2> QED BY <2>2
<1>3. IsFiniteSet(UNION {f[b] : b \in D})
  <2> HIDE DEF f, D
  <2> QED BY <1>1, <1>2, FiniteFamily
<1>4. UNION {f[b] : b \in D} = All
  OBVIOUS
<1>5. IsFiniteSet(All)
  BY <1>3, <1>4
<1>6. TableRows(mnems) = {row \in All : row[2].m \in Asked(mnems)}
  BY DEF TableRows
<1>7. \A row \in All : row[2] \in Samples
  BY <1>1
<1>8. \A x \in UNION ToSet(history) : \E row \in All : row[2] = x
  <2>1. ASSUME NEW x \in UNION ToSet(history) PROVE \E row \in All : row[2] = x
    <3>1. PICK b \in D : x \in history[b]
      BY DEF ToSet
    <3>2. <<b, x>> \in {b} \X history[b]
      BY <3>1
    <3>3. <<b, x>> \in All /\ <<b, x>>[2] = x
      BY <3>2
    <3> QED BY <3>3
  <2> QED BY <2>1
<1> HIDE DEF All
<1>9. IsFiniteSet(TableRows(mnems))
  BY <1>5, <1>6, SubsetCard
<1> QED BY <1>6, <1>7, <1>8, <1>9

\* What _history_samples may return: finitely many samples, and all of the table
\* when it is within the limit.
LEMMA HistoryRead ==
    ASSUME FeedInv, NEW mnems, NEW limit \in Nat, NEW read \in HistoryReads(mnems, limit)
    PROVE  /\ read \in SUBSET Samples /\ IsFiniteSet(read)
           /\ Cardinality(TableRows(mnems)) =< limit =>
                  \A x \in UNION ToSet(history) : x.m \in Asked(mnems) => x \in read
<1> DEFINE P == TableRows(mnems)
           Lower(p) == {q \in P : q[2].i < p[2].i}
           UpTo(p) == {q \in P : q[2].i =< p[2].i}
           certain == {p \in P : Cardinality(UpTo(p)) =< limit}
           tied == {p \in P \ certain : Cardinality(Lower(p)) < limit}
<1>1. PICK t \in SUBSET tied : read = {p[2] : p \in certain \cup t}
  BY DEF HistoryReads
<1> DEFINE C == certain \cup t
<1>2. C \subseteq P /\ read = {p[2] : p \in C}
  BY <1>1
<1>3. /\ IsFiniteSet(P) /\ \A row \in P : row[2] \in Samples
      /\ \A x \in UNION ToSet(history) : x.m \in Asked(mnems) => \E row \in P : row[2] = x
  BY TableOf
<1>4. ASSUME Cardinality(P) =< limit PROVE C = P
  <2>1. ASSUME NEW p \in P PROVE p \in certain
    <3> DEFINE U == UpTo(p)
    <3>1. U \subseteq P
      OBVIOUS
    <3> HIDE DEF U, P
    <3>2. Cardinality(U) =< Cardinality(P) /\ Cardinality(U) \in Nat /\ Cardinality(P) \in Nat
      BY <1>3, <3>1, SubsetCard
    <3>3. Cardinality(U) =< limit
      BY <1>4, <3>2
    <3> QED BY <2>1, <3>3 DEF U
  <2> QED BY <1>2, <2>1
<1> HIDE DEF P, C
<1>5. IsFiniteSet(C)
  BY <1>2, <1>3, SubsetCard
<1>6. IsFiniteSet(read)
  <2> DEFINE g == [p \in C |-> p[2]]
  <2>1. g \in Surjection(C, read)
    BY <1>2 DEF Surjection
  <2> HIDE DEF g
  <2> QED BY <1>5, <2>1, FS_Surjection
<1>7. read \in SUBSET Samples
  BY <1>2, <1>3
<1>8. Cardinality(P) =< limit =>
          \A x \in UNION ToSet(history) : x.m \in Asked(mnems) => x \in read
  BY <1>2, <1>3, <1>4
<1> QED BY <1>6, <1>7, <1>8 DEF P

\* One row of each curve and index that was read is kept.
LEMMA FirstRead ==
    ASSUME NEW read \in SUBSET Samples, IsFiniteSet(read), NEW first \in FirstOfEach(read)
    PROVE  /\ first \subseteq read
           /\ \A s, t \in first : s.m = t.m /\ s.i = t.i => s = t
           /\ \A s \in read : \E t \in first : t.m = s.m /\ t.i = s.i
<1> DEFINE Same(s) == {t \in read : t.m = s.m /\ t.i = s.i}
           twice == {s \in read : Same(s) # {s}}
<1>1. PICK d \in SUBSET twice :
          first = read \ d /\ \A s \in twice : Cardinality(Same(s) \ d) = 1
  BY DEF FirstOfEach
<1>2. ASSUME NEW s \in twice PROVE \E x : Same(s) \ d = {x}
  <2> DEFINE U == Same(s) \ d
  <2>1. U \subseteq read /\ Cardinality(U) = 1
    BY <1>1
  <2> HIDE DEF U
  <2>2. IsFiniteSet(U)
    BY <2>1, SubsetCard
  <2>3. \E x : U = {x}
    BY <2>1, <2>2, FS_Singleton
  <2> QED BY <2>3 DEF U
<1>3. ASSUME NEW s \in first, NEW t \in first, s.m = t.m, s.i = t.i PROVE s = t
  <2>1. s \in read /\ t \in read /\ s \notin d /\ t \notin d
    BY <1>1
  <2>2. s \in Same(s) \ d /\ t \in Same(s) \ d
    BY <1>3, <2>1
  <2>3. CASE s \in twice
    BY <1>2, <2>2, <2>3
  <2>4. CASE s \notin twice
    <3>1. Same(s) = {s}
      BY <2>1, <2>4
    <3> QED BY <2>2, <3>1
  <2> QED BY <2>3, <2>4
<1>4. ASSUME NEW s \in read PROVE \E t \in first : t.m = s.m /\ t.i = s.i
  <2>1. CASE s \in twice
    <3>1. PICK x : Same(s) \ d = {x}
      BY <1>2, <2>1
    <3>2. x \in Same(s) /\ x \notin d
      BY <3>1
    <3>3. x \in first /\ x.m = s.m /\ x.i = s.i
      BY <1>1, <3>2
    <3> QED BY <3>3
  <2>2. CASE s \notin twice
    <3>1. s \in first
      BY <1>1, <2>2
    <3> QED BY <3>1
  <2> QED BY <2>1, <2>2
<1> QED BY <1>1, <1>3, <1>4

\* Merging: the indices of both, once, and the warm samples where both have one.
LEMMA MergedBoth ==
    ASSUME NEW W \in SUBSET Samples, IsFiniteSet(W), Unique(W),
           NEW H \in SUBSET Samples, IsFiniteSet(H), Unique(H)
    PROVE  LET M == Merged(W, H)
           IN  /\ M \in SUBSET Samples /\ IsFiniteSet(M) /\ Unique(M)
               /\ W \subseteq M /\ Indices(M) = Indices(W) \cup Indices(H)
               /\ \A s \in M, t \in W : t.i = s.i => s = t
<1> DEFINE X == {h \in H : \A s \in W : h.i # s.i}
           M == Merged(W, H)
<1>1. M = W \cup X
  BY DEF Merged
<1>2. X \subseteq H
  OBVIOUS
<1>3. \A h \in H : h \in X \/ \E s \in W : h.i = s.i
  OBVIOUS
<1>4. \A h \in X, s \in W : h.i # s.i
  OBVIOUS
<1> HIDE DEF X, M
<1>5. IsFiniteSet(X)
  BY <1>2, SubsetCard
<1>6. IsFiniteSet(W \cup X)
  BY <1>5, FS_Union
<1>7. Unique(M)
  BY <1>1, <1>2, <1>4 DEF Unique
<1>8. Indices(M) = Indices(W) \cup Indices(H)
  BY <1>1, <1>2, <1>3 DEF Indices
<1>9. \A s \in M, t \in W : t.i = s.i => s = t
  BY <1>1, <1>4 DEF Unique
<1> QED BY <1>1, <1>2, <1>6, <1>7, <1>8, <1>9 DEF M

\* The samples of one curve.
OfCurve(S, m) == {s \in S : s.m = m}

\* The export's samples of one curve, as FinishExport makes them.
LEMMA ExportedCurve ==
    ASSUME NEW W \in SUBSET Samples, IsFiniteSet(W), Unique(W),
           NEW first \in SUBSET Samples, IsFiniteSet(first),
           \A s, t \in first : s.m = t.m /\ s.i = t.i => s = t,
           NEW m, NEW n \in Nat, NEW got, got = LastOf(Merged(W, OfCurve(first, m)), n)
    PROVE  /\ Cardinality(got) =< n
           /\ \A s \in got : \A t \in W : t.i = s.i => s = t
           /\ \A s, t \in got : t.i = s.i => s = t
           /\ \A i \in Int :
                  \/ i \in Indices(W) \/ i \in Indices(OfCurve(first, m))
                  \/ Cardinality(W) = n /\ \A y \in W : y.i > i
                  => i \in Indices(got) \/ Cardinality(Above(Indices(got), i)) = n
<1> DEFINE H == OfCurve(first, m)
           M == Merged(W, H)
           B == Indices(M)
<1>1. H \subseteq first /\ H \in SUBSET Samples /\ Unique(H)
  BY DEF Unique, OfCurve
<1>2. IsFiniteSet(H)
  BY <1>1, SubsetCard
<1>3. got = LastOf(M, n)
  OBVIOUS
<1> HIDE DEF H, M
<1>4. /\ M \in SUBSET Samples /\ IsFiniteSet(M) /\ Unique(M)
      /\ W \subseteq M /\ Indices(M) = Indices(W) \cup Indices(H)
      /\ \A s \in M, t \in W : t.i = s.i => s = t
  BY <1>1, <1>2, MergedBoth DEF M
<1>5. got \subseteq M /\ Indices(got) = Top(B, n) /\ Cardinality(got) =< n
  BY <1>3, <1>4, LastOfTop
<1>6. B \in SUBSET Int /\ IsFiniteSet(B)
  BY <1>4, IndexCard
<1>7. ASSUME NEW i \in Int, Cardinality(W) = n, \A y \in W : y.i > i
      PROVE  Cardinality(Above(B, i)) >= n
  <2>1. Indices(W) \subseteq Above(B, i)
    BY <1>4, <1>7 DEF Indices, Above
  <2>2. Above(B, i) \subseteq B
    BY DEF Above
  <2> HIDE DEF B
  <2>3. IsFiniteSet(Above(B, i))
    BY <1>6, <2>2, SubsetCard
  <2>4. Cardinality(Indices(W)) = n
    BY <1>7, IndexCard
  <2>5. Cardinality(Indices(W)) =< Cardinality(Above(B, i)) /\ Cardinality(Above(B, i)) \in Nat
    BY <2>1, <2>3, SubsetCard
  <2> QED BY <2>4, <2>5
<1>8. ASSUME NEW i \in Int,
             \/ i \in Indices(W) \/ i \in Indices(H)
             \/ Cardinality(W) = n /\ \A y \in W : y.i > i
      PROVE  i \in Indices(got) \/ Cardinality(Above(Indices(got), i)) = n
  <2>1. CASE i \in B
    <3> HIDE DEF B
    <3> QED BY <1>5, <1>6, <2>1, TopAbove
  <2>2. CASE i \notin B
    <3>1. Cardinality(Above(B, i)) >= n
      BY <1>4, <1>7, <1>8, <2>2
    <3> HIDE DEF B
    <3> QED BY <1>5, <1>6, <3>1, TopAbove
  <2> QED BY <2>1, <2>2
<1>9. \A s \in got : \A t \in W : t.i = s.i => s = t
  BY <1>4, <1>5
<1>10. \A s, t \in got : t.i = s.i => s = t
  BY <1>4, <1>5 DEF Unique
<1> QED BY <1>5, <1>8, <1>9, <1>10 DEF H

-----------------------------------------------------------------------------
(* The export. *)

\* A row that could be read when the export began is in the warm samples it took,
\* is in the history, or is older than limit warm samples.
Covered(m, i) ==
    \/ i \in Indices(ToSet(req.warm[m]))
    \/ \E x \in UNION ToSet(history) : x.m = m /\ x.i = i
    \/ Len(req.warm[m]) = req.limit /\ \A y \in ToSet(req.warm[m]) : y.i > i

\* What an export under way has taken of one curve.
CurveTaken(m) ==
    /\ req.warm[m] \in Seq(Samples) /\ \E top : Rises(req.warm[m], top)
    /\ req.readable[m] \in SUBSET Int /\ \A i \in req.readable[m] : Covered(m, i)

\* The answer owes: no more than the limit, the warm samples where both have one,
\* and every row that could be read unless limit newer rows are there.
AnswerHolds(m) ==
    /\ Cardinality(req.got[m]) =< req.limit
    /\ \A s \in req.got[m] :
           /\ \A t \in ToSet(req.warm[m]) : t.i = s.i => s = t
           /\ \A t \in req.got[m] : t.i = s.i => s = t
    /\ (req.all \/ ~req.ok) =>
           \A i \in IF req.ok THEN req.readable[m] ELSE Indices(ToSet(req.warm[m])) :
               i \in Indices(req.got[m]) \/ Cardinality(Above(Indices(req.got[m]), i)) = req.limit

ExportInv ==
    /\ req.op = "export" =>
           /\ req.limit \in Nat \ {0} /\ \A m \in Asked(req.mnems) : CurveTaken(m)
    /\ req.op = "exported" => \A m \in DOMAIN req.got : AnswerHolds(m)

\* What an export takes when it begins.
LEMMA BeginExportKeeps ==
    ASSUME FeedInv, NEW mnems \in SUBSET Mnems, NEW limit \in Limits, BeginExport(mnems, limit)
    PROVE  ExportInv' /\ req'.op = "export"
<1> DEFINE A == Asked(mnems)
           warm == [m \in A |-> GetRecent(m, limit)]
           readable == [m \in A |-> Readable(m)]
<1>1. /\ history' = history
      /\ req' = [op |-> "export", mnems |-> mnems, limit |-> limit, warm |-> warm,
                 readable |-> readable]
  BY DEF BeginExport, Begins, feed
<1>2. /\ A \subseteq Mnems /\ \A m \in A : warm[m] = Newest(ring[m], limit)
      /\ \A m \in A : readable[m] = Readable(m)
  BY DEF Asked, GetRecent
<1>3. limit \in Nat \ {0}
  BY ReadApiConstants
<1> HIDE DEF A, warm, readable
<1>4. /\ req'.op = "export" /\ req'.limit = limit /\ req'.warm = warm /\ req'.readable = readable
      /\ req'.mnems = mnems
  BY <1>1
<1>5. ASSUME NEW m \in A PROVE CurveTaken(m)'
  <2>1. ring[m] \in Seq(Samples) /\ Rises(ring[m], cursor)
    BY <1>2 DEF FeedInv
  <2>2. /\ warm[m] \in Seq(Samples) /\ Rises(warm[m], cursor)
        /\ \A x \in ToSet(ring[m]) :
               x \in ToSet(warm[m]) \/ (Len(warm[m]) = limit /\ \A y \in ToSet(warm[m]) : y.i > x.i)
    BY <1>2, <1>3, <2>1, NewestOf
  <2>3. ToSet(ring[m]) \subseteq Samples
    BY <2>1, RisingSamples
  <2>4. UNION ToSet(history) \subseteq Samples
    BY DEF FeedInv, ToSet
  <2>5. \A i \in readable[m] : \E x : x.i = i /\ (x \in ToSet(ring[m])
                                                 \/ (x \in UNION ToSet(history) /\ x.m = m))
    <3> DEFINE R == ToSet(ring[m]) \cup {s \in UNION ToSet(history) : s.m = m}
    <3>1. readable[m] = {s.i : s \in R}
      BY <1>2 DEF Readable
    <3>2. \A x \in R : x \in ToSet(ring[m]) \/ (x \in UNION ToSet(history) /\ x.m = m)
      BY Zenon
    <3> HIDE DEF R
    <3> QED BY <3>1, <3>2
  <2>6. readable[m] \in SUBSET Int
    BY <2>3, <2>4, <2>5, SampleIndex
  <2>7. ASSUME NEW i \in readable[m] PROVE Covered(m, i)'
    <3>1. PICK x : x.i = i /\ (x \in ToSet(ring[m]) \/ (x \in UNION ToSet(history) /\ x.m = m))
      BY <2>5
    <3>2. CASE x \in ToSet(ring[m])
      BY <1>4, <2>2, <3>1, <3>2 DEF Covered, Indices
    <3>3. CASE x \in UNION ToSet(history) /\ x.m = m
      BY <1>1, <3>1, <3>3 DEF Covered
    <3> QED BY <3>1, <3>2, <3>3
  <2> QED BY <1>4, <2>2, <2>6, <2>7 DEF CurveTaken
<1>6. Asked(req'.mnems) = A
  BY <1>4 DEF A
<1> QED BY <1>3, <1>4, <1>5, <1>6 DEF ExportInv

\* What an export under way has taken stays true while the history only grows.
LEMMA ExportKept ==
    ASSUME ExportInv, req' = req, UNION ToSet(history) \subseteq UNION ToSet(history')
    PROVE  ExportInv'
<1>1. ASSUME NEW m, CurveTaken(m) PROVE CurveTaken(m)'
  <2>1. \A i : Covered(m, i) => Covered(m, i)'
    BY DEF Covered
  <2> QED BY <1>1, <2>1 DEF CurveTaken
<1>2. ASSUME NEW m, AnswerHolds(m) PROVE AnswerHolds(m)'
  BY <1>2 DEF AnswerHolds
<1>3. Asked(req'.mnems) = Asked(req.mnems)
  OBVIOUS
<1> QED BY <1>1, <1>2, <1>3 DEF ExportInv

\* The answer of an export.
LEMMA FinishExportKeeps ==
    ASSUME FeedInv, ExportInv, NEW ok \in BOOLEAN, FinishExport(ok)
    PROVE  ExportInv' /\ req'.op = "exported"
<1> DEFINE A == Asked(req.mnems)
           all == Cardinality(TableRows(req.mnems)) =< req.limit
<1>1. req.op = "export"
  BY DEF FinishExport, Continues
<1>2. PICK read \in IF ok THEN HistoryReads(req.mnems, req.limit) ELSE {{}} :
      \E first \in FirstOfEach(read) :
          req' = [op |-> "exported", limit |-> req.limit, warm |-> req.warm,
                  readable |-> req.readable, ok |-> ok, all |-> all,
                  got |-> [m \in A |-> LastOf(Merged(ToSet(WarmOf(m)), {s \in first : s.m = m}),
                                              req.limit)]]
  BY DEF FinishExport
<1>3. PICK first \in FirstOfEach(read) :
          req' = [op |-> "exported", limit |-> req.limit, warm |-> req.warm,
                  readable |-> req.readable, ok |-> ok, all |-> all,
                  got |-> [m \in A |-> LastOf(Merged(ToSet(WarmOf(m)), {s \in first : s.m = m}),
                                              req.limit)]]
  BY <1>2
<1> DEFINE n == req.limit
           got == [m \in A |-> LastOf(Merged(ToSet(WarmOf(m)), {s \in first : s.m = m}), req.limit)]
<1>4. /\ DOMAIN got = A
      /\ \A m \in A : got[m] = LastOf(Merged(ToSet(req.warm[m]), {s \in first : s.m = m}), n)
  BY DEF WarmOf
<1>5. n \in Nat \ {0} /\ \A m \in A : CurveTaken(m)
  BY <1>1 DEF ExportInv
<1> HIDE DEF got, A, all, n
<1>6. /\ req'.op = "exported" /\ req'.limit = n /\ req'.warm = req.warm
      /\ req'.readable = req.readable /\ req'.ok = ok /\ req'.all = all /\ req'.got = got
  BY <1>3 DEF got, n
<1>7. /\ read \in SUBSET Samples /\ IsFiniteSet(read)
      /\ ok /\ all => \A x \in UNION ToSet(history) : x.m \in A => x \in read
  <2>1. CASE ok
    <3>1. read \in HistoryReads(req.mnems, n) /\ n \in Nat
      BY <1>2, <1>5, <2>1 DEF n
    <3>2. /\ read \in SUBSET Samples /\ IsFiniteSet(read)
          /\ Cardinality(TableRows(req.mnems)) =< n =>
                 \A x \in UNION ToSet(history) : x.m \in Asked(req.mnems) => x \in read
      BY <3>1, HistoryRead
    <3> QED BY <3>2 DEF all, A, n
  <2>2. CASE ~ok
    <3>1. read = {}
      BY <1>2, <2>2
    <3> QED BY <2>2, <3>1, FS_EmptySet
  <2> QED BY <2>1, <2>2
<1>8. /\ first \subseteq read
      /\ \A s, t \in first : s.m = t.m /\ s.i = t.i => s = t
      /\ \A s \in read : \E t \in first : t.m = s.m /\ t.i = s.i
  BY <1>7, FirstRead
<1>9. first \in SUBSET Samples /\ IsFiniteSet(first)
  BY <1>7, <1>8, SubsetCard
<1>10. ASSUME NEW m \in A PROVE AnswerHolds(m)'
  <2> DEFINE W == ToSet(req.warm[m])
             H == OfCurve(first, m)
  <2>1. CurveTaken(m)
    BY <1>5
  <2>2. PICK top : req.warm[m] \in Seq(Samples) /\ Rises(req.warm[m], top)
    BY <2>1 DEF CurveTaken
  <2>3. W \in SUBSET Samples /\ IsFiniteSet(W) /\ Unique(W) /\ Cardinality(W) = Len(req.warm[m])
    BY <2>2, RisingSamples
  <2>4. got[m] = LastOf(Merged(W, H), n) /\ n \in Nat
    BY <1>4, <1>5 DEF OfCurve
  <2> HIDE DEF W
  <2>5. /\ Cardinality(got[m]) =< n
        /\ \A s \in got[m] : \A t \in W : t.i = s.i => s = t
        /\ \A s, t \in got[m] : t.i = s.i => s = t
        /\ \A i \in Int :
               \/ i \in Indices(W) \/ i \in Indices(H)
               \/ Cardinality(W) = n /\ \A y \in W : y.i > i
               => i \in Indices(got[m]) \/ Cardinality(Above(Indices(got[m]), i)) = n
    BY <1>8, <1>9, <2>3, <2>4, ExportedCurve
  <2>6. ASSUME ok, all, NEW i \in req.readable[m]
        PROVE  i \in Indices(got[m]) \/ Cardinality(Above(Indices(got[m]), i)) = n
    <3>1. i \in Int /\ Covered(m, i)
      BY <2>1 DEF CurveTaken
    <3>2. CASE \E x \in UNION ToSet(history) : x.m = m /\ x.i = i
      <4>1. PICK x \in UNION ToSet(history) : x.m = m /\ x.i = i
        BY <3>2
      <4>2. x \in read
        BY <1>7, <2>6, <4>1
      <4>3. PICK t \in first : t.m = m /\ t.i = i
        BY <1>8, <4>1, <4>2
      <4>4. i \in Indices(H)
        BY <4>3 DEF Indices, OfCurve
      <4> QED BY <2>5, <3>1, <4>4
    <3>3. CASE i \in Indices(W) \/ (Len(req.warm[m]) = n /\ \A y \in W : y.i > i)
      <4> HIDE DEF H
      <4> QED BY <2>3, <2>5, <3>1, <3>3
    <3> QED BY <3>1, <3>2, <3>3 DEF Covered, W, n
  <2>7. ASSUME NEW i \in Indices(W)
        PROVE  i \in Indices(got[m]) \/ Cardinality(Above(Indices(got[m]), i)) = n
    <3>1. i \in Int
      BY <2>3, SampleIndex DEF Indices
    <3> QED BY <2>5, <3>1
  <2> QED BY <1>6, <2>5, <2>6, <2>7 DEF AnswerHolds, W
<1> QED BY <1>4, <1>6, <1>10 DEF ExportInv

\* A tree or a comparison owes nothing of an export.
LEMMA NoExport == req'.op \notin {"export", "exported"} => ExportInv'
BY DEF ExportInv

-----------------------------------------------------------------------------
(* The invariant of all requests. *)

\* A request is at a step of one of the handlers, and has entries for wells only.
StepInv ==
    /\ Ready \/ req.op \in {"export", "tree", "compare"}
    /\ req.op \in {"tree", "compare"} => DOMAIN req.got \subseteq Wells \cup Named

ApiInv == QueryInv /\ FeedInv /\ ExportInv /\ StepInv

\* It holds at the start.
LEMMA InitApi == Init => ApiInv
<1> SUFFICES ASSUME Init PROVE ApiInv
  OBVIOUS
<1>1. req = [op |-> "none"]
  BY DEF Init
<1> QED BY <1>1, InitQuery, InitFeed DEF ApiInv, ExportInv, StepInv, Ready

\* A step that leaves the request alone and takes nothing from the history keeps
\* what the request owes.
LEMMA RequestStays ==
    ASSUME ExportInv, StepInv, req' = req, UNION ToSet(history) \subseteq UNION ToSet(history')
    PROVE  ExportInv' /\ StepInv'
<1>1. ExportInv'
  BY ExportKept
<1>2. StepInv'
  BY DEF StepInv, Ready
<1> QED BY <1>1, <1>2

\* No step of the environment breaks it.
LEMMA EnvironmentKeepsApi == ApiInv /\ Environment => ApiInv'
<1> SUFFICES ASSUME ApiInv, Environment PROVE ApiInv'
  OBVIOUS
<1> USE DEF ApiInv
<1>0. QueryInv'
  BY EnvironmentKeepsQuery
<1> SUFFICES FeedInv' /\ ExportInv' /\ StepInv'
  BY <1>0
<1>1. ASSUME NEW n \in 1..MaxIdx, Ingest(n) PROVE FeedInv' /\ ExportInv' /\ StepInv'
  <2>1. req' = req /\ history' = history
    BY <1>1 DEF Ingest
  <2> QED BY <1>1, <2>1, IngestKeepsFeed, RequestStays
<1>2. ASSUME NEW ok \in BOOLEAN, Persist(ok) PROVE FeedInv' /\ ExportInv' /\ StepInv'
  <2>1. req' = req
    BY <1>2 DEF Persist
  <2> QED BY <1>2, <2>1, PersistKeepsFeed, RequestStays
<1>3. ASSUME NEW saved \in 0..MaxIdx, Restart(saved) PROVE FeedInv' /\ ExportInv' /\ StepInv'
  <2>1. req' = [op |-> "none"]
    BY <1>3 DEF Restart
  <2> QED BY <1>3, <2>1, RestartKeepsFeed DEF ExportInv, StepInv, Ready
<1>4. ASSUME NEW k \in DOMAIN Objects, Add(k) \/ Delete(k) PROVE FeedInv' /\ ExportInv' /\ StepInv'
  <2>1. req' = req /\ UNCHANGED feed
    BY <1>4 DEF Add, Delete
  <2> QED BY <2>1, SameFeed, RequestStays
<1>5. ASSUME NEW k \in DOMAIN Objects, NEW d \in 1..2, Grow(k, [top |-> d, bottom |-> d + 1])
      PROVE  FeedInv' /\ ExportInv' /\ StepInv'
  <2>1. req' = req /\ UNCHANGED feed
    BY <1>5 DEF Grow
  <2> QED BY <2>1, SameFeed, RequestStays
<1> QED BY <1>1, <1>2, <1>3, <1>4, <1>5, Zenon DEF Environment

\* No step of a request breaks it.
LEMMA HandlerKeepsApi == ApiInv /\ Handler => ApiInv'
<1> SUFFICES ASSUME ApiInv, Handler PROVE ApiInv'
  OBVIOUS
<1> USE DEF ApiInv
<1>0. /\ QueryInv' /\ StoreInv /\ TreeInv /\ CompareInv
  BY HandlerKeepsQuery DEF QueryInv
<1>a. ASSUME UNCHANGED feed PROVE FeedInv'
  BY <1>a, SameFeed
<1>b. Begins => UNCHANGED feed
  BY DEF Begins
<1>c. \A op : Continues(op) => UNCHANGED feed
  BY DEF Continues
<1> SUFFICES FeedInv' /\ ExportInv' /\ StepInv'
  BY <1>0
<1>1. ASSUME NEW mnems \in SUBSET Mnems, NEW limit \in Limits, BeginExport(mnems, limit)
      PROVE  FeedInv' /\ ExportInv' /\ StepInv'
  <2>1. Begins
    BY <1>1 DEF BeginExport
  <2>2. ExportInv' /\ req'.op = "export"
    BY <1>1, BeginExportKeeps
  <2> QED BY <1>a, <1>b, <2>1, <2>2 DEF StepInv, Ready
<1>2. ASSUME NEW ok \in BOOLEAN, FinishExport(ok) PROVE FeedInv' /\ ExportInv' /\ StepInv'
  <2>1. Continues("export")
    BY <1>2 DEF FinishExport
  <2>2. ExportInv' /\ req'.op = "exported"
    BY <1>2, FinishExportKeeps
  <2> QED BY <1>a, <1>c, <2>1, <2>2 DEF StepInv, Ready
<1>3. ASSUME NEW ok \in BOOLEAN, BeginTree(ok) PROVE FeedInv' /\ ExportInv' /\ StepInv'
  <2>1. Begins
    BY <1>3, Zenon DEF BeginTree
  <2>2. req'.op \in {"refused", "tree"} /\ (req'.op = "tree" => DOMAIN req'.got \subseteq Wells)
    BY <1>0, <1>3, BeginTreeKeeps
  <2> QED BY <1>a, <1>b, <2>1, <2>2, NoExport DEF StepInv, Ready
<1>4. ASSUME NEW ok \in BOOLEAN, CompareBores(ok) PROVE FeedInv' /\ ExportInv' /\ StepInv'
  <2>1. Continues("compare")
    BY <1>4, Zenon DEF CompareBores
  <2>2. req'.op = "compare" /\ req.op = "compare" /\ DOMAIN req'.got = DOMAIN req.got
    BY <1>0, <1>4, CompareBoresKeeps
  <2> QED BY <1>a, <1>c, <2>1, <2>2, NoExport DEF StepInv, Ready
<1>5. ASSUME NEW w \in Wells, NEW ok \in BOOLEAN, TreeBores(w, ok)
      PROVE  FeedInv' /\ ExportInv' /\ StepInv'
  <2>1. Continues("tree")
    BY <1>5, Zenon DEF TreeBores
  <2>2. req'.op = "tree" /\ req.op = "tree" /\ DOMAIN req'.got = DOMAIN req.got
    BY <1>0, <1>5, TreeBoresKeeps
  <2> QED BY <1>a, <1>c, <2>1, <2>2, NoExport DEF StepInv, Ready
<1>6. ASSUME FinishTree PROVE FeedInv' /\ ExportInv' /\ StepInv'
  <2>1. Continues("tree")
    BY <1>6 DEF FinishTree
  <2>2. req'.op = "treed"
    BY <1>0, <1>6, FinishTreeKeeps
  <2> QED BY <1>a, <1>c, <2>1, <2>2, NoExport DEF StepInv, Ready
<1>7. ASSUME NEW n \in 0..(MaxWells + 1), NEW ws \in [1..n -> Named], BeginCompare(ws)
      PROVE  FeedInv' /\ ExportInv' /\ StepInv'
  <2>1. Begins
    BY <1>7, Zenon DEF BeginCompare
  <2>2. n \in Nat
    BY ReadApiConstants
  <2>3. req'.op \in {"refused", "compare"} /\ (req'.op = "compare" => DOMAIN req'.got \subseteq Named)
    BY <1>7, <2>2, BeginCompareKeeps
  <2> QED BY <1>a, <1>b, <2>1, <2>3, NoExport DEF StepInv, Ready
<1>8. ASSUME NEW b \in Bores, NEW ok \in BOOLEAN, CompareMudLogs(b, ok)
      PROVE  FeedInv' /\ ExportInv' /\ StepInv'
  <2>1. Continues("compare")
    BY <1>8 DEF CompareMudLogs
  <2>2. req'.op = "compare" /\ req.op = "compare" /\ DOMAIN req'.got = DOMAIN req.got
    BY <1>0, <1>8, CompareMudLogsKeeps
  <2> QED BY <1>a, <1>c, <2>1, <2>2, NoExport DEF StepInv, Ready
<1>9. ASSUME CompareNext PROVE FeedInv' /\ ExportInv' /\ StepInv'
  <2>1. Continues("compare")
    BY <1>9 DEF CompareNext
  <2>2. req'.op \in {"compare", "compared"} /\ req.op = "compare" /\ DOMAIN req'.got = DOMAIN req.got
    BY <1>0, <1>9, CompareNextKeeps
  <2> QED BY <1>a, <1>c, <2>1, <2>2, NoExport DEF StepInv, Ready
<1>10. ASSUME NEW w \in Wells, TreeBreaks(w) PROVE FeedInv' /\ ExportInv' /\ StepInv'
  <2>1. Continues("tree") /\ req'.op = "refused"
    BY <1>10 DEF TreeBreaks
  <2> QED BY <1>a, <1>c, <2>1, NoExport DEF StepInv, Ready
<1> QED BY <1>1, <1>2, <1>3, <1>4, <1>5, <1>6, <1>7, <1>8, <1>9, <1>10, Zenon DEF Handler

\* It holds in every state.
LEMMA ApiInvariant == Spec => []ApiInv
<1>1. ApiInv /\ UNCHANGED vars => ApiInv'
  <2> SUFFICES ASSUME ApiInv, UNCHANGED vars PROVE ApiInv'
    OBVIOUS
  <2>1. objs' = objs /\ asof' = asof /\ req' = req /\ UNCHANGED feed
    BY DEF vars
  <2>2. FeedInv' /\ history' = history
    BY <2>1, SameFeed DEF ApiInv
  <2>3. ExportInv' /\ StepInv'
    BY <2>1, <2>2, RequestStays DEF ApiInv
  <2>4. QueryInv'
    BY <2>1, RequestKept DEF ApiInv, QueryInv, StoreInv, AsofShrinks
  <2> QED BY <2>2, <2>3, <2>4 DEF ApiInv
<1> QED BY <1>1, InitApi, EnvironmentKeepsApi, HandlerKeepsApi, PTL DEF Spec, Next

\* The buffers keep to max_samples, an export to its limit and a comparison to the
\* wells it was asked for, and the history has only rows of the log.
THEOREM ReadApiTypeCorrect == Spec => []TypeOK
<1>1. ApiInv => TypeOK
  <2> SUFFICES ASSUME ApiInv PROVE TypeOK
    OBVIOUS
  <2>1. /\ \A m \in Mnems : Len(ring[m]) =< Capacity
        /\ cursor \in 0..MaxIdx /\ life \in 1..2
    BY DEF ApiInv, FeedInv
  <2>2. \A s \in UNION ToSet(history) : s \in Samples
    <3>1. history \in Seq(SUBSET Samples)
      BY DEF ApiInv, FeedInv
    <3> QED BY <3>1 DEF ToSet
  <2>3. DOMAIN asof \subseteq DOMAIN Objects /\ DOMAIN objs \subseteq DOMAIN Objects
    BY DEF ApiInv, QueryInv, StoreInv
  <2>4. req.op = "exported" => \A m \in DOMAIN req.got : Cardinality(req.got[m]) =< req.limit
    BY DEF ApiInv, ExportInv, AnswerHolds
  <2>5. StepInv
    BY DEF ApiInv
  <2> QED BY <2>1, <2>2, <2>3, <2>4, <2>5, SampleIndex DEF TypeOK, StepInv
<1> QED BY <1>1, ApiInvariant, PTL

\* Where the buffer and the history both have a row, the export shows the sample
\* of the buffer, and each row once, whatever was ingested, evicted, persisted or
\* read again after a restart.
THEOREM WarmSamplesWin == Spec => []ExportWarmWins
<1>1. ApiInv => ExportWarmWins
  BY DEF ApiInv, ExportInv, AnswerHolds, ExportWarmWins
<1> QED BY <1>1, ApiInvariant, PTL

\* An export has every row that could be read when it began, unless as many newer
\* rows are there as were asked for; this presumes a history within the limit.
THEOREM ExportStaysComplete == Spec => []ExportComplete
<1>1. ApiInv => ExportComplete
  <2> SUFFICES ASSUME ApiInv, req.op = "exported", req.all \/ ~req.ok, NEW m \in DOMAIN req.got,
                      NEW i \in IF req.ok THEN req.readable[m] ELSE {s.i : s \in ToSet(req.warm[m])}
               PROVE  LET got == {s.i : s \in req.got[m]}
                      IN  i \in got \/ Cardinality({j \in got : j > i}) = req.limit
    BY Zenon DEF ExportComplete
  <2>1. AnswerHolds(m)
    BY DEF ApiInv, ExportInv
  <2>2. i \in IF req.ok THEN req.readable[m] ELSE Indices(ToSet(req.warm[m]))
    BY DEF Indices
  <2>3. i \in Indices(req.got[m]) \/ Cardinality(Above(Indices(req.got[m]), i)) = req.limit
    BY <2>1, <2>2 DEF AnswerHolds
  <2> QED BY <2>3 DEF Indices, Above
<1> QED BY <1>1, ApiInvariant, PTL
=============================================================================
