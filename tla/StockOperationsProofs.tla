----------------------- MODULE StockOperationsProofs -----------------------
(***************************************************************************)
(* Proofs about StockOperations: type correctness, isolation, no           *)
(* overselling, a ledger that replays, no ring of waiting transactions,    *)
(* and the implementation of the atomic Inventory.                         *)
(***************************************************************************)
EXTENDS StockOperations, StockRowsProofs, WellFoundedInduction, TLAPS

(* The movement of a matching UPDATE goes from the quantity it found to    *)
(* the quantity it left.                                                   *)
LEMMA MovementOfUpdate ==
  ASSUME NEW kind \in Kind, NEW row \in StockRow, NEW n \in Int,
         NEW m, m = Movement(kind, n, After(kind, row, n).quantity)
  PROVE  /\ m \in MovementRecord
         /\ m.previous = row.quantity
         /\ m.new = After(kind, row, n).quantity
  BY RowsAssumption
  DEF Kind, StockRow, After, Movement, MovementRecord, QuantityDelta


----------------------------------------------------------------------------
(* Type correctness.                                                       *)

(* A movement of any kind a request may ask for is well typed.             *)
LEMMA MovementIsRecord ==
  ASSUME NEW kind \in Kind, NEW n \in Int, NEW q \in Int
  PROVE  Movement(kind, n, q) \in MovementRecord
  BY DEF Kind, Movement, MovementRecord, QuantityDelta

LEMMA ExtendIsPartial ==
  ASSUME NEW S, NEW T, NEW f, PartialOver(f, S, T), NEW r \in S, NEW v \in T
  PROVE  PartialOver(Extend(f, r, v), S, T)
  BY DEF PartialOver, Extend

LEMMA NothingIsPartial ==
  ASSUME NEW S, NEW T
  PROVE  PartialOver(Nothing, S, T)
  BY DEF PartialOver, Nothing

(* Ending a transaction keeps the types of the variables it resets.        *)
LEMMA CloseType ==
  ASSUME TypeOK, NEW t \in Tx, Close(t)
  PROVE  /\ request' \in [Tx -> Request \cup {NoRequest}]
         /\ todo' \in [Tx -> SUBSET Product]
         /\ \A u \in Tx : todo'[u] \subseteq
              IF u \in Active' THEN DOMAIN request'[u].lines ELSE {}
         /\ DOMAIN pending' = Tx /\ DOMAIN moves' = Tx
         /\ \A u \in Tx : /\ PartialOver(pending'[u], Row, StockRow)
                          /\ PartialOver(moves'[u], Row, MovementRecord)
  BY NothingIsPartial DEF TypeOK, Close, Active

(* The line an UPDATE that matches works on, and the row it leaves.        *)
LEMMA LineFacts ==
  ASSUME TypeOK, NEW t \in Tx, NEW p \in Product, ApplyLine(t, p)
  PROVE  /\ request[t] \in Request
         /\ request[t].kind \in Kind
         /\ p \in DOMAIN request[t].lines
         /\ request[t].lines[p] \in Int
         /\ request[t].kind \notin SignedKind => request[t].lines[p] > 0
         /\ Target(t, p) \in Row
         /\ inventory[Target(t, p)] \in StockRow
         /\ After(request[t].kind, inventory[Target(t, p)], request[t].lines[p]) \in StockRow

<1> DEFINE kind == request[t].kind
           n == request[t].lines[p]
           r == Target(t, p)
<1>1. p \in todo[t] /\ Matches(t, p)
  BY DEF ApplyLine, IsNext
<1>2. t \in Active
  BY <1>1 DEF TypeOK, Active
<1>3. request[t] \in Request /\ p \in DOMAIN request[t].lines
  BY <1>1, <1>2 DEF TypeOK, Active
<1>4. kind \in Kind /\ n \in Int /\ (kind \notin SignedKind => n > 0)
  BY <1>3, RequestAssumption DEF WellFormed
<1>5. r \in Row /\ inventory[r] \in StockRow /\ Permits(kind, inventory[r], n)
  <2>1. r \in Row
    BY <1>3, RequestAssumption DEF WellFormed, Target, Row
  <2> QED
    BY <1>1, <2>1 DEF Matches, TypeOK
<1>6. After(kind, inventory[r], n) \in StockRow
  BY <1>4, <1>5, AfterIsRow
<1> QED
  BY <1>3, <1>4, <1>5, <1>6


LEMMA TypeInductive == TypeOK /\ [Next]_vars => TypeOK'
<1> SUFFICES ASSUME TypeOK, [Next]_vars PROVE TypeOK'
  OBVIOUS
<1>1. ASSUME NEW t \in Tx, NEW req \in Request, Begin(t, req)
      PROVE  TypeOK'
  BY <1>1, RequestAssumption, TxAssumption DEF TypeOK, Begin, Active, WellFormed
<1>2. ASSUME NEW t \in Tx, NEW p \in Product, ApplyLine(t, p)
      PROVE  TypeOK'
  <2> DEFINE kind == request[t].kind
             n == request[t].lines[p]
             r == Target(t, p)
             row == After(kind, inventory[r], n)
  <2>1. /\ r \in Row /\ row \in StockRow /\ row.quantity \in Int
        /\ kind \in Kind /\ n \in Int
    BY <1>2, LineFacts, RowsAssumption DEF StockRow
  <2>2. Movement(kind, n, row.quantity) \in MovementRecord
    BY <2>1, MovementIsRecord
  <2>3. PartialOver(Extend(pending[t], r, row), Row, StockRow)
    BY <2>1, ExtendIsPartial DEF TypeOK
  <2>4. PartialOver(Extend(moves[t], r, Movement(kind, n, row.quantity)), Row, MovementRecord)
    BY <2>1, <2>2, ExtendIsPartial DEF TypeOK
  <2>5. /\ DOMAIN pending' = Tx
        /\ \A u \in Tx : PartialOver(pending'[u], Row, StockRow)
    BY <1>2, <2>3 DEF TypeOK, ApplyLine, WriteLine
  <2>6. /\ DOMAIN moves' = Tx
        /\ \A u \in Tx : PartialOver(moves'[u], Row, MovementRecord)
    BY <1>2, <2>4 DEF TypeOK, ApplyLine, WriteLine
  <2> QED
    BY <1>2, <2>5, <2>6 DEF TypeOK, ApplyLine, WriteLine, Active
<1>3. ASSUME NEW t \in Tx, NEW p \in Product, RejectLine(t, p)
      PROVE  TypeOK'
  BY <1>3, CloseType DEF TypeOK, RejectLine
<1>4. ASSUME NEW t \in Tx, Commit(t)
      PROVE  TypeOK'
  <2>1. inventory' \in [Row -> StockRow]
    BY <1>4 DEF Commit, TypeOK, PartialOver
  <2>2. ledger' \in [Row -> Seq(MovementRecord)]
    BY <1>4 DEF Commit, TypeOK, PartialOver
  <2>3. rows' \subseteq Row
    BY <1>4 DEF Commit, TypeOK, PartialOver
  <2> QED
    BY <1>4, <2>1, <2>2, <2>3, CloseType DEF TypeOK, Commit
<1>5. ASSUME NEW t \in Tx, Abort(t)
      PROVE  TypeOK'
  BY <1>5, CloseType DEF TypeOK, Abort
<1>6. CASE UNCHANGED vars
  BY <1>6 DEF vars, TypeOK, Active
<1> QED
  BY <1>1, <1>2, <1>3, <1>4, <1>5, <1>6 DEF Next, Statement

(* Every variable keeps its type.                                          *)
THEOREM TypeCorrect == Spec => []TypeOK
<1>1. Init => TypeOK
  BY NothingIsPartial, RowsAssumption, TxAssumption
  DEF Init, TypeOK, Active, EmptyRow, StockRow
<1> QED
  BY <1>1, TypeInductive, PTL DEF Spec


----------------------------------------------------------------------------
(* Isolation.                                                              *)

(* A transaction's written rows stay the effect of its lines as long as    *)
(* its own variables and the committed versions of those rows stay put.    *)
LEMMA EffectStable ==
  ASSUME NEW u \in Tx, u \in Active, WritesEffect(u),
         request'[u] = request[u], todo'[u] = todo[u],
         pending'[u] = pending[u], moves'[u] = moves[u],
         rows \subseteq rows',
         \A r \in DOMAIN pending[u] : inventory'[r] = inventory[r]
  PROVE  WritesEffect(u)'
<1>1. \A p : Target(u, p)' = Target(u, p)
  BY DEF Target
<1>2. \A r \in DOMAIN pending[u] :
        FindsRow(request[u].kind, r, rows) => FindsRow(request[u].kind, r, rows')
  BY DEF FindsRow
<1>3. DOMAIN pending'[u] = {Target(u, p)' : p \in DOMAIN request'[u].lines \ todo'[u]}
  BY <1>1 DEF WritesEffect
<1>4. ASSUME NEW r \in DOMAIN pending[u]
      PROVE  /\ FindsRow(request'[u].kind, r, rows')
             /\ Permits(request'[u].kind, inventory'[r], request'[u].lines[r[1]])
             /\ pending'[u][r] = After(request'[u].kind, inventory'[r], request'[u].lines[r[1]])
  BY <1>2 DEF WritesEffect
<1> QED
  BY <1>3, <1>4 DEF WritesEffect

(* Ending one transaction disturbs no other.                               *)
LEMMA CloseKeepsIsolation ==
  ASSUME TypeOK, NoLostUpdate, NEW t \in Tx, Close(t), rows \subseteq rows',
         \A u \in Tx \ {t} : \A r \in DOMAIN pending[u] : inventory'[r] = inventory[r]
  PROVE  NoLostUpdate'
<1>1. ExclusiveLocks'
  BY DEF NoLostUpdate, ExclusiveLocks, Close, TypeOK, Nothing
<1>2. ASSUME NEW u \in Tx
      PROVE  IF u \in Active' THEN WritesEffect(u)'
                              ELSE pending'[u] = Nothing /\ moves'[u] = Nothing
  <2>1. CASE u = t
    BY <2>1 DEF Close, TypeOK, Active
  <2>2. CASE u # t
    <3>1. /\ request'[u] = request[u] /\ todo'[u] = todo[u]
          /\ pending'[u] = pending[u] /\ moves'[u] = moves[u]
      BY <2>2 DEF Close, TypeOK
    <3>2. u \in Active' <=> u \in Active
      BY <3>1 DEF Active
    <3>3. IF u \in Active THEN WritesEffect(u)
                          ELSE pending[u] = Nothing /\ moves[u] = Nothing
      BY DEF NoLostUpdate
    <3> QED
      BY <2>2, <3>1, <3>2, <3>3, EffectStable
  <2> QED
    BY <2>1, <2>2
<1>3. Active' \subseteq Tx
  BY DEF Active
<1> QED
  BY <1>1, <1>2 DEF NoLostUpdate

LEMMA ApplyKeepsIsolation ==
  ASSUME TypeOK, NoLostUpdate, NEW t \in Tx, NEW p \in Product, ApplyLine(t, p)
  PROVE  NoLostUpdate'
<1> DEFINE req == request[t]
           n == req.lines[p]
           r == Target(t, p)
           row == After(req.kind, inventory[r], n)
           move == Movement(req.kind, n, row.quantity)
<1>1. /\ req \in Request /\ t \in Active /\ p \in DOMAIN req.lines /\ p \in todo[t]
      /\ FindsRow(req.kind, r, rows) /\ Permits(req.kind, inventory[r], n)
  BY LineFacts DEF ApplyLine, IsNext, Matches, Active, TypeOK, TxAssumption
<1>2. /\ request' = request /\ inventory' = inventory /\ rows' = rows
      /\ todo' = [todo EXCEPT ![t] = @ \ {p}]
      /\ pending' = [pending EXCEPT ![t] = Extend(@, r, row)]
      /\ moves' = IF Moves(req.kind) THEN [moves EXCEPT ![t] = Extend(@, r, move)]
                                     ELSE moves
      /\ \A u \in Tx \ {t} : r \notin DOMAIN pending[u]
  BY DEF ApplyLine, WriteLine, LockedByOther
<1>3. DOMAIN pending'[t] = DOMAIN pending[t] \cup {r}
  BY <1>2 DEF TypeOK, Extend
<1>4. ExclusiveLocks'
  BY <1>2, <1>3 DEF NoLostUpdate, ExclusiveLocks, TypeOK
<1>5. WritesEffect(t)'
  <2>1. WritesEffect(t)
    BY <1>1 DEF NoLostUpdate
  <2>2. r[1] = p /\ r \notin DOMAIN pending[t]
    BY <1>1, <2>1 DEF WritesEffect, Target
  <2>3. (DOMAIN req.lines \ todo'[t]) = (DOMAIN req.lines \ todo[t]) \cup {p}
    BY <1>1, <1>2 DEF TypeOK
  <2>4. DOMAIN pending'[t] = {<<q, req.location>> : q \in DOMAIN req.lines \ todo'[t]}
    BY <1>3, <2>1, <2>3 DEF WritesEffect, Target
  <2>5. DOMAIN moves'[t] = IF Moves(req.kind) THEN DOMAIN pending'[t] ELSE {}
    BY <1>2, <1>3, <2>1 DEF WritesEffect, TypeOK, Extend
  <2>6. ASSUME NEW x \in DOMAIN pending'[t]
        PROVE  /\ FindsRow(req.kind, x, rows)
               /\ Permits(req.kind, inventory[x], req.lines[x[1]])
               /\ pending'[t][x] = After(req.kind, inventory[x], req.lines[x[1]])
               /\ Moves(req.kind) =>
                    moves'[t][x] = Movement(req.kind, req.lines[x[1]], pending'[t][x].quantity)
    <3>1. CASE x = r
      <4>1. pending'[t][x] = row /\ (Moves(req.kind) => moves'[t][x] = move)
        BY <1>2, <3>1 DEF TypeOK, Extend
      <4> QED
        BY <1>1, <2>2, <3>1, <4>1
    <3>2. CASE x # r
      <4>1. x \in DOMAIN pending[t] /\ pending'[t][x] = pending[t][x]
        BY <1>2, <1>3, <3>2 DEF TypeOK, Extend
      <4>2. Moves(req.kind) => moves'[t][x] = moves[t][x]
        BY <1>2, <2>1, <3>2, <4>1 DEF WritesEffect, TypeOK, Extend
      <4> QED
        BY <2>1, <4>1, <4>2 DEF WritesEffect
    <3> QED
      BY <3>1, <3>2
  <2> QED
    BY <1>2, <2>4, <2>5, <2>6 DEF WritesEffect, Target
<1>6. ASSUME NEW u \in Tx, u # t
      PROVE  IF u \in Active' THEN WritesEffect(u)'
                              ELSE pending'[u] = Nothing /\ moves'[u] = Nothing
  <2>1. /\ request'[u] = request[u] /\ todo'[u] = todo[u] /\ (u \in Active' <=> u \in Active)
        /\ pending'[u] = pending[u] /\ moves'[u] = moves[u]
    BY <1>2, <1>6 DEF TypeOK, Active
  <2>2. IF u \in Active THEN WritesEffect(u)
                        ELSE pending[u] = Nothing /\ moves[u] = Nothing
    BY DEF NoLostUpdate
  <2> QED
    BY <1>2, <2>1, <2>2, EffectStable
<1>7. t \in Active'
  BY <1>1, <1>2 DEF Active
<1> QED
  BY <1>4, <1>5, <1>6, <1>7 DEF NoLostUpdate

LEMMA IsolationInductive == TypeOK /\ NoLostUpdate /\ [Next]_vars => NoLostUpdate'
<1> SUFFICES ASSUME TypeOK, NoLostUpdate, [Next]_vars PROVE NoLostUpdate'
  OBVIOUS
<1>1. ASSUME NEW t \in Tx, NEW req \in Request, Begin(t, req)
      PROVE  NoLostUpdate'
  <2>1. /\ request[t] = NoRequest /\ request' = [request EXCEPT ![t] = req]
        /\ todo' = [todo EXCEPT ![t] = DOMAIN req.lines]
        /\ inventory' = inventory /\ rows' = rows /\ pending' = pending /\ moves' = moves
    BY <1>1 DEF Begin
  <2>2. pending[t] = Nothing /\ moves[t] = Nothing
    BY <2>1 DEF NoLostUpdate, Active
  <2>3. WritesEffect(t)'
    BY <2>1, <2>2 DEF WritesEffect, TypeOK, Nothing
  <2>4. ASSUME NEW u \in Tx, u # t
        PROVE  IF u \in Active' THEN WritesEffect(u)'
                                ELSE pending'[u] = Nothing /\ moves'[u] = Nothing
    <3>1. request'[u] = request[u] /\ todo'[u] = todo[u] /\ (u \in Active' <=> u \in Active)
      BY <2>1, <2>4 DEF TypeOK, Active
    <3>2. IF u \in Active THEN WritesEffect(u)
                          ELSE pending[u] = Nothing /\ moves[u] = Nothing
      BY DEF NoLostUpdate
    <3> QED
      BY <2>1, <3>1, <3>2, EffectStable
  <2>5. t \in Active'
    BY <2>1, TxAssumption DEF Active, TypeOK
  <2>6. ExclusiveLocks'
    BY <2>1 DEF NoLostUpdate, ExclusiveLocks
  <2> QED
    BY <2>3, <2>4, <2>5, <2>6 DEF NoLostUpdate
<1>2. ASSUME NEW t \in Tx, NEW p \in Product, ApplyLine(t, p)
      PROVE  NoLostUpdate'
  BY <1>2, ApplyKeepsIsolation
<1>3. ASSUME NEW t \in Tx, NEW p \in Product, RejectLine(t, p)
      PROVE  NoLostUpdate'
  BY <1>3, CloseKeepsIsolation DEF RejectLine
<1>4. ASSUME NEW t \in Tx, Commit(t)
      PROVE  NoLostUpdate'
  <2>1. ASSUME NEW u \in Tx \ {t}, NEW r \in DOMAIN pending[u]
        PROVE  inventory'[r] = inventory[r]
    <3>1. r \in Row /\ r \notin DOMAIN pending[t]
      BY DEF TypeOK, PartialOver, NoLostUpdate, ExclusiveLocks
    <3> QED
      BY <1>4, <3>1 DEF Commit
  <2> QED
    BY <1>4, <2>1, CloseKeepsIsolation DEF Commit
<1>5. ASSUME NEW t \in Tx, Abort(t)
      PROVE  NoLostUpdate'
  BY <1>5, CloseKeepsIsolation DEF Abort
<1>6. CASE UNCHANGED vars
  BY <1>6 DEF vars, NoLostUpdate, ExclusiveLocks, WritesEffect, Target, Active
<1> QED
  BY <1>1, <1>2, <1>3, <1>4, <1>5, <1>6 DEF Next, Statement

(* No update is lost, whatever the interleaving, crashes included.         *)
THEOREM Isolation == Spec => []NoLostUpdate
<1>1. Init => NoLostUpdate
  BY DEF Init, NoLostUpdate, ExclusiveLocks, Active, Nothing
<1> QED
  BY <1>1, TypeCorrect, IsolationInductive, PTL DEF Spec


----------------------------------------------------------------------------
(* The atomic Inventory is implemented, and what follows from it.          *)

(* The abstract operation, read with this module's operators.              *)
AcceptsHere(req) ==
  \A r \in Targets(req) :
    FindsRow(req.kind, r, rows) /\ Permits(req.kind, inventory[r], req.lines[r[1]])

PerformsHere(req) ==
  /\ AcceptsHere(req)
  /\ inventory' = [r \in Row |->
       IF r \in Targets(req) THEN After(req.kind, inventory[r], req.lines[r[1]])
                             ELSE inventory[r]]
  /\ rows' = rows \cup Targets(req)
  /\ ledger' = [r \in Row |->
       IF r \in Targets(req) /\ Moves(req.kind)
         THEN Append(ledger[r], Movement(req.kind, req.lines[r[1]], inventory'[r].quantity))
         ELSE ledger[r]]

LEMMA PerformReadHere ==
  ASSUME NEW req
  PROVE  Abstract!Perform(req) <=> PerformsHere(req)
<1>1. /\ Abstract!Targets(req) = Targets(req)
      /\ Abstract!Row = Row
      /\ Abstract!Moves(req.kind) = Moves(req.kind)
      /\ \A row, n : Abstract!Permits(req.kind, row, n) = Permits(req.kind, row, n)
      /\ \A row, n : Abstract!After(req.kind, row, n) = After(req.kind, row, n)
      /\ \A n, q : Abstract!Movement(req.kind, n, q) = Movement(req.kind, n, q)
      /\ \A r : Abstract!FindsRow(req.kind, r, rows) = FindsRow(req.kind, r, rows)
  BY DEF Targets, Row, Product, Moves, Permits, After, Movement, QuantityDelta, ReservedDelta,
         SignedKind, FindsRow, Abstract!Targets, Abstract!Row, Abstract!Product,
         Abstract!Moves, Abstract!Permits, Abstract!After, Abstract!Movement,
         Abstract!QuantityDelta, Abstract!ReservedDelta, Abstract!SignedKind,
         Abstract!FindsRow
<1>2. Abstract!Accepts(req) <=> AcceptsHere(req)
  BY <1>1 DEF Abstract!Accepts, AcceptsHere
<1>3. Abstract!Record(req) <=>
        ledger' = [r \in Row |->
          IF r \in Targets(req) /\ Moves(req.kind)
            THEN Append(ledger[r], Movement(req.kind, req.lines[r[1]], inventory'[r].quantity))
            ELSE ledger[r]]
  BY <1>1 DEF Abstract!Record
<1>4. Abstract!Apply(req) <=>
        /\ AcceptsHere(req)
        /\ inventory' = [r \in Row |->
             IF r \in Targets(req) THEN After(req.kind, inventory[r], req.lines[r[1]])
                                   ELSE inventory[r]]
        /\ rows' = rows \cup Targets(req)
  BY <1>1, <1>2 DEF Abstract!Apply
<1> QED
  BY <1>3, <1>4 DEF Abstract!Perform, PerformsHere

(* Committing is performing the whole request at once.                     *)
LEMMA CommitIsPerform ==
  ASSUME TypeOK, NoLostUpdate, NEW t \in Tx, Commit(t)
  PROVE  request[t] \in Request /\ Abstract!Perform(request[t])
<1> DEFINE req == request[t]
<1>1. req \in Request /\ WritesEffect(t) /\ todo[t] = {}
  BY DEF Commit, TypeOK, NoLostUpdate, Active
<1>2. DOMAIN pending[t] = Targets(req)
  BY <1>1 DEF WritesEffect, Targets, Target
<1>3. Targets(req) \subseteq Row
  BY <1>2 DEF TypeOK, PartialOver
<1>4. AcceptsHere(req)
  BY <1>1, <1>2 DEF WritesEffect, AcceptsHere
<1>5. inventory' = [r \in Row |->
        IF r \in Targets(req) THEN After(req.kind, inventory[r], req.lines[r[1]])
                              ELSE inventory[r]]
  BY <1>1, <1>2 DEF WritesEffect, Commit
<1>6. DOMAIN moves[t] = IF Moves(req.kind) THEN Targets(req) ELSE {}
  BY <1>1, <1>2 DEF WritesEffect
<1>7. \A r \in Targets(req) : Moves(req.kind) =>
        moves[t][r] = Movement(req.kind, req.lines[r[1]], inventory'[r].quantity)
  BY <1>1, <1>2, <1>3, <1>5 DEF WritesEffect
<1>8. ledger' = [r \in Row |->
        IF r \in Targets(req) /\ Moves(req.kind)
          THEN Append(ledger[r], Movement(req.kind, req.lines[r[1]], inventory'[r].quantity))
          ELSE ledger[r]]
  BY <1>6, <1>7 DEF Commit
<1>9. rows' = rows \cup Targets(req)
  BY <1>2 DEF Commit
<1> QED
  BY <1>1, <1>4, <1>5, <1>8, <1>9, PerformReadHere DEF PerformsHere

(* Every other step leaves the committed state alone.                      *)
LEMMA StepIsAbstract ==
  TypeOK /\ NoLostUpdate /\ [Next]_vars => [Abstract!Next]_(Abstract!vars)
<1> SUFFICES ASSUME TypeOK, NoLostUpdate, [Next]_vars
             PROVE  [Abstract!Next]_(Abstract!vars)
  OBVIOUS
<1>1. ASSUME NEW t \in Tx, Commit(t)
      PROVE  Abstract!Next
  BY <1>1, CommitIsPerform DEF Abstract!Next
<1>2. ASSUME NEW t \in Tx, ~Commit(t),
             \/ \E req \in Request : Begin(t, req)
             \/ Statement(t)
             \/ Abort(t)
      PROVE  UNCHANGED Abstract!vars
  BY <1>2 DEF Statement, Begin, ApplyLine, WriteLine, RejectLine, Abort, Abstract!vars
<1>3. CASE UNCHANGED vars
  BY <1>3 DEF vars, Abstract!vars
<1> QED
  BY <1>1, <1>2, <1>3 DEF Next

(* Interleaved statements, locks, rollbacks and crashes implement the      *)
(* atomic operations callers are promised.                                 *)
THEOREM Refinement == Spec => Atomic
<1>1. Init => Abstract!Init
  BY DEF Init, EmptyRow, Row, Product, Abstract!Init, Abstract!StockInit, Abstract!EmptyRow,
         Abstract!Row, Abstract!Product
<1> QED
  BY <1>1, TypeCorrect, Isolation, StepIsAbstract, PTL
  DEF Spec, Atomic, Abstract!Spec

(* A performed request leaves sound rows sound.                            *)
ReservedWithinQuantity == \A r \in Row : inventory[r].reserved <= inventory[r].quantity

LEMMA PerformWithinQuantity ==
  ASSUME TypeOK, ReservedWithinQuantity, [Abstract!Next]_(Abstract!vars)
  PROVE  ReservedWithinQuantity'
<1>1. ASSUME NEW req \in Request, PerformsHere(req), NEW r \in Row
      PROVE  inventory'[r].reserved <= inventory'[r].quantity
  <2>1. CASE r \in Targets(req)
    <3>1. /\ Permits(req.kind, inventory[r], req.lines[r[1]])
          /\ inventory'[r] = After(req.kind, inventory[r], req.lines[r[1]])
      BY <1>1, <2>1 DEF PerformsHere, AcceptsHere
    <3>2. /\ req.kind \in Kind /\ req.lines[r[1]] \in Int
          /\ req.kind \notin SignedKind => req.lines[r[1]] > 0
      BY <2>1, RequestAssumption DEF Targets, WellFormed
    <3>3. inventory[r] \in StockRow /\ inventory[r].reserved <= inventory[r].quantity
      BY DEF TypeOK, ReservedWithinQuantity
    <3> QED
      BY <3>1, <3>2, <3>3, AfterWithinQuantity
  <2>2. CASE r \notin Targets(req)
    BY <1>1, <2>2 DEF PerformsHere, ReservedWithinQuantity
  <2> QED
    BY <2>1, <2>2
<1>2. CASE UNCHANGED Abstract!vars
  BY <1>2 DEF Abstract!vars, ReservedWithinQuantity
<1> QED
  BY <1>1, <1>2, PerformReadHere DEF Abstract!Next, ReservedWithinQuantity

LEMMA PendingWithinQuantity ==
  ASSUME TypeOK, NoLostUpdate, ReservedWithinQuantity
  PROVE  NeverOversold
<1>1. ASSUME NEW t \in Tx, NEW r \in DOMAIN pending[t]
      PROVE  pending[t][r].reserved <= pending[t][r].quantity
  <2>1. r \in Row /\ t \in Active
    BY DEF TypeOK, PartialOver, NoLostUpdate, Nothing
  <2>2. request[t] \in Request /\ WritesEffect(t)
    BY <2>1 DEF TypeOK, Active, NoLostUpdate
  <2>3. /\ Permits(request[t].kind, inventory[r], request[t].lines[r[1]])
        /\ pending[t][r] = After(request[t].kind, inventory[r], request[t].lines[r[1]])
        /\ r[1] \in DOMAIN request[t].lines
    BY <2>2 DEF WritesEffect, Target
  <2>4. /\ request[t].kind \in Kind /\ request[t].lines[r[1]] \in Int
        /\ request[t].kind \notin SignedKind => request[t].lines[r[1]] > 0
    BY <2>2, <2>3, RequestAssumption DEF WellFormed
  <2>5. inventory[r] \in StockRow /\ inventory[r].reserved <= inventory[r].quantity
    BY <2>1 DEF TypeOK, ReservedWithinQuantity
  <2> QED
    BY <2>3, <2>4, <2>5, AfterWithinQuantity
<1> QED
  BY <1>1 DEF NeverOversold, ReservedWithinQuantity

(* No interleaving oversells: a unit promised is a unit on the shelf.      *)
THEOREM NoOverselling == Spec => []NeverOversold
<1>1. Init => ReservedWithinQuantity
  BY DEF Init, EmptyRow, ReservedWithinQuantity
<1>2. TypeOK /\ NoLostUpdate /\ ReservedWithinQuantity /\ [Next]_vars
        => ReservedWithinQuantity'
  BY StepIsAbstract, PerformWithinQuantity
<1>3. TypeOK /\ NoLostUpdate /\ ReservedWithinQuantity => NeverOversold
  BY PendingWithinQuantity
<1> QED
  BY <1>1, <1>2, <1>3, TypeCorrect, Isolation, PTL DEF Spec

----------------------------------------------------------------------------
(* The ledger.                                                             *)

LEMMA ReplaysAppend ==
  ASSUME NEW s \in Seq(MovementRecord), NEW q, Replays(s, q),
         NEW m \in MovementRecord, m.previous = q
  PROVE  Replays(Append(s, m), m.new)
<1> DEFINE e == Append(s, m)
<1>1. /\ Len(e) = Len(s) + 1 /\ e[Len(s) + 1] = m /\ e # <<>>
      /\ \A i \in 1..Len(s) : e[i] = s[i]
      /\ Len(s) \in Nat
  OBVIOUS
<1>2. CASE s = <<>>
  BY <1>1, <1>2 DEF Replays
<1>3. CASE s # <<>>
  <2>1. Len(s) > 0 /\ s[1].previous = 0 /\ s[Len(s)].new = q
    BY <1>3, <1>1 DEF Replays
  <2>2. ASSUME NEW i \in 1..Len(e) - 1
        PROVE  e[i].new = e[i + 1].previous
    <3>1. CASE i = Len(s)
      BY <3>1, <1>1, <2>1
    <3>2. CASE i # Len(s)
      BY <3>2, <1>1 DEF Replays
    <3> QED
      BY <3>1, <3>2
  <2> QED
    BY <1>1, <2>1, <2>2 DEF Replays
<1> QED
  BY <1>2, <1>3

LEMMA PerformReplays ==
  ASSUME TypeOK, LedgerReconciles, [Abstract!Next]_(Abstract!vars)
  PROVE  LedgerReconciles'
<1>1. ASSUME NEW req \in Request, PerformsHere(req), NEW r \in Row
      PROVE  Replays(ledger'[r], inventory'[r].quantity)
  <2> DEFINE n == req.lines[r[1]]
             move == Movement(req.kind, n, inventory'[r].quantity)
  <2>1. /\ Replays(ledger[r], inventory[r].quantity)
        /\ ledger[r] \in Seq(MovementRecord) /\ inventory[r] \in StockRow
    BY DEF LedgerReconciles, TypeOK
  <2>2. CASE r \notin Targets(req)
    BY <1>1, <2>1, <2>2 DEF PerformsHere
  <2>3. CASE r \in Targets(req)
    <3>1. req.kind \in Kind /\ n \in Int
      BY <2>3, RequestAssumption DEF Targets, WellFormed
    <3>2. inventory'[r] = After(req.kind, inventory[r], n)
      BY <1>1, <2>3 DEF PerformsHere
    <3>3. CASE Moves(req.kind)
      <4>1. ledger'[r] = Append(ledger[r], move)
        BY <1>1, <2>3, <3>3 DEF PerformsHere
      <4>2. /\ move \in MovementRecord /\ move.previous = inventory[r].quantity
            /\ move.new = inventory'[r].quantity
        BY <2>1, <3>1, <3>2, MovementOfUpdate
      <4> QED
        BY <2>1, <4>1, <4>2, ReplaysAppend
    <3>4. CASE ~Moves(req.kind)
      <4>1. inventory'[r].quantity = inventory[r].quantity
        BY <2>1, <3>1, <3>2, <3>4
        DEF Moves, After, QuantityDelta, Kind, StockRow
      <4> QED
        BY <1>1, <2>1, <3>4, <4>1 DEF PerformsHere
    <3> QED
      BY <3>3, <3>4
  <2> QED
    BY <2>2, <2>3
<1>2. CASE UNCHANGED Abstract!vars
  BY <1>2 DEF Abstract!vars, LedgerReconciles
<1> QED
  BY <1>1, <1>2, PerformReadHere DEF Abstract!Next, LedgerReconciles

(* The movements of every row replay, from zero, to its quantity on hand.  *)
THEOREM Reconciliation == Spec => []LedgerReconciles
<1>1. Init => LedgerReconciles
  BY DEF Init, LedgerReconciles, Replays, EmptyRow
<1>2. TypeOK /\ NoLostUpdate /\ LedgerReconciles /\ [Next]_vars => LedgerReconciles'
  BY StepIsAbstract, PerformReplays
<1> QED
  BY <1>1, <1>2, TypeCorrect, Isolation, PTL DEF Spec


----------------------------------------------------------------------------
(* Deadlock.                                                               *)

(* A transaction has passed every product below the ones it has yet to     *)
(* reach, unless it is of a kind that does not sort them.                  *)
InProductOrder ==
  \A t \in Active : request[t].kind \notin UnorderedKind =>
    \A d \in DOMAIN request[t].lines \ todo[t], q \in todo[t] : d < q

LEMMA OrderInductive == TypeOK /\ InProductOrder /\ [Next]_vars => InProductOrder'
<1> SUFFICES ASSUME TypeOK, InProductOrder, [Next]_vars PROVE InProductOrder'
  OBVIOUS
<1>1. ASSUME NEW t \in Tx, NEW req \in Request, Begin(t, req)
      PROVE  InProductOrder'
  BY <1>1 DEF TypeOK, InProductOrder, Begin, Active
<1>2. ASSUME NEW t \in Tx, NEW p \in Product, ApplyLine(t, p)
      PROVE  InProductOrder'
  <2>1. ASSUME NEW u \in Active', request'[u].kind \notin UnorderedKind,
               NEW d \in DOMAIN request'[u].lines \ todo'[u], NEW q \in todo'[u]
        PROVE  d < q
    <3>1. request' = request /\ todo' = [todo EXCEPT ![t] = @ \ {p}] /\ IsNext(t, p)
      BY <1>2 DEF ApplyLine, WriteLine
    <3>2. u \in Active /\ q \in todo[u] /\ q \in Product
      BY <3>1 DEF Active, TypeOK
    <3>3. CASE d \notin todo[u]
      BY <2>1, <3>1, <3>2, <3>3 DEF InProductOrder
    <3>4. CASE d \in todo[u]
      <4>1. u = t /\ d = p /\ q # p
        BY <3>1, <3>2, <3>4 DEF TypeOK, Active
      <4>2. p <= q
        BY <2>1, <3>1, <3>2, <4>1 DEF IsNext
      <4> QED
        BY <3>2, <4>1, <4>2, RowsAssumption DEF Product
    <3> QED
      BY <3>3, <3>4
  <2> QED
    BY <2>1 DEF InProductOrder
<1>3. ASSUME NEW t \in Tx, Close(t)
      PROVE  InProductOrder'
  BY <1>3 DEF TypeOK, InProductOrder, Close, Active
<1>4. CASE UNCHANGED vars
  BY <1>4 DEF vars, InProductOrder, Active
<1> QED
  BY <1>1, <1>2, <1>3, <1>4 DEF Next, Statement, RejectLine, Commit, Abort

(* A non-empty set of products has a last one.                             *)
LEMMA LastProduct ==
  ASSUME NEW S \in SUBSET Product, S # {}
  PROVE  \E last \in S : \A p \in S : p <= last
<1> DEFINE Gaps == {ProductCount - p : p \in S}
<1>1. Gaps \subseteq Nat /\ Gaps # {}
  <2>1. \A p \in S : ProductCount - p \in Nat
    BY RowsAssumption DEF Product
  <2> QED
    BY <2>1
<1>2. PICK g \in Gaps : \A h \in Gaps : ~ (<<h, g>> \in OpToRel(<, Nat))
  BY <1>1, NatLessThanWellFounded, WFMin
<1>3. PICK last \in S : g = ProductCount - last
  OBVIOUS
<1>4. ASSUME NEW p \in S
      PROVE  p <= last
  <2>1. ~ (ProductCount - p < ProductCount - last)
    BY <1>1, <1>2, <1>3 DEF OpToRel
  <2> QED
    BY <2>1, RowsAssumption DEF Product
<1> QED
  BY <1>3, <1>4

(* A transaction waits only for one whose next product comes later.        *)
LEMMA WaitsUpwards ==
  ASSUME TypeOK, NoLostUpdate, InProductOrder,
         \A req \in Request : req.kind \notin UnorderedKind,
         NEW t \in Tx, NEW u \in Tx, WaitsFor(t, u),
         NEW p \in Product, IsNext(t, p), NEW q \in Product, IsNext(u, q)
  PROVE  p < q
<1>1. t \in Active /\ u \in Active /\ request[t] \in Request /\ request[u] \in Request
  BY DEF IsNext, TypeOK, Active
<1>2. PICK o \in todo[t] : IsNext(t, o) /\ Target(t, o) \in DOMAIN pending[u]
  BY DEF WaitsFor
<1>3. o = p
  BY <1>1, <1>2, RowsAssumption DEF IsNext, TypeOK, Product
<1>4. p \in DOMAIN request[u].lines \ todo[u]
  <2>1. WritesEffect(u)
    BY <1>1 DEF NoLostUpdate
  <2>2. PICK d \in DOMAIN request[u].lines \ todo[u] : Target(t, p) = Target(u, d)
    BY <1>2, <1>3, <2>1 DEF WritesEffect
  <2> QED
    BY <2>2 DEF Target
<1> QED
  BY <1>1, <1>4 DEF InProductOrder, IsNext

LEMMA NoRing ==
  ASSUME TypeOK, NoLostUpdate, InProductOrder,
         \A req \in Request : req.kind \notin UnorderedKind
  PROVE  NoDeadlock
<1> SUFFICES ASSUME NEW S \in SUBSET Tx, S # {},
                    \A t \in S : \E u \in S : WaitsFor(t, u)
             PROVE  FALSE
  BY DEF NoDeadlock
<1> DEFINE Nexts == {p \in Product : \E t \in S : IsNext(t, p)}
<1>1. \A t \in S : \E p \in Product : IsNext(t, p)
  BY DEF WaitsFor, TypeOK
<1>2. PICK last \in Nexts : \A p \in Nexts : p <= last
  BY <1>1, LastProduct
<1>3. PICK t \in S : IsNext(t, last)
  OBVIOUS
<1>4. PICK u \in S : WaitsFor(t, u)
  OBVIOUS
<1>5. PICK q \in Product : IsNext(u, q)
  BY <1>1
<1>6. last < q
  BY <1>3, <1>4, <1>5, WaitsUpwards
<1>7. q <= last
  BY <1>2, <1>5
<1> QED
  BY <1>6, <1>7, RowsAssumption DEF Product

(* As long as nobody approves a stock count or receives a transfer, no set *)
(* of transactions can wait for each other in a ring: inProductOrder does  *)
(* its work.                                                               *)
THEOREM DeadlockFreedom ==
  ASSUME \A req \in Request : req.kind \notin UnorderedKind
  PROVE  Spec => []NoDeadlock
<1>1. Init => InProductOrder
  BY DEF Init, InProductOrder, Active
<1>2. TypeOK /\ NoLostUpdate /\ InProductOrder => NoDeadlock
  BY NoRing
<1> QED
  BY <1>1, <1>2, TypeCorrect, Isolation, OrderInductive, PTL DEF Spec

=============================================================================
