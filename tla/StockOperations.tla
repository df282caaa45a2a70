-------------------------- MODULE StockOperations --------------------------
(***************************************************************************)
(* Stock statements run by concurrent database transactions, one statement *)
(* at a time, under READ COMMITTED (common/inventory/stock-operations.ts,  *)
(* StockService.adjust, and applyVariance of the stock counts).            *)
(*                                                                         *)
(* A transaction updates one row per line, in product order; an UPDATE     *)
(* that matches takes the row's lock until the transaction ends, one that  *)
(* matches nothing makes the service throw, and the transaction rolls      *)
(* back.  Row locks, commit and rollback are PostgreSQL's.                 *)
(***************************************************************************)
EXTENDS StockRows, Sequences, FiniteSets

CONSTANTS
  Request,    \* what documents ask for: [kind, location, lines]
  Tx,         \* database sessions, each running one transaction at a time
  NoRequest,  \* marks a session with no transaction open
  MaxLedger   \* bound on the movements a row has when a transaction begins

ASSUME RequestAssumption == \A req \in Request : WellFormed(req)

ASSUME TxAssumption == NoRequest \notin Request /\ MaxLedger \in Nat

VARIABLES
  inventory,  \* the committed quantities, per key; EmptyRow where no row is
  rows,       \* the keys that have a committed row
  ledger,     \* per key, its committed StockMovements in commit order
  request,    \* what each session's transaction has been asked to do
  todo,       \* the products whose line it has not reached yet
  pending,    \* the row versions it has written; their rows are locked
  moves       \* the movements it has collected for the ledger

vars == <<inventory, rows, ledger, request, todo, pending, moves>>

(* The promise made to callers, over the committed state alone.            *)
Abstract == INSTANCE Inventory WITH inventory <- inventory, rows <- rows, ledger <- ledger

Nothing == [r \in {} |-> EmptyRow]

Active == {t \in Tx : request[t] # NoRequest}

Init ==
  /\ inventory = [r \in Row |-> EmptyRow]
  /\ rows = Catalogue
  /\ ledger = [r \in Row |-> <<>>]
  /\ request = [t \in Tx |-> NoRequest]
  /\ todo = [t \in Tx |-> {}]
  /\ pending = [t \in Tx |-> Nothing]
  /\ moves = [t \in Tx |-> Nothing]

Begin(t, req) ==
  /\ request[t] = NoRequest
  /\ Moves(req.kind) => \A r \in Targets(req) : Len(ledger[r]) < MaxLedger
  /\ request' = [request EXCEPT ![t] = req]
  /\ todo' = [todo EXCEPT ![t] = DOMAIN req.lines]
  /\ UNCHANGED <<inventory, rows, ledger, pending, moves>>

(* Mutant: the lines come as the document lists them.                      *)
IsNextUnsorted(t, p) == p \in todo[t]

(* The line reached next: inProductOrder sorts a document's lines.  The    *)
(* items of a stock count, and the rows a transfer inserts where it        *)
(* arrives, come in whatever order the query returned them.                *)
IsNext(t, p) ==
  /\ p \in todo[t]
  /\ request[t].kind \notin UnorderedKind => \A q \in todo[t] : p <= q

Target(t, p) == <<p, request[t].location>>

LockedByOther(t, r) == \E u \in Tx \ {t} : r \in DOMAIN pending[u]

(* Does the UPDATE match a row?  The row is the committed version: a       *)
(* transaction reaches each of its rows once.  An arrival inserts the row  *)
(* when there is none; two that insert the same key wait for each other.   *)
Matches(t, p) ==
  /\ FindsRow(request[t].kind, Target(t, p), rows)
  /\ Permits(request[t].kind, inventory[Target(t, p)], request[t].lines[p])

(* Partial functions extended at one point.                                *)
Extend(f, r, v) == [x \in DOMAIN f \cup {r} |-> IF x = r THEN v ELSE f[x]]

(* What a line's UPDATE writes, and the movement the service collects.     *)
WriteLine(t, p) ==
  LET kind == request[t].kind
      n    == request[t].lines[p]
      r    == Target(t, p)
      row  == After(kind, inventory[r], n)
  IN /\ todo' = [todo EXCEPT ![t] = @ \ {p}]
     /\ pending' = [pending EXCEPT ![t] = Extend(@, r, row)]
     /\ moves' = IF Moves(kind)
                   THEN [moves EXCEPT ![t] =
                           Extend(@, r, Movement(kind, n, row.quantity))]
                   ELSE moves
     /\ UNCHANGED <<inventory, rows, ledger, request>>

(* Mutant: the row is read and checked, then written back, not updated in  *)
(* one statement that waits for its lock.                                  *)
ReadThenWrite(t, p) == IsNext(t, p) /\ Matches(t, p) /\ WriteLine(t, p)

(* One UPDATE that matches, once it has the row's lock.                    *)
ApplyLine(t, p) ==
  /\ IsNext(t, p)
  /\ Matches(t, p)
  /\ ~LockedByOther(t, Target(t, p))
  /\ WriteLine(t, p)

(* The transaction is over: its locks are released, its session is free.   *)
Close(t) ==
  /\ request' = [request EXCEPT ![t] = NoRequest]
  /\ todo' = [todo EXCEPT ![t] = {}]
  /\ pending' = [pending EXCEPT ![t] = Nothing]
  /\ moves' = [moves EXCEPT ![t] = Nothing]

(* Mutant: the failure is swallowed and the lines before it are kept.      *)
RejectLineAlone(t, p) ==
  /\ IsNext(t, p)
  /\ ~Matches(t, p)
  /\ inventory' = [r \in Row |->
       IF r \in DOMAIN pending[t] THEN pending[t][r] ELSE inventory[r]]
  /\ Close(t)
  /\ UNCHANGED <<rows, ledger>>

(* One UPDATE that matches no row: the service throws and rolls back.  The *)
(* WHERE clause is judged on the committed row before its lock is wanted.  *)
RejectLine(t, p) ==
  /\ IsNext(t, p)
  /\ ~Matches(t, p)
  /\ Close(t)
  /\ UNCHANGED <<inventory, rows, ledger>>

(* stockMovement.createMany writes the collected movements, then COMMIT    *)
(* makes them and the rows visible together.                               *)
Commit(t) ==
  /\ request[t] # NoRequest
  /\ todo[t] = {}
  /\ inventory' = [r \in Row |->
       IF r \in DOMAIN pending[t] THEN pending[t][r] ELSE inventory[r]]
  /\ rows' = rows \cup DOMAIN pending[t]
  /\ ledger' = [r \in Row |->
       IF r \in DOMAIN moves[t] THEN Append(ledger[r], moves[t][r]) ELSE ledger[r]]
  /\ Close(t)

(* A crash, a lost connection, a transaction timeout, or being chosen as a *)
(* deadlock victim: PostgreSQL rolls the transaction back.                 *)
Abort(t) ==
  /\ request[t] # NoRequest
  /\ Close(t)
  /\ UNCHANGED <<inventory, rows, ledger>>

Statement(t) == \E p \in Product : ApplyLine(t, p) \/ RejectLine(t, p)

Next ==
  \E t \in Tx :
    \/ \E req \in Request : Begin(t, req)
    \/ Statement(t)
    \/ Commit(t)
    \/ Abort(t)

Spec == Init /\ [][Next]_vars

(* A session's next statement is strongly fair because PostgreSQL queues   *)
(* waiters for a row lock; committing needs no one else.  Nothing is       *)
(* assumed of requests arriving or of transactions being aborted.          *)
Fairness == \A t \in Tx : SF_vars(Statement(t)) /\ WF_vars(Commit(t))

FairSpec == Spec /\ Fairness

----------------------------------------------------------------------------
(* Properties.                                                             *)

PartialOver(f, S, T) == DOMAIN f \subseteq S /\ \A x \in DOMAIN f : f[x] \in T

MovementRecord == [kind : Kind, quantity : Nat, previous : Int, new : Int]

TypeOK ==
  /\ inventory \in [Row -> StockRow]
  /\ rows \subseteq Row
  /\ ledger \in [Row -> Seq(MovementRecord)]
  /\ request \in [Tx -> Request \cup {NoRequest}]
  /\ todo \in [Tx -> SUBSET Product]
  /\ \A t \in Tx :
       todo[t] \subseteq IF t \in Active THEN DOMAIN request[t].lines ELSE {}
  /\ DOMAIN pending = Tx /\ DOMAIN moves = Tx
  /\ \A t \in Tx : /\ PartialOver(pending[t], Row, StockRow)
                   /\ PartialOver(moves[t], Row, MovementRecord)

(* No interleaving of transactions promises more units of a product than   *)
(* are on the shelf, in any committed row or in one about to be committed: *)
(* the Inventory_reserved_within_quantity constraint never has to fire.    *)
NeverOversold ==
  /\ \A r \in Row : inventory[r].reserved <= inventory[r].quantity
  /\ \A t \in Tx : \A r \in DOMAIN pending[t] :
       pending[t][r].reserved <= pending[t][r].quantity

(* No update is lost: what a transaction has written so far is still the   *)
(* effect of its own lines on the committed rows, because nobody else      *)
(* commits to a row it has locked.                                         *)
ExclusiveLocks ==
  \A t, u \in Tx : t # u => DOMAIN pending[t] \cap DOMAIN pending[u] = {}

WritesEffect(t) ==
  LET req  == request[t]
      done == DOMAIN req.lines \ todo[t]
  IN /\ DOMAIN pending[t] = {Target(t, p) : p \in done}
     /\ DOMAIN moves[t] = IF Moves(req.kind) THEN DOMAIN pending[t] ELSE {}
     /\ \A r \in DOMAIN pending[t] :
          /\ FindsRow(req.kind, r, rows)
          /\ Permits(req.kind, inventory[r], req.lines[r[1]])
          /\ pending[t][r] = After(req.kind, inventory[r], req.lines[r[1]])
          /\ Moves(req.kind) =>
               moves[t][r] = Movement(req.kind, req.lines[r[1]], pending[t][r].quantity)

NoLostUpdate ==
  /\ ExclusiveLocks
  /\ \A t \in Tx : IF t \in Active THEN WritesEffect(t)
                    ELSE pending[t] = Nothing /\ moves[t] = Nothing

(* The ledger of a row replays to the quantity on hand: movements chain    *)
(* from zero, each starting where the one before it ended, and the last    *)
(* one ends at the committed quantity - whatever interleaved, rolled back  *)
(* or crashed in between.                                                  *)
Replays(moved, quantity) ==
  /\ moved = <<>> => quantity = 0
  /\ moved # <<>> => /\ moved[1].previous = 0
                     /\ moved[Len(moved)].new = quantity
  /\ \A i \in 1..Len(moved) - 1 : moved[i].new = moved[i + 1].previous

LedgerReconciles == \A r \in Row : Replays(ledger[r], inventory[r].quantity)

(* Transactions wait for each other only along increasing products, so no  *)
(* set of them can be waiting in a ring: inProductOrder prevents deadlock. *)
WaitsFor(t, u) ==
  /\ t # u
  /\ \E p \in todo[t] :
       IsNext(t, p) /\ Matches(t, p) /\ Target(t, p) \in DOMAIN pending[u]

NoDeadlock ==
  ~ \E S \in SUBSET Tx : S # {} /\ \A t \in S : \E u \in S : WaitsFor(t, u)

(* Every stock operation is all or nothing and isolated from the others:   *)
(* the committed rows and ledger only ever change as the abstract,         *)
(* atomic Inventory allows.                                                *)
Atomic == Abstract!Spec

(* Every transaction comes to an end: nobody waits for a row for ever.     *)
EveryTransactionEnds == \A t \in Tx : request[t] # NoRequest ~> request[t] = NoRequest

=============================================================================
