-------------------------------- MODULE Stock --------------------------------
(***************************************************************************)
(* The stock of one part (InventoryService): createMovement checks the     *)
(* available quantity on the row it read, changes the row by a relative    *)
(* UPDATE and logs the movement, in three statements; createPart and       *)
(* updatePart set the quantity on hand outright.                           *)
(*                                                                         *)
(* InventoryTransaction is kept as the sum of what its rows do to the      *)
(* stock on hand.  Locations, prices and other parts are left out, and     *)
(* quantities are whole numbers.                                           *)
(***************************************************************************)
EXTENDS ReadThenWrite, Integers

CONSTANTS
  MaxQuantity,     \* bound: of one movement and of an edit
  MaxOnHand,       \* bound: stock on hand is counted up to this
  MaxEdits,        \* bound: edits of the part
  MaxStockFaults   \* bound: movements that stop before they are logged

ASSUME StockAssumption ==
  /\ MaxQuantity \in Nat \ {0} /\ MaxOnHand \in Nat
  /\ MaxEdits \in Nat /\ MaxStockFaults \in Nat

VARIABLES
  part,           \* quantityOnHand and quantityReserved; none before createPart
  movement,       \* what each request is at and what it does to the row
  logged,         \* sum of the logged movements
  edits,          \* history: edits of the quantity by updatePart
  edited,         \* history: sum of their changes
  unlogged,       \* history: movements that stopped before they were logged
  stockOutdated   \* history: a movement was made on stock that had changed

stockVars == <<part, movement, logged, edits, edited, unlogged, stockOutdated>>

Quantities == 1 .. MaxQuantity
MovementTypes == {"RECEIVE", "ADJUST", "TRANSFER_IN", "TRANSFER_OUT", "RESERVE", "USE", "RETURN"}
Movements ==
  [at : {"idle", "change", "log"}, onHand : Int, reserved : Int, read : Int, fresh : BOOLEAN]
MovementAt(step, onHand, reserved, read) ==
  [at |-> step, onHand |-> onHand, reserved |-> reserved, read |-> read, fresh |-> TRUE]
NoMovement == MovementAt("idle", 0, 0, 0)

StockInit ==
  /\ part = [exists |-> FALSE, onHand |-> 0, reserved |-> 0]
  /\ movement = [r \in Requests |-> NoMovement]
  /\ logged = 0 /\ edits = 0 /\ edited = 0 /\ unlogged = 0 /\ stockOutdated = FALSE

SignedQuantity(type, quantity) ==
  CASE type \in {"USE", "TRANSFER_OUT"} -> -quantity
    [] type \in {"RETURN", "RESERVE"} -> 0
    [] OTHER -> quantity

ReservedDelta(type, quantity) ==
  CASE type = "RESERVE" -> quantity
    [] type \in {"USE", "RETURN"} -> -quantity
    [] OTHER -> 0

CreatePart(r) ==
  /\ ~part.exists /\ movement[r].at = "idle"
  /\ \E quantity \in 0 .. MaxQuantity :
       /\ part' = [exists |-> TRUE, onHand |-> quantity, reserved |-> 0]
       /\ movement' = [movement EXCEPT ![r] =
            IF quantity > 0 THEN MovementAt("log", quantity, 0, 0) ELSE NoMovement]
  /\ UNCHANGED <<logged, edits, edited, unlogged, stockOutdated>>

----------------------------------------------------------------------------
(* createMovement.                                                          *)

Available_Wrong == part.onHand
Available == part.onHand - part.reserved

Permitted(type, quantity) ==
  /\ type \in {"USE", "TRANSFER_OUT", "RESERVE"} => quantity <= Available
  /\ type = "RETURN" => quantity <= part.reserved

BeginMovement(r) ==
  /\ part.exists /\ movement[r].at = "idle"
  /\ \E type \in MovementTypes, quantity \in Quantities :
       /\ Permitted(type, quantity)
       /\ part.onHand + SignedQuantity(type, quantity) <= MaxOnHand
       /\ movement' = [movement EXCEPT ![r] =
            MovementAt("change", SignedQuantity(type, quantity), ReservedDelta(type, quantity), part.onHand)]
  /\ UNCHANGED <<part, logged, edits, edited, unlogged, stockOutdated>>

AtLeastZero_Wrong(n) == n
AtLeastZero(n) == IF n < 0 THEN 0 ELSE n

Changed_Wrong(m) ==
  [part EXCEPT !.onHand = m.read + m.onHand, !.reserved = AtLeastZero(@ + m.reserved)]
Changed(m) == [part EXCEPT !.onHand = @ + m.onHand, !.reserved = AtLeastZero(@ + m.reserved)]

ChangeStock(r) ==
  /\ movement[r].at = "change"
  /\ part' = Changed(movement[r])
  /\ movement' = Overwritten(movement, r, MovementAt("log", movement[r].onHand, 0, 0))
  /\ stockOutdated' = (stockOutdated \/ ~movement[r].fresh)
  /\ UNCHANGED <<logged, edits, edited, unlogged>>

LogTransaction(r) ==
  /\ movement[r].at = "log"
  /\ logged' = logged + movement[r].onHand
  /\ movement' = [movement EXCEPT ![r] = NoMovement]
  /\ UNCHANGED <<part, edits, edited, unlogged, stockOutdated>>

StopUnlogged(r) ==
  /\ movement[r].at = "log" /\ unlogged < MaxStockFaults
  /\ unlogged' = unlogged + 1
  /\ movement' = [movement EXCEPT ![r] = NoMovement]
  /\ UNCHANGED <<part, logged, edits, edited, stockOutdated>>

----------------------------------------------------------------------------
(* updatePart: the quantity on hand as the request gives it, and no log.    *)

UpdatePart ==
  /\ part.exists /\ edits < MaxEdits
  /\ \E quantity \in 0 .. MaxQuantity :
       /\ part' = [part EXCEPT !.onHand = quantity]
       /\ edited' = edited + quantity - part.onHand
  /\ edits' = edits + 1
  /\ movement' = Outdated(movement)
  /\ UNCHANGED <<logged, unlogged, stockOutdated>>

StockNext ==
  \/ UpdatePart
  \/ \E r \in Requests :
       CreatePart(r) \/ BeginMovement(r) \/ ChangeStock(r) \/ LogTransaction(r) \/ StopUnlogged(r)

StockSpec == StockInit /\ [][StockNext]_stockVars

----------------------------------------------------------------------------

\* Quantities are numbers, and requests hold values of their types.
StockTypeOK ==
  /\ part \in [exists : BOOLEAN, onHand : Int, reserved : Nat]
  /\ movement \in [Requests -> Movements]
  /\ logged \in Int /\ edits \in 0 .. MaxEdits /\ edited \in Int
  /\ unlogged \in 0 .. MaxStockFaults /\ stockOutdated \in BOOLEAN

\* When every movement that changed the stock has been logged, the log and the
\* edits of the part explain the stock on hand: no movement is lost to another
\* that read the same stock.
LogExplainsStock ==
  unlogged = 0 /\ (\A r \in Requests : movement[r].at # "log") => part.onHand = logged + edited

\* Stock on hand covers what is reserved, unless a movement was made on stock
\* that had changed since it was read, or somebody edited the quantity.
ReservedIsCovered == ~stockOutdated /\ edits = 0 => part.reserved <= part.onHand

============================================================================
