---------------------------- MODULE RecordsProofs ----------------------------
(***************************************************************************)
(* Proofs about the stock of parts, the numbers of tickets, elevations, the*)
(* second factor and managed devices, for any numbers of requests,         *)
(* quantities and rows.                                                    *)
(*                                                                         *)
(* What is counted over requests or rows is a sum over a finite set.  The  *)
(* induction over its elements is made by the smallest counterexample.     *)
(***************************************************************************)
EXTENDS Stock, TicketNumbering, AccessElevation, SecondFactor, ManagedDevices,
        FiniteSetTheorems, SequenceTheorems, TLAPS

----------------------------------------------------------------------------
(* Sums over finite sets.  The sum of f over S is n if some function sums   *)
(* every subset of S, element by element in any order, and gives n for S.   *)

Sums(sum, f, S) ==
  /\ sum \in [SUBSET S -> Int] /\ sum[{}] = 0
  /\ \A x \in S : f[x] \in Int
  /\ \A T \in SUBSET S : \A x \in S \ T : sum[T \cup {x}] = sum[T] + f[x]

TotalIs(f, S, n) == \E sum : Sums(sum, f, S) /\ sum[S] = n
Agree(f, g, S) == \A x \in S : f[x] = g[x]

\* Subsets of a finite set that are bad have one with no smaller bad one.
LEMMA SmallestBad ==
  ASSUME NEW S, IsFiniteSet(S), NEW Bad, Bad \subseteq SUBSET S, Bad # {}
  PROVE  \E U \in Bad : \A V \in Bad : V \subseteq U => V = U
<1>1. IsWellFoundedOn(StrictSubsetOrdering(S), FiniteSubsetsOf(S))
  BY FS_StrictSubsetOrderingWellFounded
<1>2. FiniteSubsetsOf(S) = SUBSET S
  BY FS_FiniteSubsetsOfFinite
<1>3. PICK U \in Bad : \A V \in Bad : <<V, U>> \notin StrictSubsetOrdering(S)
  BY <1>1, <1>2, WFMin
<1> QED BY <1>3 DEF StrictSubsetOrdering

LEMMA TotalIsInt == ASSUME NEW S, NEW f, NEW n, TotalIs(f, S, n) PROVE n \in Int
BY DEF TotalIs, Sums

LEMMA EmptyTotal == ASSUME NEW f PROVE TotalIs(f, {}, 0)
<1> DEFINE sum == [T \in SUBSET {} |-> 0]
<1>1. Sums(sum, f, {}) /\ sum[{}] = 0
  BY DEF Sums
<1> QED BY <1>1 DEF TotalIs

LEMMA EmptyTotalOnly == ASSUME NEW f, NEW n, TotalIs(f, {}, n) PROVE n = 0
BY DEF TotalIs, Sums

LEMMA TotalStays ==
  ASSUME NEW S, NEW f, NEW g, NEW n, TotalIs(f, S, n), Agree(f, g, S)
  PROVE  TotalIs(g, S, n)
<1>1. PICK sum : Sums(sum, f, S) /\ sum[S] = n
  BY DEF TotalIs
<1>2. Sums(sum, g, S)
  BY <1>1 DEF Sums, Agree
<1> QED BY <1>1, <1>2 DEF TotalIs

LEMMA TotalAdds ==
  ASSUME NEW S, NEW f, NEW g, NEW n, TotalIs(f, S, n), NEW x, x \notin S, g[x] \in Int, Agree(f, g, S)
  PROVE  TotalIs(g, S \cup {x}, n + g[x])
<1>0. PICK sum : Sums(sum, f, S) /\ sum[S] = n
  BY DEF TotalIs
<1> DEFINE sum2 == [T \in SUBSET (S \cup {x}) |-> IF x \in T THEN sum[T \ {x}] + g[x] ELSE sum[T]]
<1>1. \A T \in SUBSET (S \cup {x}) : T \ {x} \in SUBSET S /\ sum[T \ {x}] \in Int /\ (x \notin T => T \ {x} = T)
  BY <1>0 DEF Sums
<1>2. ASSUME NEW T \in SUBSET (S \cup {x})
      PROVE  (x \in T => sum2[T] = sum[T \ {x}] + g[x]) /\ (x \notin T => sum2[T] = sum[T \ {x}])
  BY <1>1
<1>3. sum2 \in [SUBSET (S \cup {x}) -> Int] /\ sum2[{}] = 0
  BY <1>0, <1>1 DEF Sums
<1> HIDE DEF sum2
<1>4. ASSUME NEW T \in SUBSET (S \cup {x}), NEW y \in (S \cup {x}) \ T PROVE sum2[T \cup {y}] = sum2[T] + g[y]
  <2>0. T \cup {y} \in SUBSET (S \cup {x})
    OBVIOUS
  <2>1. CASE y = x
    <3>1. (T \cup {y}) \ {x} = T \ {x} /\ x \notin T /\ x \in T \cup {y}
      BY <2>1
    <3>2. sum2[T \cup {y}] = sum[(T \cup {y}) \ {x}] + g[x] /\ sum2[T] = sum[T \ {x}]
      BY <1>2, <2>0, <3>1
    <3> QED BY <2>1, <3>1, <3>2
  <2>2. CASE y # x
    <3> DEFINE V == T \ {x}
    <3>1. (T \cup {y}) \ {x} = V \cup {y} /\ y \in S \ V /\ V \in SUBSET S
      BY <2>2
    <3> HIDE DEF V
    <3>2. sum[V \cup {y}] = sum[V] + f[y] /\ f[y] = g[y] /\ f[y] \in Int /\ sum[V] \in Int
      BY <1>0, <3>1 DEF Sums, Agree
    <3>3. CASE x \in T
      <4>1. sum2[T \cup {y}] = sum[V \cup {y}] + g[x] /\ sum2[T] = sum[V] + g[x]
        BY <1>2, <2>0, <3>1, <3>3 DEF V
      <4> QED BY <3>2, <4>1
    <3>4. CASE x \notin T
      <4>1. sum2[T \cup {y}] = sum[V \cup {y}] /\ sum2[T] = sum[V]
        BY <1>2, <2>0, <2>2, <3>1, <3>4 DEF V
      <4> QED BY <3>2, <4>1
    <3> QED BY <3>3, <3>4
  <2> QED BY <2>1, <2>2
<1>5. \A y \in S \cup {x} : g[y] \in Int
  BY <1>0 DEF Sums, Agree
<1>6. sum2[S \cup {x}] = n + g[x]
  <2>1. (S \cup {x}) \ {x} = S /\ x \in S \cup {x}
    OBVIOUS
  <2> QED BY <1>0, <1>2, <2>1
<1>7. Sums(sum2, g, S \cup {x})
  BY <1>3, <1>4, <1>5 DEF Sums
<1> QED BY <1>6, <1>7 DEF TotalIs

LEMMA TotalRemoves ==
  ASSUME NEW S, NEW f, NEW g, NEW n, TotalIs(f, S, n), NEW x \in S, Agree(f, g, S \ {x})
  PROVE  TotalIs(g, S \ {x}, n - f[x])
<1>0. PICK sum : Sums(sum, f, S) /\ sum[S] = n
  BY DEF TotalIs
<1> DEFINE V == S \ {x}
           sum2 == [T \in SUBSET V |-> sum[T]]
<1>1. V \cup {x} = S /\ V \in SUBSET S /\ x \in S \ V
  OBVIOUS
<1>2. Sums(sum2, g, V)
  <2>1. sum2 \in [SUBSET V -> Int] /\ sum2[{}] = 0
    BY <1>0 DEF Sums
  <2>2. \A T \in SUBSET V : \A y \in V \ T : sum2[T \cup {y}] = sum2[T] + g[y]
    BY <1>0 DEF Sums, Agree
  <2>3. \A y \in V : g[y] \in Int
    BY <1>0 DEF Sums, Agree
  <2> HIDE DEF V
  <2> QED BY <2>1, <2>2, <2>3 DEF Sums
<1> HIDE DEF V
<1>3. sum[S] = sum[V] + f[x] /\ sum[V] \in Int /\ f[x] \in Int
  BY <1>0, <1>1 DEF Sums
<1>4. sum2[V] = n - f[x]
  BY <1>0, <1>3
<1> HIDE DEF sum2
<1>5. TotalIs(g, V, n - f[x])
  BY <1>2, <1>4 DEF TotalIs
<1> QED BY <1>5 DEF V

\* One value changes.
LEMMA TotalChanges ==
  ASSUME NEW S, NEW f, NEW g, NEW n, TotalIs(f, S, n), NEW x \in S, g[x] \in Int, Agree(f, g, S \ {x})
  PROVE  TotalIs(g, S, n - f[x] + g[x])
<1>1. TotalIs(g, S \ {x}, n - f[x])
  BY TotalRemoves
<1>2. (S \ {x}) \cup {x} = S /\ x \notin S \ {x} /\ Agree(g, g, S \ {x})
  BY DEF Agree
<1>3. TotalIs(g, (S \ {x}) \cup {x}, n - f[x] + g[x])
  BY <1>1, <1>2, TotalAdds
<1> QED BY <1>2, <1>3

LEMMA TotalExists ==
  ASSUME NEW S, IsFiniteSet(S), NEW f, \A x \in S : f[x] \in Int
  PROVE  \E n : TotalIs(f, S, n)
<1> DEFINE Bad == {U \in SUBSET S : ~ \E n : TotalIs(f, U, n)}
<1> SUFFICES ASSUME Bad # {} PROVE FALSE
  OBVIOUS
<1>1. PICK U \in Bad : \A V \in Bad : V \subseteq U => V = U
  <2>1. Bad \subseteq SUBSET S
    OBVIOUS
  <2> HIDE DEF Bad
  <2> QED BY <2>1, SmallestBad
<1>2. U # {} /\ U \in SUBSET S
  BY EmptyTotal
<1>3. PICK x \in U : TRUE
  BY <1>2
<1> DEFINE V == U \ {x}
<1>4. V \cup {x} = U /\ x \notin V /\ V \in SUBSET S /\ V \subseteq U /\ V # U /\ f[x] \in Int
  BY <1>2, <1>3
<1> HIDE DEF V
<1>5. PICK n : TotalIs(f, V, n)
  BY <1>1, <1>4
<1>6. TotalIs(f, V \cup {x}, n + f[x])
  BY <1>4, <1>5, TotalAdds DEF Agree
<1> QED BY <1>1, <1>4, <1>6

\* A sum over less is no more.
LEMMA TotalMonotone ==
  ASSUME NEW S, IsFiniteSet(S), NEW f, NEW g, NEW m, NEW n, TotalIs(f, S, m), TotalIs(g, S, n),
         \A x \in S : f[x] <= g[x]
  PROVE  m <= n
<1>1. PICK sum : Sums(sum, f, S) /\ sum[S] = m
  BY DEF TotalIs
<1>2. PICK sum2 : Sums(sum2, g, S) /\ sum2[S] = n
  BY DEF TotalIs
<1> DEFINE Bad == {U \in SUBSET S : ~(sum[U] <= sum2[U])}
<1>3. Bad = {}
  <2> SUFFICES ASSUME Bad # {} PROVE FALSE
    OBVIOUS
  <2>1. PICK U \in Bad : \A V \in Bad : V \subseteq U => V = U
    <3>1. Bad \subseteq SUBSET S
      OBVIOUS
    <3> HIDE DEF Bad
    <3> QED BY <3>1, SmallestBad
  <2>2. U # {} /\ U \in SUBSET S
    <3>1. sum[{}] = 0 /\ sum2[{}] = 0
      BY <1>1, <1>2 DEF Sums
    <3>2. U \in SUBSET S /\ ~(sum[U] <= sum2[U])
      BY <2>1
    <3>3. ~(sum[{}] <= sum2[{}]) => FALSE
      BY <3>1
    <3> QED BY <3>2, <3>3
  <2>3. PICK x \in U : TRUE
    BY <2>2
  <2> DEFINE T == U \ {x}
  <2>4. T \in SUBSET S /\ x \in S \ T /\ T \cup {x} = U /\ T # U /\ T \subseteq U
    BY <2>2, <2>3
  <2> HIDE DEF T
  <2>5. sum[T] <= sum2[T]
    BY <2>1, <2>4
  <2>6. sum[T \cup {x}] = sum[T] + f[x] /\ sum2[T \cup {x}] = sum2[T] + g[x]
    BY <1>1, <1>2, <2>4 DEF Sums
  <2>7. sum[T] \in Int /\ sum2[T] \in Int /\ f[x] \in Int /\ g[x] \in Int /\ f[x] <= g[x]
    BY <1>1, <1>2, <2>4 DEF Sums
  <2>8. sum[T \cup {x}] <= sum2[T \cup {x}]
    BY <2>5, <2>6, <2>7
  <2> QED BY <2>1, <2>4, <2>8
<1> QED BY <1>1, <1>2, <1>3

----------------------------------------------------------------------------
(* Stock.  A movement that still knows the stock it read leaves what is     *)
(* reserved covered.                                                        *)

Covers(r) ==
  movement[r].at = "change" /\ movement[r].fresh =>
    AtLeastZero(part.reserved + movement[r].reserved) <= part.onHand + movement[r].onHand

StockInv ==
  /\ StockTypeOK
  /\ ~part.exists => \A r \in Requests : movement[r].at # "change"
  /\ ~stockOutdated /\ edits = 0 => part.reserved <= part.onHand /\ \A r \in Requests : Covers(r)

LEMMA StockInitial == StockInit => StockInv
<1> SUFFICES ASSUME StockInit PROVE StockInv
  OBVIOUS
<1>1. NoMovement \in Movements /\ NoMovement.at = "idle"
  BY DEF NoMovement, MovementAt, Movements
<1>2. StockTypeOK
  <2>1. 0 \in 0 .. MaxEdits /\ 0 \in 0 .. MaxStockFaults
    BY StockAssumption
  <2>2. movement \in [Requests -> Movements]
    BY <1>1 DEF StockInit
  <2>3. part \in [exists : BOOLEAN, onHand : Int, reserved : Nat]
    BY DEF StockInit
  <2>4. logged \in Int /\ edits \in 0 .. MaxEdits /\ edited \in Int /\ unlogged \in 0 .. MaxStockFaults
    BY <2>1 DEF StockInit
  <2>5. stockOutdated \in BOOLEAN
    BY DEF StockInit
  <2> QED BY <2>2, <2>3, <2>4, <2>5 DEF StockTypeOK
<1> QED BY <1>1, <1>2 DEF StockInit, StockInv, Covers

\* A movement is prepared, or done with, and the row stays.
LEMMA StockMoves ==
  ASSUME StockInv, NEW r \in Requests, NEW row \in Movements, movement' = [movement EXCEPT ![r] = row],
         row.at = "change" => part.exists, logged' \in Int, unlogged' \in 0 .. MaxStockFaults,
         UNCHANGED <<part, edits, edited, stockOutdated>>,
         ~stockOutdated /\ edits = 0 => Covers(r)'
  PROVE  StockInv'
<1>1. StockTypeOK'
  BY DEF StockInv, StockTypeOK
<1>2. movement'[r] = row /\ \A q \in Requests : q # r => movement'[q] = movement[q]
  BY DEF StockInv, StockTypeOK
<1> QED BY <1>1, <1>2 DEF StockInv, Covers, AtLeastZero

LEMMA StockCreatePart == ASSUME StockInv, NEW r \in Requests, CreatePart(r) PROVE StockInv'
<1>1. PICK quantity \in 0 .. MaxQuantity :
        /\ part' = [exists |-> TRUE, onHand |-> quantity, reserved |-> 0]
        /\ movement' = [movement EXCEPT ![r] = IF quantity > 0 THEN MovementAt("log", quantity, 0, 0) ELSE NoMovement]
  BY DEF CreatePart
<1>2. PICK row \in Movements : movement' = [movement EXCEPT ![r] = row] /\ row.at # "change"
  <2>1. quantity \in Int
    BY <1>1, StockAssumption
  <2>2. MovementAt("log", quantity, 0, 0) \in Movements /\ MovementAt("log", quantity, 0, 0).at = "log"
    BY <2>1 DEF MovementAt, Movements
  <2>3. NoMovement \in Movements /\ NoMovement.at = "idle"
    BY DEF NoMovement, MovementAt, Movements
  <2> QED BY <1>1, <2>2, <2>3
<1>3. StockTypeOK'
  BY <1>1, <1>2, StockAssumption DEF CreatePart, StockInv, StockTypeOK
<1>4. \A q \in Requests : movement'[q].at # "change"
  BY <1>2 DEF CreatePart, StockInv, StockTypeOK
<1>5. part'.reserved <= part'.onHand
  BY <1>1, StockAssumption
<1> QED BY <1>3, <1>4, <1>5 DEF StockInv, Covers

\* What createMovement permits leaves what is reserved covered.
LEMMA PermittedCovers ==
  ASSUME NEW type \in MovementTypes, NEW quantity \in Quantities, StockTypeOK, Permitted(type, quantity),
         part.reserved <= part.onHand
  PROVE  AtLeastZero(part.reserved + ReservedDelta(type, quantity)) <= part.onHand + SignedQuantity(type, quantity)
<1>1. quantity \in Nat /\ quantity > 0 /\ part.reserved \in Nat /\ part.onHand \in Int
  BY StockAssumption DEF Quantities, StockTypeOK
<1>2. CASE type = "RESERVE"
  BY <1>1, <1>2 DEF Permitted, Available, AtLeastZero, ReservedDelta, SignedQuantity
<1>3. CASE type \in {"USE", "TRANSFER_OUT"}
  BY <1>1, <1>3 DEF Permitted, Available, AtLeastZero, ReservedDelta, SignedQuantity
<1>4. CASE type = "RETURN"
  BY <1>1, <1>4 DEF Permitted, AtLeastZero, ReservedDelta, SignedQuantity
<1>5. CASE type \in {"RECEIVE", "ADJUST", "TRANSFER_IN"}
  BY <1>1, <1>5 DEF AtLeastZero, ReservedDelta, SignedQuantity
<1> QED BY <1>2, <1>3, <1>4, <1>5 DEF MovementTypes

LEMMA StockBeginMovement == ASSUME StockInv, NEW r \in Requests, BeginMovement(r) PROVE StockInv'
<1>1. PICK type \in MovementTypes, quantity \in Quantities :
        /\ Permitted(type, quantity)
        /\ movement' = [movement EXCEPT ![r] =
             MovementAt("change", SignedQuantity(type, quantity), ReservedDelta(type, quantity), part.onHand)]
  BY DEF BeginMovement
<1> DEFINE row == MovementAt("change", SignedQuantity(type, quantity), ReservedDelta(type, quantity), part.onHand)
<1>2. quantity \in Nat /\ part.onHand \in Int
  BY StockAssumption DEF Quantities, StockInv, StockTypeOK
<1>3. SignedQuantity(type, quantity) \in Int /\ ReservedDelta(type, quantity) \in Int
  BY <1>2 DEF SignedQuantity, ReservedDelta
<1>4. row \in Movements /\ row.reserved = ReservedDelta(type, quantity) /\ row.onHand = SignedQuantity(type, quantity)
  BY <1>2, <1>3 DEF MovementAt, Movements
<1>5. movement'[r] = row
  BY <1>1 DEF StockInv, StockTypeOK
<1>6. movement' = [movement EXCEPT ![r] = row]
  BY <1>1
<1> HIDE DEF row
<1>7. ~stockOutdated /\ edits = 0 => Covers(r)'
  BY <1>1, <1>4, <1>5, PermittedCovers DEF BeginMovement, StockInv, Covers, AtLeastZero
<1> QED BY <1>4, <1>6, <1>7, StockMoves DEF BeginMovement, StockInv, StockTypeOK

LEMMA StockChange == ASSUME StockInv, NEW r \in Requests, ChangeStock(r) PROVE StockInv'
<1> DEFINE m == movement[r]
           row == MovementAt("log", m.onHand, 0, 0)
<1>1. m \in Movements /\ m.at = "change" /\ part.exists /\ part.onHand \in Int /\ part.reserved \in Nat
  BY DEF ChangeStock, StockInv, StockTypeOK
<1>2. row \in Movements /\ row.at = "log"
  BY <1>1 DEF MovementAt, Movements
<1>3. movement' = Overwritten(movement, r, row)
  BY DEF ChangeStock
<1> HIDE DEF row
<1>4. movement' \in [Requests -> Movements]
  <2>1. \A q \in Requests : Outdated(movement)[q] \in Movements
    BY DEF Outdated, StockInv, StockTypeOK, Movements
  <2> QED BY <1>2, <1>3, <2>1 DEF Overwritten, Outdated
<1>5. /\ part'.exists = part.exists /\ part'.onHand = part.onHand + m.onHand
      /\ part'.reserved = AtLeastZero(part.reserved + m.reserved)
  BY DEF ChangeStock, Changed, StockInv, StockTypeOK
<1>6. part' \in [exists : BOOLEAN, onHand : Int, reserved : Nat]
  <2>1. part.onHand + m.onHand \in Int /\ AtLeastZero(part.reserved + m.reserved) \in Nat
    BY <1>1 DEF Movements, AtLeastZero
  <2> QED BY <2>1 DEF ChangeStock, Changed, StockInv, StockTypeOK
<1>7. StockTypeOK'
  BY <1>4, <1>6 DEF ChangeStock, StockInv, StockTypeOK
<1>8. \A q \in Requests : ~(movement'[q].at = "change" /\ movement'[q].fresh)
  <2> SUFFICES ASSUME NEW q \in Requests PROVE ~(movement'[q].at = "change" /\ movement'[q].fresh)
    OBVIOUS
  <2>1. CASE q = r
    BY <1>2, <1>3, <2>1 DEF Overwritten, Outdated, StockInv, StockTypeOK
  <2>2. CASE q # r
    <3>1. movement'[q] = [movement[q] EXCEPT !.fresh = (movement[q].at = "idle")]
      BY <1>3, <2>2 DEF Overwritten, Outdated
    <3>2. movement[q] \in Movements
      BY DEF StockInv, StockTypeOK
    <3>3. movement'[q].at = movement[q].at /\ (movement'[q].fresh <=> movement[q].at = "idle")
      BY <3>1, <3>2 DEF Movements
    <3> QED BY <3>3
  <2> QED BY <2>1, <2>2
<1>9. ~stockOutdated' => ~stockOutdated /\ m.fresh
  BY DEF ChangeStock
<1>10. ~stockOutdated' /\ edits' = 0 => part'.reserved <= part'.onHand
  BY <1>1, <1>5, <1>9 DEF ChangeStock, StockInv, Covers
<1> QED BY <1>1, <1>5, <1>7, <1>8, <1>10 DEF StockInv, Covers

LEMMA StockLogs ==
  ASSUME StockInv, NEW r \in Requests, LogTransaction(r) \/ StopUnlogged(r)
  PROVE  StockInv'
<1>1. NoMovement \in Movements /\ NoMovement.at = "idle"
  BY DEF NoMovement, MovementAt, Movements
<1>2. movement' = [movement EXCEPT ![r] = NoMovement] /\ UNCHANGED <<part, edits, edited, stockOutdated>>
  BY DEF LogTransaction, StopUnlogged
<1>3. logged' \in Int /\ unlogged' \in 0 .. MaxStockFaults
  BY StockAssumption DEF LogTransaction, StopUnlogged, StockInv, StockTypeOK, Movements
<1>4. Covers(r)'
  BY <1>1, <1>2 DEF Covers, StockInv, StockTypeOK
<1> QED BY <1>1, <1>2, <1>3, <1>4, StockMoves

LEMMA StockUpdatePart == ASSUME StockInv, UpdatePart PROVE StockInv'
<1>1. PICK quantity \in 0 .. MaxQuantity :
        part' = [part EXCEPT !.onHand = quantity] /\ edited' = edited + quantity - part.onHand
  BY DEF UpdatePart
<1>2. edits' = edits + 1 /\ edits' \in 0 .. MaxEdits /\ edits' # 0
  BY StockAssumption DEF UpdatePart, StockInv, StockTypeOK
<1>3. part' \in [exists : BOOLEAN, onHand : Int, reserved : Nat] /\ part'.exists = part.exists /\ edited' \in Int
  BY <1>1, StockAssumption DEF StockInv, StockTypeOK
<1>4. movement' \in [Requests -> Movements] /\ \A q \in Requests : movement'[q].at = movement[q].at
  <2>1. \A q \in Requests :
          LET row == [movement[q] EXCEPT !.fresh = (movement[q].at = "idle")]
          IN  row \in Movements /\ row.at = movement[q].at
    BY DEF StockInv, StockTypeOK, Movements
  <2>2. movement' = [q \in Requests |-> [movement[q] EXCEPT !.fresh = (movement[q].at = "idle")]]
    BY DEF UpdatePart, Outdated
  <2> QED BY <2>1, <2>2
<1> QED BY <1>2, <1>3, <1>4 DEF UpdatePart, StockInv, StockTypeOK

LEMMA StockInductive == StockInv /\ [StockNext]_stockVars => StockInv'
<1> SUFFICES ASSUME StockInv, [StockNext]_stockVars PROVE StockInv'
  OBVIOUS
<1>1. CASE UNCHANGED stockVars
  BY <1>1 DEF stockVars, StockInv, StockTypeOK, Covers, AtLeastZero
<1>2. CASE StockNext
  BY <1>2, StockUpdatePart, StockCreatePart, StockBeginMovement, StockChange, StockLogs DEF StockNext
<1> QED BY <1>1, <1>2

\* Unless a movement was made on stock that had changed since it was read, or the
\* quantity was edited, stock on hand covers what is reserved, for any movements.
THEOREM ReservedStaysCovered == StockSpec => []ReservedIsCovered
<1>1. StockInv => ReservedIsCovered
  BY DEF StockInv, ReservedIsCovered
<1> QED BY <1>1, StockInductive, StockInitial, PTL DEF StockSpec

\* Movements that changed the row and are not logged yet, and what each did to it.
Unwritten == {r \in Requests : movement[r].at = "log"}
Effect == [r \in Requests |-> movement[r].onHand]

Explained ==
  /\ ~part.exists => part.onHand = 0
  /\ unlogged = 0 => TotalIs(Effect, Unwritten, part.onHand - logged - edited)

\* The movements that are not logged yet stay as they are.
LEMMA UnwrittenStays ==
  ASSUME \A q \in Requests : /\ movement'[q].at = "log" <=> movement[q].at = "log"
                             /\ movement[q].at = "log" => movement'[q].onHand = movement[q].onHand
  PROVE  \A n : TotalIs(Effect, Unwritten, n) => TotalIs(Effect', Unwritten', n)
<1>1. Unwritten' = Unwritten /\ Agree(Effect, Effect', Unwritten)
  BY DEF Unwritten, Effect, Agree
<1> QED BY <1>1, TotalStays

\* A movement changes the row and is not logged yet.
LEMMA UnwrittenJoins ==
  ASSUME StockInv, Explained, NEW r \in Requests, movement[r].at # "log", movement'[r].at = "log",
         movement'[r].onHand \in Int, UNCHANGED <<logged, edited, unlogged>>,
         part'.exists, part'.onHand = part.onHand + movement'[r].onHand,
         \A q \in Requests \ {r} : /\ movement'[q].at = "log" <=> movement[q].at = "log"
                                   /\ movement'[q].onHand = movement[q].onHand
  PROVE  Explained'
<1> SUFFICES ASSUME unlogged = 0 PROVE TotalIs(Effect', Unwritten', part'.onHand - logged - edited)
  BY DEF Explained
<1> DEFINE n == part.onHand - logged - edited
<1>1. TotalIs(Effect, Unwritten, n)
  BY DEF Explained
<1>2. Unwritten' = Unwritten \cup {r} /\ r \notin Unwritten
  BY DEF Unwritten
<1>3. Effect'[r] = movement'[r].onHand /\ Agree(Effect, Effect', Unwritten)
  BY DEF Unwritten, Effect, Agree
<1>4. part'.onHand - logged - edited = n + Effect'[r]
  BY <1>3 DEF StockInv, StockTypeOK
<1> HIDE DEF n
<1>5. TotalIs(Effect', Unwritten \cup {r}, n + Effect'[r])
  BY <1>1, <1>2, <1>3, TotalAdds
<1> QED BY <1>2, <1>4, <1>5

\* A movement is logged.
LEMMA UnwrittenLeaves ==
  ASSUME StockInv, Explained, NEW r \in Requests, LogTransaction(r)
  PROVE  Explained'
<1>1. part' = part /\ UNCHANGED <<edited, unlogged>> /\ movement' = [movement EXCEPT ![r] = NoMovement]
  BY DEF LogTransaction
<1> SUFFICES ASSUME unlogged = 0 PROVE TotalIs(Effect', Unwritten', part.onHand - logged' - edited)
  BY <1>1 DEF Explained
<1> DEFINE n == part.onHand - logged - edited
<1>2. TotalIs(Effect, Unwritten, n)
  BY DEF Explained
<1>3. r \in Unwritten /\ Effect[r] = movement[r].onHand
  BY DEF LogTransaction, Unwritten, Effect
<1>4. Unwritten' = Unwritten \ {r} /\ Agree(Effect, Effect', Unwritten \ {r})
  BY <1>1 DEF Unwritten, Effect, Agree, NoMovement, MovementAt, StockInv, StockTypeOK
<1>5. part.onHand - logged' - edited = n - Effect[r]
  BY <1>3 DEF LogTransaction, StockInv, StockTypeOK, Movements
<1> HIDE DEF n
<1>6. TotalIs(Effect', Unwritten \ {r}, n - Effect[r])
  BY <1>2, <1>3, <1>4, TotalRemoves
<1> QED BY <1>4, <1>5, <1>6

LEMMA ExplainedStep == StockInv /\ Explained /\ [StockNext]_stockVars => Explained'
<1> SUFFICES ASSUME StockInv, Explained, [StockNext]_stockVars PROVE Explained'
  OBVIOUS
<1>0. movement \in [Requests -> Movements] /\ logged \in Int /\ edited \in Int /\ part.onHand \in Int
  BY DEF StockInv, StockTypeOK
<1>1. CASE UNCHANGED stockVars
  BY <1>1 DEF stockVars, Explained, Unwritten, Effect
<1>2. CASE UpdatePart
  <2>1. PICK quantity \in 0 .. MaxQuantity :
          part' = [part EXCEPT !.onHand = quantity] /\ edited' = edited + quantity - part.onHand
    BY <1>2 DEF UpdatePart
  <2>2. part'.exists /\ part'.onHand = quantity /\ UNCHANGED <<logged, unlogged>> /\ movement' = Outdated(movement)
    BY <1>2, <2>1 DEF UpdatePart, StockInv, StockTypeOK
  <2>3. \A q \in Requests : movement'[q].at = movement[q].at /\ movement'[q].onHand = movement[q].onHand
    BY <1>0, <2>2 DEF Outdated, Movements
  <2>4. \A n : TotalIs(Effect, Unwritten, n) => TotalIs(Effect', Unwritten', n)
    BY <2>3, UnwrittenStays
  <2>5. part'.onHand - logged' - edited' = part.onHand - logged - edited
    BY <1>0, <2>1, <2>2, StockAssumption
  <2> QED BY <2>2, <2>4, <2>5 DEF Explained
<1>3. ASSUME NEW r \in Requests, CreatePart(r) PROVE Explained'
  <2>1. PICK quantity \in 0 .. MaxQuantity :
          /\ part' = [exists |-> TRUE, onHand |-> quantity, reserved |-> 0]
          /\ movement' = [movement EXCEPT ![r] = IF quantity > 0 THEN MovementAt("log", quantity, 0, 0) ELSE NoMovement]
    BY <1>3 DEF CreatePart
  <2>2. part.onHand = 0 /\ quantity \in Int /\ movement[r].at # "log" /\ UNCHANGED <<logged, edited, unlogged>>
    BY <1>3, StockAssumption DEF CreatePart, Explained
  <2>3. \A q \in Requests \ {r} : movement'[q] = movement[q]
    BY <1>0, <2>1
  <2>4. CASE quantity > 0
    <3>1. movement'[r].at = "log" /\ movement'[r].onHand = quantity
      BY <1>0, <2>1, <2>4 DEF MovementAt
    <3> QED BY <2>1, <2>2, <2>3, <3>1, UnwrittenJoins
  <2>5. CASE ~(quantity > 0)
    <3>1. quantity = 0
      BY <2>5, StockAssumption
    <3>2. movement'[r].at = "idle"
      BY <1>0, <2>1, <2>5 DEF NoMovement, MovementAt
    <3>3. \A n : TotalIs(Effect, Unwritten, n) => TotalIs(Effect', Unwritten', n)
      BY <2>2, <2>3, <3>2, UnwrittenStays
    <3> QED BY <2>1, <2>2, <3>1, <3>3 DEF Explained
  <2> QED BY <2>4, <2>5
<1>4. ASSUME NEW r \in Requests, BeginMovement(r) PROVE Explained'
  <2>1. movement[r].at = "idle" /\ UNCHANGED <<part, logged, edited, unlogged>>
    BY <1>4 DEF BeginMovement
  <2>2. movement'[r].at = "change" /\ \A q \in Requests \ {r} : movement'[q] = movement[q]
    BY <1>0, <1>4 DEF BeginMovement, MovementAt
  <2>3. \A n : TotalIs(Effect, Unwritten, n) => TotalIs(Effect', Unwritten', n)
    BY <2>1, <2>2, UnwrittenStays
  <2> QED BY <2>1, <2>3 DEF Explained
<1>5. ASSUME NEW r \in Requests, ChangeStock(r) PROVE Explained'
  <2>1. /\ movement[r].at = "change" /\ part.exists /\ movement[r].onHand \in Int
        /\ UNCHANGED <<logged, edited, unlogged>>
    BY <1>0, <1>5 DEF ChangeStock, StockInv, Movements
  <2>2. part'.exists /\ part'.onHand = part.onHand + movement[r].onHand
    BY <1>5, <2>1 DEF ChangeStock, Changed, StockInv, StockTypeOK
  <2>3. movement' = [Outdated(movement) EXCEPT ![r] = MovementAt("log", movement[r].onHand, 0, 0)]
    BY <1>5 DEF ChangeStock, Overwritten
  <2>4. movement'[r].at = "log" /\ movement'[r].onHand = movement[r].onHand
    BY <2>3 DEF Outdated, MovementAt
  <2>5. \A q \in Requests \ {r} : movement'[q].at = movement[q].at /\ movement'[q].onHand = movement[q].onHand
    BY <1>0, <2>3 DEF Outdated, Movements
  <2> QED BY <2>1, <2>2, <2>4, <2>5, UnwrittenJoins
<1>6. ASSUME NEW r \in Requests, StopUnlogged(r) PROVE Explained'
  <2>1. unlogged' # 0 /\ UNCHANGED part
    BY <1>6 DEF StopUnlogged, StockInv, StockTypeOK
  <2> QED BY <2>1 DEF Explained
<1> QED BY <1>1, <1>2, <1>3, <1>4, <1>5, <1>6, UnwrittenLeaves DEF StockNext

\* However many movements overlap, every one is in the stock on hand: once all are
\* logged, the log and the edits of the part add up to it.
THEOREM MovementsAreKept == StockSpec => []LogExplainsStock
<1>1. StockInit => Explained
  <2> SUFFICES ASSUME StockInit PROVE Explained
    OBVIOUS
  <2>1. Unwritten = {} /\ part.onHand = 0 /\ logged = 0 /\ edited = 0
    BY DEF StockInit, NoMovement, MovementAt, Unwritten
  <2> QED BY <2>1, EmptyTotal DEF Explained
<1>2. StockInv /\ Explained => LogExplainsStock
  <2> SUFFICES ASSUME StockInv, Explained, unlogged = 0, \A r \in Requests : movement[r].at # "log"
               PROVE  part.onHand = logged + edited
    BY DEF LogExplainsStock
  <2>1. Unwritten = {} /\ logged \in Int /\ edited \in Int
    BY DEF Unwritten, StockInv, StockTypeOK
  <2>2. TotalIs(Effect, {}, part.onHand - logged - edited)
    BY <2>1 DEF Explained
  <2>3. part.onHand - logged - edited = 0 /\ part.onHand \in Int
    BY <2>2, EmptyTotalOnly DEF StockInv, StockTypeOK
  <2> QED BY <2>1, <2>3
<1> QED BY <1>1, <1>2, ExplainedStep, StockInitial, StockInductive, PTL DEF StockSpec

----------------------------------------------------------------------------
(* TicketNumbering.  No candidate is more than one beyond the numbers that  *)
(* are taken, so the next number that is taken leaves no gap.               *)

Follows(n, step) == step.at \in {"probe", "insert"} => step.number <= n + 1

NumbersFollow ==
  dated = 0 => \E n \in Nat : numbered = 1 .. n /\ \A r \in Requests : Follows(n, creation[r])

NumberingInv == NumberingTypeOK /\ NumbersFollow

LEMMA NumberingRow ==
  ASSUME NEW step \in CreationSteps, NEW maker \in Makers, NEW number \in Nat, NEW probes \in Nat
  PROVE  /\ Numbering(step, maker, number, probes) \in Creations
         /\ Numbering(step, maker, number, probes).number = number
BY DEF Numbering, Creations

LEMMA CountingRow ==
  ASSUME NEW step \in CreationSteps \ {"probe", "insert"}, NEW row \in Nat, NEW read \in Nat
  PROVE  Counting(step, row, read) \in Creations /\ \A n \in Nat : Follows(n, Counting(step, row, read))
BY DEF Counting, Creations, Follows, Makers, CreationSteps

LEMMA NoCreationRow == NoCreation \in Creations /\ \A n \in Nat : Follows(n, NoCreation)
BY CountingRow DEF NoCreation, CreationSteps

LEMMA NumberingInitial == NumberingInit => NumberingInv
<1> SUFFICES ASSUME NumberingInit PROVE NumberingInv
  OBVIOUS
<1>1. IsFiniteSet(numbered) /\ usage \in Seq(Nat) /\ 0 \in 0 .. MaxUsageFaults
  BY FS_EmptySet, EmptySeq, NumberingAssumption DEF NumberingInit
<1>2. creation \in [Requests -> Creations] /\ \A r \in Requests : creation[r] = NoCreation
  BY NoCreationRow DEF NumberingInit
<1>3. numbered = 1 .. 0
  BY DEF NumberingInit
<1>4. NumberingTypeOK
  BY <1>1, <1>2 DEF NumberingInit, NumberingTypeOK
<1>5. \A r \in Requests : Follows(0, creation[r])
  BY <1>2, NoCreationRow
<1> QED BY <1>3, <1>4, <1>5 DEF NumberingInv, NumbersFollow

\* A request moves on and no number is taken.
LEMMA CreationMoves ==
  ASSUME NumberingInv, NEW r \in Requests, NEW row \in Creations, creation' = [creation EXCEPT ![r] = row],
         usage' \in Seq(Nat), uncounted' \in 0 .. MaxUsageFaults, UNCHANGED <<numbered, dated, created, usageOutdated>>,
         \A n \in Nat : (dated = 0 /\ numbered = 1 .. n /\ Follows(n, creation[r])) => Follows(n, row)
  PROVE  NumberingInv'
<1>1. NumberingTypeOK'
  BY DEF NumberingInv, NumberingTypeOK
<1>2. creation'[r] = row /\ \A s \in Requests : s # r => creation'[s] = creation[s]
  BY DEF NumberingInv, NumberingTypeOK
<1>3. NumbersFollow'
  <2> SUFFICES ASSUME dated = 0
               PROVE  \E n \in Nat : numbered = 1 .. n /\ \A s \in Requests : Follows(n, creation'[s])
    BY DEF NumbersFollow, Follows
  <2>1. PICK n \in Nat : numbered = 1 .. n /\ \A s \in Requests : Follows(n, creation[s])
    BY DEF NumberingInv, NumbersFollow
  <2>2. \A s \in Requests : Follows(n, creation'[s])
    BY <1>2, <2>1
  <2> QED BY <2>1, <2>2
<1> QED BY <1>1, <1>3 DEF NumberingInv

LEMMA NumberingBegin ==
  ASSUME NumberingInv, NEW r \in Requests, NEW maker \in Makers, BeginCreate(r, maker)
  PROVE  NumberingInv'
<1> DEFINE row == Numbering(IF maker = "alert" THEN "insert" ELSE "probe", maker, Count + 1, 0)
<1>1. Count \in Nat
  BY FS_CardinalityType DEF Count, NumberingInv, NumberingTypeOK
<1>2. row \in Creations /\ row.number = Count + 1
  BY <1>1, NumberingRow DEF CreationSteps
<1>3. \A n \in Nat : dated = 0 /\ numbered = 1 .. n => Count = n
  BY FS_Interval DEF Count
<1>4. creation' = [creation EXCEPT ![r] = row]
  BY DEF BeginCreate, Creates
<1> HIDE DEF row
<1>5. \A n \in Nat : (dated = 0 /\ numbered = 1 .. n /\ Follows(n, creation[r])) => Follows(n, row)
  BY <1>2, <1>3 DEF Follows
<1> QED BY <1>2, <1>4, <1>5, CreationMoves DEF BeginCreate, NumberingInv, NumberingTypeOK

LEMMA NumberingProbe == ASSUME NumberingInv, NEW r \in Requests, Probe(r) PROVE NumberingInv'
<1>1. creation[r] \in Creations /\ creation[r].at = "probe"
  BY DEF Probe, NumberingInv, NumberingTypeOK
<1>2. creation[r].number \in Nat /\ creation[r].probes \in Nat /\ creation[r].maker \in Makers
  BY <1>1 DEF Creations
<1>3. PICK row \in Creations :
        /\ creation' = [creation EXCEPT ![r] = row]
        /\ \/ row.number = creation[r].number
           \/ row.number = creation[r].number + 1 /\ creation[r].number \in numbered
           \/ row.number = 0
  <2> DEFINE number == creation[r].number
             found == Numbering("insert", creation[r].maker, number, 0)
             next  == Numbering("probe", creation[r].maker, number + 1, creation[r].probes + 1)
             timed == Numbering("insert", creation[r].maker, 0, 0)
  <2>1. found \in Creations /\ found.number = number
    BY <1>2, NumberingRow DEF CreationSteps
  <2>2. next \in Creations /\ next.number = number + 1
    <3>1. number + 1 \in Nat /\ creation[r].probes + 1 \in Nat /\ "probe" \in CreationSteps
      BY <1>2 DEF CreationSteps
    <3> DEFINE further == number + 1
               again   == creation[r].probes + 1
    <3> HIDE DEF further, again
    <3>2. further \in Nat /\ again \in Nat
      BY <3>1 DEF further, again
    <3>3. /\ Numbering("probe", creation[r].maker, further, again) \in Creations
          /\ Numbering("probe", creation[r].maker, further, again).number = further
      BY <1>2, <3>1, <3>2, NumberingRow
    <3> QED BY <3>3 DEF further, again
  <2>3. timed \in Creations /\ timed.number = 0
    BY <1>2, NumberingRow DEF CreationSteps
  <2>4. \/ creation' = [creation EXCEPT ![r] = found]
        \/ creation' = [creation EXCEPT ![r] = next] /\ number \in numbered
        \/ creation' = [creation EXCEPT ![r] = timed]
    BY DEF Probe, Creates, Candidate
  <2> HIDE DEF found, next, timed
  <2> QED BY <2>1, <2>2, <2>3, <2>4
<1>4. \A n \in Nat : (dated = 0 /\ numbered = 1 .. n /\ Follows(n, creation[r])) => Follows(n, row)
  BY <1>1, <1>2, <1>3 DEF Follows
<1> QED BY <1>3, <1>4, CreationMoves DEF Probe, NumberingInv, NumberingTypeOK

LEMMA NumberingInsert == ASSUME NumberingInv, NEW r \in Requests, InsertTicket(r) PROVE NumberingInv'
<1>1. creation[r] \in Creations /\ creation[r].at = "insert" /\ creation[r].number \notin numbered
  BY DEF InsertTicket, NumberingInv, NumberingTypeOK
<1>2. creation[r].number \in Nat
  BY <1>1 DEF Creations
<1>3. PICK row \in Creations : creation' = [creation EXCEPT ![r] = row] /\ \A n \in Nat : Follows(n, row)
  <2>1. Counting("find", 0, 0) \in Creations /\ \A n \in Nat : Follows(n, Counting("find", 0, 0))
    BY CountingRow DEF CreationSteps
  <2> QED BY <2>1, NoCreationRow DEF InsertTicket, Creates
<1>4. creation' \in [Requests -> Creations] /\ created' \in Nat
  BY <1>3 DEF InsertTicket, NumberingInv, NumberingTypeOK
<1>5. CASE creation[r].number = 0
  <2>1. dated' = dated + 1 /\ UNCHANGED <<numbered, usage, uncounted, usageOutdated>>
    BY <1>5 DEF InsertTicket
  <2>2. dated' \in Nat /\ dated' # 0
    BY <2>1 DEF NumberingInv, NumberingTypeOK
  <2> QED BY <1>4, <2>1, <2>2 DEF NumberingInv, NumberingTypeOK, NumbersFollow
<1>6. CASE creation[r].number # 0
  <2>1. numbered' = numbered \cup {creation[r].number} /\ UNCHANGED <<dated, usage, uncounted, usageOutdated>>
    BY <1>6 DEF InsertTicket
  <2>2. IsFiniteSet(numbered') /\ numbered' \in SUBSET Nat
    BY <1>2, <2>1, FS_AddElement DEF NumberingInv, NumberingTypeOK
  <2>3. NumberingTypeOK'
    BY <1>4, <2>1, <2>2 DEF NumberingInv, NumberingTypeOK
  <2>4. NumbersFollow'
    <3> SUFFICES ASSUME dated = 0
                 PROVE  \E n \in Nat : numbered' = 1 .. n /\ \A s \in Requests : Follows(n, creation'[s])
      BY <2>1 DEF NumbersFollow, Follows
    <3>1. PICK n \in Nat : numbered = 1 .. n /\ \A s \in Requests : Follows(n, creation[s])
      BY DEF NumberingInv, NumbersFollow
    <3>2. creation[r].number = n + 1
      BY <1>1, <1>2, <1>6, <3>1 DEF Follows
    <3>3. numbered' = 1 .. (n + 1)
      BY <2>1, <3>1, <3>2
    <3>4. \A s \in Requests : Follows(n + 1, creation'[s])
      <4> SUFFICES ASSUME NEW s \in Requests PROVE Follows(n + 1, creation'[s])
        OBVIOUS
      <4>1. CASE s = r
        BY <1>3, <4>1 DEF NumberingInv, NumberingTypeOK
      <4>2. CASE s # r
        <5>1. creation'[s] = creation[s] /\ creation[s].number \in Nat
          BY <1>3, <4>2 DEF NumberingInv, NumberingTypeOK, Creations
        <5> QED BY <3>1, <5>1 DEF Follows
      <4> QED BY <4>1, <4>2
    <3> QED BY <3>3, <3>4
  <2> QED BY <2>3, <2>4 DEF NumberingInv
<1> QED BY <1>5, <1>6

\* A number that was taken ends the request; usage is looked for, made, or given up.
LEMMA NumberingEnds ==
  ASSUME NumberingInv, NEW r \in Requests, NumberTaken(r) \/ FindUsage(r) \/ CreateUsage(r) \/ UsageFails(r)
  PROVE  NumberingInv'
<1>1. usage \in Seq(Nat)
  BY DEF NumberingInv, NumberingTypeOK
<1>2. PICK row \in Creations : creation' = [creation EXCEPT ![r] = row] /\ \A n \in Nat : Follows(n, row)
  <2>1. CASE NumberTaken(r) \/ UsageFails(r)
    BY <2>1, NoCreationRow DEF NumberTaken, UsageFails, Creates
  <2>2. CASE FindUsage(r) /\ usage = <<>>
    BY <2>2, CountingRow DEF FindUsage, Creates, CreationSteps
  <2>3. CASE FindUsage(r) /\ usage # <<>>
    <3>1. PICK i \in DOMAIN usage : creation' = [creation EXCEPT ![r] = Counting("count", i, usage[i])]
      BY <2>3 DEF FindUsage, Creates
    <3>2. i \in Nat /\ usage[i] \in Nat
      BY <1>1, <3>1, LenProperties, ElementOfSeq
    <3> QED BY <3>1, <3>2, CountingRow DEF CreationSteps
  <2>4. CASE CreateUsage(r)
    <3>1. Len(usage) + 1 \in Nat
      BY <1>1, LenProperties
    <3> QED BY <2>4, <3>1, CountingRow DEF CreateUsage, Creates, CreationSteps
  <2> QED BY <2>1, <2>2, <2>3, <2>4
<1>3. usage' \in Seq(Nat)
  BY <1>1, AppendProperties DEF NumberTaken, FindUsage, CreateUsage, UsageFails
<1>4. uncounted' \in 0 .. MaxUsageFaults
  BY NumberingAssumption DEF NumberTaken, FindUsage, CreateUsage, UsageFails, NumberingInv, NumberingTypeOK
<1>5. UNCHANGED <<numbered, dated, created, usageOutdated>>
  BY DEF NumberTaken, FindUsage, CreateUsage, UsageFails
<1>6. \A n \in Nat : (dated = 0 /\ numbered = 1 .. n /\ Follows(n, creation[r])) => Follows(n, row)
  BY <1>2
<1> QED BY <1>2, <1>3, <1>4, <1>5, <1>6, CreationMoves

LEMMA NumberingCounts == ASSUME NumberingInv, NEW r \in Requests, CountUsage(r) PROVE NumberingInv'
<1>1. creation[r] \in Creations /\ usage \in Seq(Nat)
  BY DEF NumberingInv, NumberingTypeOK
<1>2. usage' \in Seq(Nat)
  <2>1. NextCount(creation[r]) \in Nat /\ usage' = [usage EXCEPT ![creation[r].row] = NextCount(creation[r])]
    BY <1>1 DEF CountUsage, NextCount, Creations
  <2>2. CASE creation[r].row \in 1 .. Len(usage)
    BY <1>1, <2>1, <2>2, ExceptSeq
  <2>3. CASE creation[r].row \notin 1 .. Len(usage)
    <3>1. usage' = usage
      BY <1>1, <2>1, <2>3, LenProperties
    <3> QED BY <1>1, <3>1
  <2> QED BY <2>2, <2>3
<1>3. \A s \in Requests : /\ creation'[s] \in Creations
                          /\ \A n \in Nat : Follows(n, creation[s]) => Follows(n, creation'[s])
  <2> SUFFICES ASSUME NEW s \in Requests
               PROVE  /\ creation'[s] \in Creations
                      /\ \A n \in Nat : Follows(n, creation[s]) => Follows(n, creation'[s])
    OBVIOUS
  <2>1. CASE s = r
    BY <2>1, NoCreationRow DEF CountUsage
  <2>2. CASE s # r
    <3>1. PICK fresh \in BOOLEAN : creation'[s] = [creation[s] EXCEPT !.fresh = fresh]
      <4>1. creation'[s] = [creation[s] EXCEPT !.fresh =
                              @ /\ ~(creation[s].at = "count" /\ creation[s].row = creation[r].row)]
        BY <2>2 DEF CountUsage
      <4> DEFINE fresh == creation[s].fresh /\ ~(creation[s].at = "count" /\ creation[s].row = creation[r].row)
      <4>2. fresh \in BOOLEAN
        OBVIOUS
      <4>3. creation'[s] = [creation[s] EXCEPT !.fresh = fresh]
        BY <4>1
      <4> HIDE DEF fresh
      <4> QED BY <4>2, <4>3
    <3>2. creation[s] \in Creations
      BY DEF NumberingInv, NumberingTypeOK
    <3> QED BY <3>1, <3>2 DEF Creations, Follows
  <2> QED BY <2>1, <2>2
<1>4. creation' \in [Requests -> Creations]
  BY <1>3 DEF CountUsage
<1>5. usageOutdated' \in BOOLEAN /\ UNCHANGED <<numbered, dated, created, uncounted>>
  BY DEF CountUsage
<1>6. NumberingTypeOK'
  BY <1>2, <1>4, <1>5 DEF NumberingInv, NumberingTypeOK
<1>7. NumbersFollow'
  <2> SUFFICES ASSUME dated = 0
               PROVE  \E n \in Nat : numbered = 1 .. n /\ \A s \in Requests : Follows(n, creation'[s])
    BY <1>5 DEF NumbersFollow, Follows
  <2> QED BY <1>3 DEF NumberingInv, NumbersFollow
<1> QED BY <1>6, <1>7 DEF NumberingInv

LEMMA NumberingInductive == NumberingInv /\ [NumberingNext]_numberingVars => NumberingInv'
<1> SUFFICES ASSUME NumberingInv, [NumberingNext]_numberingVars PROVE NumberingInv'
  OBVIOUS
<1>1. CASE UNCHANGED numberingVars
  BY <1>1 DEF numberingVars, NumberingInv, NumberingTypeOK, NumbersFollow, Follows
<1>2. CASE NumberingNext
  BY <1>2, NumberingBegin, NumberingProbe, NumberingInsert, NumberingEnds, NumberingCounts DEF NumberingNext
<1> QED BY <1>1, <1>2

\* Whatever overlaps, the numbers of a company's tickets run from 1 on without a
\* gap, for any numbers of requests, tickets and look-ups, as long as none had to
\* be made of the time.
THEOREM NumbersHaveNoGap == NumberingSpec => []NumbersWithoutGap
<1>1. NumberingInv => NumbersWithoutGap
  <2> SUFFICES ASSUME NumberingInv, dated = 0 PROVE numbered = 1 .. Cardinality(numbered)
    BY DEF NumbersWithoutGap
  <2>1. PICK n \in Nat : numbered = 1 .. n
    BY DEF NumberingInv, NumbersFollow
  <2> QED BY <2>1, FS_Interval
<1> QED BY <1>1, NumberingInductive, NumberingInitial, PTL DEF NumberingSpec

----------------------------------------------------------------------------
(* The usage counter.  Behind each row stands the number of increments that *)
(* were written to it: no row counts more, and nobody is about to write     *)
(* more, so the rows together count no more than what create made.          *)

\* The fold of the definition takes the rows in some order; any sum is the same.
LEMMA CountedIsTotal ==
  ASSUME usage \in Seq(Nat), NEW n, TotalIs(usage, DOMAIN usage, n)
  PROVE  Counted = n
<1> DEFINE D == DOMAIN usage
           first(T) == CHOOSE x \in T : TRUE
           Folds(it) == it = [T \in SUBSET D |-> IF T = {} THEN 0 ELSE usage[first(T)] + it[T \ {first(T)}]]
           fold == CHOOSE it : Folds(it)
<1>0. PICK sum : Sums(sum, usage, D) /\ sum[D] = n
  BY DEF TotalIs
<1>1. IsFiniteSet(D)
  BY LenProperties, FS_Interval
<1>2. \A T \in SUBSET D : T # {} => /\ first(T) \in T /\ T \ {first(T)} \in SUBSET D
                                    /\ (T \ {first(T)}) \cup {first(T)} = T /\ first(T) \in D \ (T \ {first(T)})
  OBVIOUS
<1>3. Counted = fold[D]
  BY DEF Counted, FoldSeq, FoldFunction, FoldFunctionOnSet, MapThenFoldSet
<1>4. \A T \in SUBSET D : T # {} => sum[T] = usage[first(T)] + sum[T \ {first(T)}]
  <2> SUFFICES ASSUME NEW T \in SUBSET D, T # {} PROVE sum[T] = usage[first(T)] + sum[T \ {first(T)}]
    OBVIOUS
  <2> DEFINE x == first(T)
             V == T \ {x}
  <2>1. V \in SUBSET D /\ x \in D \ V /\ V \cup {x} = T
    BY <1>2
  <2> HIDE DEF x, V
  <2>2. sum[V \cup {x}] = sum[V] + usage[x] /\ sum[V] \in Int /\ usage[x] \in Int
    BY <1>0, <2>1 DEF Sums
  <2>3. sum[V \cup {x}] = usage[x] + sum[V]
    BY <2>2
  <2>4. sum[T] = usage[x] + sum[V]
    BY <2>1, <2>3
  <2> QED BY <2>4 DEF x, V
<1>5. Folds(sum)
  <2>1. sum \in [SUBSET D -> Int] /\ sum[{}] = 0
    BY <1>0 DEF Sums
  <2> HIDE DEF first
  <2> QED BY <1>4, <2>1
<1>6. Folds(fold)
  BY <1>5
<1>7. ASSUME NEW T \in SUBSET D, T # {} PROVE fold[T] = usage[first(T)] + fold[T \ {first(T)}]
  <2> HIDE DEF fold, first
  <2> QED BY <1>6, <1>7
<1>8. fold[{}] = 0
  <2> HIDE DEF fold, first
  <2> QED BY <1>6
<1> DEFINE Bad == {U \in SUBSET D : fold[U] # sum[U]}
<1>9. Bad = {}
  <2> HIDE DEF fold
  <2> SUFFICES ASSUME Bad # {} PROVE FALSE
    OBVIOUS
  <2>1. PICK U \in Bad : \A V \in Bad : V \subseteq U => V = U
    <3>1. Bad \subseteq SUBSET D
      OBVIOUS
    <3> HIDE DEF Bad
    <3> QED BY <1>1, <3>1, SmallestBad
  <2>2. U # {} /\ U \in SUBSET D
    BY <1>0, <1>8 DEF Sums
  <2>3. first(U) \in U /\ U \ {first(U)} \in SUBSET D
    BY <1>2, <2>2
  <2> HIDE DEF first
  <2>4. fold[U \ {first(U)}] = sum[U \ {first(U)}]
    BY <2>1, <2>3
  <2>5. fold[U] = sum[U]
    BY <1>4, <1>7, <2>2, <2>4
  <2> QED BY <2>1, <2>5
<1>10. fold[D] = sum[D]
  BY <1>9
<1> QED BY <1>0, <1>3, <1>10

\* Requests that have made a ticket and have yet to count it.
InUsage == {r \in Requests : creation[r].at \in {"find", "newRecord", "count"}}

\* The increments written to each row are those of create that did not fail.
Tracks(done) ==
  /\ done \in [DOMAIN usage -> Nat]
  /\ TotalIs(done, DOMAIN usage, created - uncounted - Cardinality(InUsage))
  /\ \A i \in DOMAIN usage : usage[i] <= done[i]
  /\ \A r \in Requests : creation[r].at = "count" =>
       creation[r].row \in DOMAIN usage /\ creation[r].read <= done[creation[r].row]
  /\ ~usageOutdated =>
       /\ \A i \in DOMAIN usage : usage[i] = done[i]
       /\ \A r \in Requests : creation[r].at = "count" /\ creation[r].fresh =>
            creation[r].read = usage[creation[r].row]

UsageTracked == \E done : Tracks(done)

\* One request joins or leaves those that have yet to count.
LEMMA InUsageCounts ==
  ASSUME NEW r \in Requests,
         \A s \in Requests \ {r} : s \in InUsage' <=> s \in InUsage
  PROVE  /\ Cardinality(InUsage) \in Nat /\ Cardinality(InUsage') \in Nat
         /\ (r \in InUsage' <=> r \in InUsage) => Cardinality(InUsage') = Cardinality(InUsage)
         /\ r \in InUsage' /\ r \notin InUsage => Cardinality(InUsage') = Cardinality(InUsage) + 1
         /\ r \notin InUsage' /\ r \in InUsage => Cardinality(InUsage') = Cardinality(InUsage) - 1
<1>1. InUsage \in SUBSET Requests /\ InUsage' \in SUBSET Requests
  BY DEF InUsage
<1>2. IsFiniteSet(InUsage) /\ IsFiniteSet(InUsage') /\ Cardinality(InUsage) \in Nat /\ Cardinality(InUsage') \in Nat
  BY <1>1, PeopleAssumption, FS_Subset, FS_CardinalityType
<1>3. (r \in InUsage' <=> r \in InUsage) => InUsage' = InUsage
  BY <1>1
<1>4. r \in InUsage' /\ r \notin InUsage => InUsage' = InUsage \cup {r}
  BY <1>1
<1>5. r \notin InUsage' /\ r \in InUsage => InUsage' = InUsage \ {r}
  BY <1>1
<1> QED BY <1>2, <1>3, <1>4, <1>5, FS_AddElement, FS_RemoveElement

\* A request moves on and the rows stay.
LEMMA UsageMoves ==
  ASSUME NumberingInv, UsageTracked, NEW r \in Requests, NEW row, creation' = [creation EXCEPT ![r] = row],
         UNCHANGED <<usage, usageOutdated>>,
         row.at = "count" => row.row \in DOMAIN usage /\ row.read = usage[row.row],
         Cardinality(InUsage') + uncounted' + created = Cardinality(InUsage) + uncounted + created',
         created' \in Nat, uncounted' \in Nat
  PROVE  UsageTracked'
<1>1. PICK done : Tracks(done)
  BY DEF UsageTracked
<1>2. creation'[r] = row /\ \A s \in Requests : s # r => creation'[s] = creation[s]
  BY DEF NumberingInv, NumberingTypeOK
<1>3. \A s \in Requests \ {r} : s \in InUsage' <=> s \in InUsage
  BY <1>2 DEF InUsage
<1>4. Cardinality(InUsage) \in Nat /\ Cardinality(InUsage') \in Nat
  BY <1>3, InUsageCounts
<1>5. created \in Nat /\ uncounted \in Nat
  BY NumberingAssumption DEF NumberingInv, NumberingTypeOK
<1>6. created' - uncounted' - Cardinality(InUsage') = created - uncounted - Cardinality(InUsage)
  BY <1>4, <1>5
<1>7. ASSUME NEW s \in Requests, creation'[s].at = "count"
      PROVE  /\ creation'[s].row \in DOMAIN usage /\ creation'[s].read <= done[creation'[s].row]
             /\ ~usageOutdated /\ creation'[s].fresh => creation'[s].read = usage[creation'[s].row]
  <2>1. CASE s = r
    BY <1>1, <1>2, <1>7, <2>1 DEF Tracks
  <2>2. CASE s # r
    BY <1>1, <1>2, <1>7, <2>2 DEF Tracks
  <2> QED BY <2>1, <2>2
<1>8. Tracks(done)'
  BY <1>1, <1>6, <1>7 DEF Tracks
<1> QED BY <1>8 DEF UsageTracked

\* The steps up to the insertion, and those that look for a row or give up.
LEMMA UsageStays ==
  ASSUME NumberingInv, UsageTracked, NEW r \in Requests,
         \/ \E maker \in Makers : BeginCreate(r, maker)
         \/ Probe(r) \/ InsertTicket(r) \/ NumberTaken(r) \/ FindUsage(r) \/ UsageFails(r)
  PROVE  UsageTracked'
<1>1. created \in Nat /\ uncounted \in Nat /\ creation \in [Requests -> Creations]
  BY NumberingAssumption DEF NumberingInv, NumberingTypeOK
<1>2. ASSUME NEW row, creation' = [creation EXCEPT ![r] = row]
      PROVE  /\ r \in InUsage' <=> row.at \in {"find", "newRecord", "count"}
             /\ r \in InUsage <=> creation[r].at \in {"find", "newRecord", "count"}
             /\ \A s \in Requests \ {r} : s \in InUsage' <=> s \in InUsage
  BY <1>1, <1>2 DEF InUsage
<1>3. ASSUME NEW maker \in Makers, BeginCreate(r, maker) PROVE UsageTracked'
  <2> DEFINE row == Numbering(IF maker = "alert" THEN "insert" ELSE "probe", maker, Count + 1, 0)
  <2>1. creation' = [creation EXCEPT ![r] = row] /\ row.at \in {"insert", "probe"} /\ creation[r].at = "idle"
    BY <1>3 DEF BeginCreate, Creates, Numbering
  <2> HIDE DEF row
  <2>2. Cardinality(InUsage') = Cardinality(InUsage) /\ Cardinality(InUsage) \in Nat
    BY <1>2, <2>1, InUsageCounts
  <2> QED BY <1>1, <1>3, <2>1, <2>2, UsageMoves DEF BeginCreate
<1>4. CASE Probe(r)
  <2>1. PICK row : creation' = [creation EXCEPT ![r] = row] /\ row.at \in {"insert", "probe"} /\ creation[r].at = "probe"
    BY <1>4 DEF Probe, Creates, Numbering
  <2>2. Cardinality(InUsage') = Cardinality(InUsage) /\ Cardinality(InUsage) \in Nat
    BY <1>2, <2>1, InUsageCounts
  <2> QED BY <1>1, <1>4, <2>1, <2>2, UsageMoves DEF Probe
<1>5. CASE InsertTicket(r) /\ creation[r].maker = "create"
  <2>1. creation[r].at = "insert" /\ created' = created + 1 /\ UNCHANGED <<usage, uncounted, usageOutdated>>
    BY <1>5 DEF InsertTicket
  <2>2. PICK row : creation' = [creation EXCEPT ![r] = row] /\ row.at = "find"
    <3>1. PICK row : row = Counting("find", 0, 0)
      OBVIOUS
    <3>2. creation' = [creation EXCEPT ![r] = row]
      BY <1>5, <3>1 DEF InsertTicket, Creates
    <3>3. row.at = "find"
      BY <3>1 DEF Counting
    <3> QED BY <3>2, <3>3
  <2>3. Cardinality(InUsage') = Cardinality(InUsage) + 1 /\ Cardinality(InUsage) \in Nat
    BY <1>2, <2>1, <2>2, InUsageCounts
  <2>4. Cardinality(InUsage') + uncounted' + created = Cardinality(InUsage) + uncounted + created' /\ created' \in Nat
    BY <1>1, <2>1, <2>3
  <2> QED BY <1>1, <2>1, <2>2, <2>4, UsageMoves
<1>6. CASE NumberTaken(r) \/ (InsertTicket(r) /\ creation[r].maker # "create")
  <2>1. /\ creation' = [creation EXCEPT ![r] = NoCreation] /\ creation[r].at = "insert"
        /\ UNCHANGED <<usage, created, uncounted, usageOutdated>>
    BY <1>6 DEF NumberTaken, InsertTicket, Creates
  <2>2. NoCreation.at = "idle"
    BY DEF NoCreation, Counting
  <2>3. Cardinality(InUsage') = Cardinality(InUsage) /\ Cardinality(InUsage) \in Nat
    BY <1>2, <2>1, <2>2, InUsageCounts
  <2> QED BY <1>1, <2>1, <2>2, <2>3, UsageMoves
<1>7. CASE FindUsage(r)
  <2>1. PICK row : /\ creation' = [creation EXCEPT ![r] = row] /\ row.at \in {"newRecord", "count"}
                   /\ row.at = "count" => row.row \in DOMAIN usage /\ row.read = usage[row.row]
    BY <1>7 DEF FindUsage, Creates, Counting
  <2>2. creation[r].at = "find" /\ UNCHANGED <<usage, created, uncounted, usageOutdated>>
    BY <1>7 DEF FindUsage
  <2>3. Cardinality(InUsage') = Cardinality(InUsage) /\ Cardinality(InUsage) \in Nat
    BY <1>2, <2>1, <2>2, InUsageCounts
  <2> QED BY <1>1, <2>1, <2>2, <2>3, UsageMoves
<1>8. CASE UsageFails(r)
  <2>1. /\ creation[r].at \in {"find", "newRecord", "count"} /\ uncounted' = uncounted + 1
        /\ UNCHANGED <<usage, created, usageOutdated>>
    BY <1>8 DEF UsageFails
  <2>2. PICK row : creation' = [creation EXCEPT ![r] = row] /\ row.at = "idle"
    <3>1. PICK row : row = NoCreation
      OBVIOUS
    <3>2. creation' = [creation EXCEPT ![r] = row]
      BY <1>8, <3>1 DEF UsageFails, Creates
    <3>3. row.at = "idle"
      BY <3>1 DEF NoCreation, Counting
    <3> QED BY <3>2, <3>3
  <2>3. Cardinality(InUsage') = Cardinality(InUsage) - 1 /\ Cardinality(InUsage) \in Nat
    BY <1>2, <2>1, <2>2, InUsageCounts
  <2>4. Cardinality(InUsage') + uncounted' + created = Cardinality(InUsage) + uncounted + created' /\ uncounted' \in Nat
    BY <1>1, <2>1, <2>3
  <2> QED BY <1>1, <2>1, <2>2, <2>4, UsageMoves
<1> QED BY <1>3, <1>4, <1>5, <1>6, <1>7, <1>8, Zenon

\* A new row counts nothing yet.
LEMMA UsageGrows ==
  ASSUME NumberingInv, UsageTracked, NEW r \in Requests, CreateUsage(r)
  PROVE  UsageTracked'
<1>1. PICK done : Tracks(done)
  BY DEF UsageTracked
<1> DEFINE n == Len(usage) + 1
<1>2. creation \in [Requests -> Creations] /\ usage \in Seq(Nat) /\ created \in Nat /\ uncounted \in Nat
  BY NumberingAssumption DEF NumberingInv, NumberingTypeOK
<1>3. /\ n \in Nat /\ n \notin DOMAIN usage /\ DOMAIN usage' = DOMAIN usage \cup {n}
      /\ usage'[n] = 0 /\ \A i \in DOMAIN usage : usage'[i] = usage[i]
  <2>1. usage' = Append(usage, 0) /\ Len(usage) \in Nat /\ DOMAIN usage = 1 .. Len(usage)
    BY <1>2, LenProperties DEF CreateUsage
  <2>2. usage' \in Seq(Nat) /\ Len(usage') = n /\ usage'[n] = 0 /\ \A i \in 1 .. Len(usage) : usage'[i] = usage[i]
    BY <1>2, <2>1, AppendProperties
  <2>3. DOMAIN usage' = 1 .. n
    BY <2>2, LenProperties
  <2> QED BY <2>1, <2>2, <2>3
<1>4. /\ creation' = [creation EXCEPT ![r] = Counting("count", n, 0)] /\ creation[r].at = "newRecord"
      /\ UNCHANGED <<created, uncounted, usageOutdated>>
  BY DEF CreateUsage, Creates
<1> HIDE DEF n
<1>5. /\ creation'[r].at = "count" /\ creation'[r].row = n /\ creation'[r].read = 0
      /\ \A s \in Requests : s # r => creation'[s] = creation[s]
  BY <1>2, <1>4 DEF Counting
<1>6. Cardinality(InUsage') = Cardinality(InUsage) /\ Cardinality(InUsage) \in Nat
  <2>1. r \in InUsage' /\ r \in InUsage /\ \A s \in Requests \ {r} : s \in InUsage' <=> s \in InUsage
    BY <1>4, <1>5 DEF InUsage
  <2> QED BY <2>1, InUsageCounts
<1>7. PICK done2 \in [DOMAIN usage' -> Nat] : done2[n] = 0 /\ \A i \in DOMAIN usage : done2[i] = done[i]
  <2> DEFINE d == [i \in DOMAIN usage' |-> IF i = n THEN 0 ELSE done[i]]
  <2>1. d \in [DOMAIN usage' -> Nat] /\ d[n] = 0 /\ \A i \in DOMAIN usage : d[i] = done[i]
    BY <1>1, <1>3 DEF Tracks
  <2> QED BY <2>1
<1> DEFINE total == created - uncounted - Cardinality(InUsage)
<1>8. TotalIs(done, DOMAIN usage, total) /\ done2[n] \in Int /\ Agree(done, done2, DOMAIN usage)
  BY <1>1, <1>7 DEF Tracks, Agree
<1>9. created' - uncounted' - Cardinality(InUsage') = total + done2[n]
  BY <1>2, <1>4, <1>6, <1>7
<1> HIDE DEF total
<1>10. TotalIs(done2, DOMAIN usage \cup {n}, total + done2[n])
  BY <1>3, <1>8, TotalAdds
<1>11. \A i \in DOMAIN usage' : usage'[i] <= done2[i] /\ (~usageOutdated => usage'[i] = done2[i])
  BY <1>1, <1>3, <1>7 DEF Tracks
<1>12. ASSUME NEW s \in Requests, creation'[s].at = "count"
       PROVE  /\ creation'[s].row \in DOMAIN usage' /\ creation'[s].read <= done2[creation'[s].row]
              /\ ~usageOutdated /\ creation'[s].fresh => creation'[s].read = usage'[creation'[s].row]
  <2>1. CASE s = r
    BY <1>3, <1>5, <1>7, <2>1
  <2>2. CASE s # r
    BY <1>1, <1>3, <1>5, <1>7, <1>12, <2>2 DEF Tracks
  <2> QED BY <2>1, <2>2
<1>13. TotalIs(done2, DOMAIN usage', created' - uncounted' - Cardinality(InUsage'))
  BY <1>3, <1>9, <1>10
<1>14. Tracks(done2)'
  BY <1>4, <1>7, <1>11, <1>12, <1>13 DEF Tracks
<1> QED BY <1>14 DEF UsageTracked

\* What is written counts one more than was read, and one more increment was made.
LEMMA UsageCounts ==
  ASSUME NumberingInv, UsageTracked, NEW r \in Requests, CountUsage(r)
  PROVE  UsageTracked'
<1>1. PICK done : Tracks(done)
  BY DEF UsageTracked
<1> DEFINE k == creation[r].row
<1>2. creation \in [Requests -> Creations] /\ usage \in Seq(Nat) /\ created \in Nat /\ uncounted \in Nat
  BY NumberingAssumption DEF NumberingInv, NumberingTypeOK
<1>3. k \in DOMAIN usage /\ creation[r].at = "count" /\ creation[r].read \in Nat /\ creation[r].read <= done[k]
  BY <1>1, <1>2 DEF CountUsage, Tracks, Creations
<1>4. /\ DOMAIN usage' = DOMAIN usage /\ usage'[k] = creation[r].read + 1
      /\ \A i \in DOMAIN usage : i # k => usage'[i] = usage[i]
      /\ UNCHANGED <<created, uncounted>> /\ usageOutdated' = (usageOutdated \/ ~creation[r].fresh)
  BY <1>3 DEF CountUsage, NextCount
<1>5. /\ creation'[r].at = "idle"
      /\ \A s \in Requests : s # r =>
           /\ creation'[s].at = creation[s].at /\ creation'[s].row = creation[s].row /\ creation'[s].read = creation[s].read
           /\ creation'[s].fresh => creation[s].fresh /\ ~(creation[s].at = "count" /\ creation[s].row = k)
  <2>1. creation'[r].at = "idle"
    BY DEF CountUsage, NoCreation, Counting
  <2>2. ASSUME NEW s \in Requests, s # r
        PROVE  creation'[s] = [creation[s] EXCEPT !.fresh = @ /\ ~(creation[s].at = "count" /\ creation[s].row = k)]
    BY <2>2 DEF CountUsage
  <2>3. ASSUME NEW s \in Requests, s # r
        PROVE  /\ creation'[s].at = creation[s].at /\ creation'[s].row = creation[s].row
               /\ creation'[s].read = creation[s].read
               /\ creation'[s].fresh => creation[s].fresh /\ ~(creation[s].at = "count" /\ creation[s].row = k)
    BY <1>2, <2>2, <2>3 DEF Creations
  <2> QED BY <2>1, <2>3
<1> HIDE DEF k
<1>6. Cardinality(InUsage') = Cardinality(InUsage) - 1 /\ Cardinality(InUsage) \in Nat
  <2>1. r \notin InUsage' /\ r \in InUsage /\ \A s \in Requests \ {r} : s \in InUsage' <=> s \in InUsage
    BY <1>3, <1>5 DEF InUsage
  <2> QED BY <2>1, InUsageCounts
<1>7. PICK done2 \in [DOMAIN usage -> Nat] :
        /\ done2[k] = done[k] + 1 /\ done[k] \in Nat
        /\ \A i \in DOMAIN usage \ {k} : done2[i] = done[i]
  <2> DEFINE d == [done EXCEPT ![k] = @ + 1]
  <2>1. d \in [DOMAIN usage -> Nat] /\ d[k] = done[k] + 1 /\ done[k] \in Nat /\ \A i \in DOMAIN usage \ {k} : d[i] = done[i]
    BY <1>1, <1>3 DEF Tracks
  <2> QED BY <2>1
<1> DEFINE total == created - uncounted - Cardinality(InUsage)
<1>8. TotalIs(done, DOMAIN usage, total) /\ done2[k] \in Int /\ Agree(done, done2, DOMAIN usage \ {k})
  BY <1>1, <1>3, <1>7 DEF Tracks, Agree
<1>9. created' - uncounted' - Cardinality(InUsage') = total - done[k] + done2[k]
  BY <1>2, <1>4, <1>6, <1>7
<1> HIDE DEF total
<1>10. TotalIs(done2, DOMAIN usage, total - done[k] + done2[k])
  BY <1>3, <1>8, TotalChanges
<1>11. \A i \in DOMAIN usage : usage'[i] <= done2[i] /\ (~usageOutdated' => usage'[i] = done2[i])
  <2> SUFFICES ASSUME NEW i \in DOMAIN usage PROVE usage'[i] <= done2[i] /\ (~usageOutdated' => usage'[i] = done2[i])
    OBVIOUS
  <2>1. CASE i = k
    <3>1. ~usageOutdated' => creation[r].read = done[k]
      BY <1>1, <1>3, <1>4 DEF Tracks, k
    <3> QED BY <1>3, <1>4, <1>7, <2>1, <3>1
  <2>2. CASE i # k
    BY <1>1, <1>4, <1>7, <2>2 DEF Tracks
  <2> QED BY <2>1, <2>2
<1>12. ASSUME NEW s \in Requests, creation'[s].at = "count"
       PROVE  /\ creation'[s].row \in DOMAIN usage /\ creation'[s].read <= done2[creation'[s].row]
              /\ ~usageOutdated' /\ creation'[s].fresh => creation'[s].read = usage'[creation'[s].row]
  <2>1. /\ s # r /\ creation[s].at = "count" /\ creation'[s].row = creation[s].row
        /\ creation'[s].read = creation[s].read /\ creation[s].read \in Nat
    BY <1>2, <1>5, <1>12 DEF Creations
  <2>2. creation[s].row \in DOMAIN usage /\ creation[s].read <= done[creation[s].row]
    BY <1>1, <2>1 DEF Tracks
  <2>3. done[creation[s].row] \in Nat /\ done2[creation[s].row] >= done[creation[s].row]
    BY <1>1, <1>7, <2>2 DEF Tracks
  <2>4. ASSUME ~usageOutdated', creation'[s].fresh PROVE creation'[s].read = usage'[creation'[s].row]
    <3>1. creation[s].fresh /\ creation[s].row # k /\ ~usageOutdated
      BY <1>4, <1>5, <2>1, <2>4
    <3> QED BY <1>1, <1>4, <2>1, <2>2, <3>1 DEF Tracks
  <2>5. done2[creation[s].row] \in Nat
    BY <1>7, <2>2
  <2> QED BY <2>1, <2>2, <2>3, <2>4, <2>5
<1>13. TotalIs(done2, DOMAIN usage', created' - uncounted' - Cardinality(InUsage'))
  BY <1>4, <1>9, <1>10
<1>14. Tracks(done2)'
  BY <1>4, <1>7, <1>11, <1>12, <1>13 DEF Tracks
<1> QED BY <1>14 DEF UsageTracked

LEMMA UsageInitial == NumberingInit => UsageTracked
<1> SUFFICES ASSUME NumberingInit PROVE UsageTracked
  OBVIOUS
<1>1. InUsage = {} /\ \A r \in Requests : creation[r].at = "idle"
  BY DEF NumberingInit, InUsage, NoCreation, Counting
<1>2. usage = <<>> /\ DOMAIN usage = {} /\ uncounted = 0 /\ created = 0
  BY DEF NumberingInit
<1>3. <<>> \in [{} -> Nat]
  BY EmptySeq
<1>4. Tracks(<<>>)
  BY <1>1, <1>2, <1>3, EmptyTotal, FS_EmptySet DEF Tracks
<1> QED BY <1>4 DEF UsageTracked

LEMMA TrackedIsFair == NumberingInv /\ UsageTracked => UsageIsFair
<1> SUFFICES ASSUME NumberingInv, UsageTracked PROVE UsageIsFair
  OBVIOUS
<1>1. PICK done : Tracks(done)
  BY DEF UsageTracked
<1>2. usage \in Seq(Nat) /\ created \in Nat /\ uncounted \in Nat
  BY NumberingAssumption DEF NumberingInv, NumberingTypeOK
<1>3. IsFiniteSet(DOMAIN usage) /\ \A i \in DOMAIN usage : usage[i] \in Nat
  <2>1. DOMAIN usage = 1 .. Len(usage) /\ Len(usage) \in Nat /\ \A i \in 1 .. Len(usage) : usage[i] \in Nat
    BY <1>2, LenProperties, ElementOfSeq
  <2> QED BY <2>1, FS_Interval
<1>4. PICK n : TotalIs(usage, DOMAIN usage, n)
  BY <1>3, TotalExists
<1>5. Counted = n /\ n \in Int
  BY <1>2, <1>4, CountedIsTotal, TotalIsInt
<1>6. InUsage \in SUBSET Requests /\ IsFiniteSet(InUsage) /\ Cardinality(InUsage) \in Nat
  BY PeopleAssumption, FS_Subset, FS_CardinalityType DEF InUsage
<1> DEFINE total == created - uncounted - Cardinality(InUsage)
<1>7. TotalIs(done, DOMAIN usage, total) /\ total \in Int /\ total <= created
  BY <1>1, <1>2, <1>6 DEF Tracks
<1>8. AtRest(creation) /\ uncounted = 0 => total = created
  <2> SUFFICES ASSUME AtRest(creation), uncounted = 0 PROVE total = created
    OBVIOUS
  <2>1. InUsage = {}
    BY DEF AtRest, InUsage
  <2>2. Cardinality(InUsage) = 0
    BY <2>1, FS_EmptySet
  <2> QED BY <1>2, <2>2
<1> HIDE DEF total
<1>9. n <= total
  <2>1. \A i \in DOMAIN usage : usage[i] <= done[i]
    BY <1>1 DEF Tracks
  <2> QED BY <1>3, <1>4, <1>7, <2>1, TotalMonotone
<1>10. ~usageOutdated => total <= n
  <2> SUFFICES ASSUME ~usageOutdated PROVE total <= n
    OBVIOUS
  <2>1. \A i \in DOMAIN usage : done[i] <= usage[i]
    BY <1>1, <1>3 DEF Tracks
  <2> QED BY <1>3, <1>4, <1>7, <2>1, TotalMonotone
<1> QED BY <1>2, <1>5, <1>7, <1>8, <1>9, <1>10 DEF UsageIsFair

\* However many increments overlap or fail, and however many rows a month has got,
\* usage never counts more tickets than create made, and none is missing unless an
\* increment failed or was written on a read that was outdated.
THEOREM UsageStaysFair == NumberingSpec => []UsageIsFair
<1>1. NumberingInv /\ UsageTracked /\ [NumberingNext]_numberingVars => UsageTracked'
  <2> SUFFICES ASSUME NumberingInv, UsageTracked, [NumberingNext]_numberingVars PROVE UsageTracked'
    OBVIOUS
  <2>1. CASE UNCHANGED numberingVars
    BY <2>1 DEF numberingVars, UsageTracked, Tracks, InUsage
  <2>2. CASE NumberingNext
    BY <2>2, UsageStays, UsageGrows, UsageCounts DEF NumberingNext
  <2> QED BY <2>1, <2>2
<1> QED BY <1>1, NumberingInductive, NumberingInitial, UsageInitial, TrackedIsFair, PTL DEF NumberingSpec

----------------------------------------------------------------------------
(* AccessElevation.  A grant belongs to the approval of its elevation or to *)
(* a review that is about to write it, and a review whose row nobody wrote  *)
(* finds it still pending.                                                  *)

Sound(row) ==
  /\ row.at \in {"elevate", "grant"} => row.to = "APPROVED"
  /\ row.at = "closeAccess" => (row.to = "APPROVED" <=> row.made # NoElevation)
  /\ row.at \in {"grant", "closeElevation"} =>
       row.of \in Elevations /\ (row.fresh => elevation[row.of].status = "PENDING")

Approves(row, e) == row.at = "closeElevation" /\ row.of = e /\ row.to = "APPROVED"
Closing(e) == {r \in Requests : Approves(reviewing[r], e)}
GrantDue(status) == IF status = "APPROVED" THEN 1 ELSE 0

GrantsMatch(e) == grants[e] = Cardinality(Closing(e)) + GrantDue(elevation[e].status)

ElevationInv ==
  /\ ElevationTypeOK
  /\ accessRequest.status = "APPROVED" <=> accessRequest.result # NoElevation
  /\ \A r \in Requests : Sound(reviewing[r])
  /\ halfReviewed = 0 /\ ~elevationOutdated => \A e \in Elevations : GrantsMatch(e)

LEMMA ReviewingRow ==
  ASSUME NEW step \in {"idle", "elevate", "closeAccess", "grant", "closeElevation"},
         NEW of \in Elevations \cup {NoElevation}, NEW by \in Admins \cup {NoAdmin}, NEW to \in Statuses
  PROVE  Reviewing(step, of, by, to) \in Reviewings
BY DEF Reviewing, Reviewings

LEMMA NotReviewingRow ==
  NotReviewing \in Reviewings /\ Sound(NotReviewing) /\ \A e \in Elevations : ~Approves(NotReviewing, e)
BY DEF NotReviewing, Reviewing, Reviewings, Sound, Approves, Statuses

LEMMA ElevationInitial == ElevationInit => ElevationInv
<1> SUFFICES ASSUME ElevationInit PROVE ElevationInv
  OBVIOUS
<1>1. \A r \in Requests : reviewing[r] = NotReviewing
  BY DEF ElevationInit
<1>2. ElevationTypeOK
  <2>1. reviewing \in [Requests -> Reviewings]
    BY NotReviewingRow DEF ElevationInit
  <2>2. 0 \in 0 .. MaxElevationFaults
    BY ElevationAssumption
  <2>3. accessRequest \in [status : Statuses, result : Elevations \cup {NoElevation}]
    BY DEF ElevationInit, Statuses
  <2>4. elevation \in [Elevations -> [status : Statuses, requestedBy : Admins \cup {NoAdmin}]]
    BY DEF ElevationInit, Statuses
  <2> QED BY <2>1, <2>2, <2>3, <2>4 DEF ElevationInit, ElevationTypeOK
<1>3. \A e \in Elevations : Closing(e) = {}
  BY <1>1, NotReviewingRow DEF Closing
<1>4. \A e \in Elevations : GrantsMatch(e)
  BY <1>3, FS_EmptySet DEF ElevationInit, GrantsMatch, GrantDue
<1>5. accessRequest.status = "APPROVED" <=> accessRequest.result # NoElevation
  BY DEF ElevationInit
<1> QED BY <1>1, <1>2, <1>4, <1>5, NotReviewingRow DEF ElevationInv

\* Whoever is about to write an approval counts once.
LEMMA ClosingCounts ==
  ASSUME NEW row, NEW r \in Requests, NEW e \in Elevations, ElevationTypeOK, reviewing'[r] = row,
         \A s \in Requests : s # r => (Approves(reviewing'[s], e) <=> Approves(reviewing[s], e))
  PROVE  /\ Cardinality(Closing(e)) \in Nat /\ Cardinality(Closing(e)') \in Nat
         /\ (Approves(row, e) <=> Approves(reviewing[r], e)) => Cardinality(Closing(e)') = Cardinality(Closing(e))
         /\ Approves(row, e) /\ ~Approves(reviewing[r], e) =>
              Cardinality(Closing(e)') = Cardinality(Closing(e)) + 1
         /\ ~Approves(row, e) /\ Approves(reviewing[r], e) =>
              Cardinality(Closing(e)') = Cardinality(Closing(e)) - 1
<1>1. IsFiniteSet(Closing(e)) /\ IsFiniteSet(Closing(e)')
  BY PeopleAssumption, FS_Subset DEF Closing
<1>2. Cardinality(Closing(e)) \in Nat /\ Cardinality(Closing(e)') \in Nat
  BY <1>1, FS_CardinalityType
<1>3. Closing(e)' = {s \in Requests : Approves(reviewing'[s], e)}
  BY DEF Closing, Approves
<1>4. (Approves(row, e) <=> Approves(reviewing[r], e)) => Closing(e)' = Closing(e)
  BY <1>3 DEF Closing
<1>5. Approves(row, e) /\ ~Approves(reviewing[r], e) => r \notin Closing(e) /\ Closing(e)' = Closing(e) \cup {r}
  BY <1>3 DEF Closing
<1>6. ~Approves(row, e) /\ Approves(reviewing[r], e) => r \in Closing(e) /\ Closing(e)' = Closing(e) \ {r}
  BY <1>3 DEF Closing
<1>7. Cardinality(Closing(e) \cup {r}) = IF r \in Closing(e) THEN Cardinality(Closing(e)) ELSE Cardinality(Closing(e)) + 1
  BY <1>1, FS_AddElement
<1>8. Cardinality(Closing(e) \ {r}) = IF r \in Closing(e) THEN Cardinality(Closing(e)) - 1 ELSE Cardinality(Closing(e))
  BY <1>1, FS_RemoveElement
<1> QED BY <1>2, <1>4, <1>5, <1>6, <1>7, <1>8

\* A request moves on, and no row that another review has read changes.
LEMMA ReviewMoves ==
  ASSUME ElevationInv, NEW r \in Requests, NEW row \in Reviewings, reviewing' = [reviewing EXCEPT ![r] = row],
         Sound(row)', ElevationTypeOK', halfReviewed' = halfReviewed, UNCHANGED <<accessRequest, elevationOutdated>>,
         \A e \in Elevations : elevation[e].status = "absent" \/ elevation'[e].status = elevation[e].status,
         \A e \in Elevations : elevation[e].status = "absent" => elevation'[e].status \in {"absent", "PENDING"},
         \A e \in Elevations :
           \/ grants'[e] = grants[e] /\ (Approves(row, e) <=> Approves(reviewing[r], e))
           \/ grants'[e] = grants[e] + 1 /\ Approves(row, e) /\ ~Approves(reviewing[r], e)
  PROVE  ElevationInv'
<1>1. reviewing'[r] = row /\ \A s \in Requests : s # r => reviewing'[s] = reviewing[s]
  BY DEF ElevationInv, ElevationTypeOK
<1>2. \A s \in Requests : Sound(reviewing[s])'
  <2> SUFFICES ASSUME NEW s \in Requests PROVE Sound(reviewing[s])'
    OBVIOUS
  <2>1. CASE s = r
    BY <1>1, <2>1 DEF Sound
  <2>2. CASE s # r
    BY <1>1, <2>2 DEF ElevationInv, Sound
  <2> QED BY <2>1, <2>2
<1>3. ASSUME halfReviewed = 0, ~elevationOutdated, NEW e \in Elevations PROVE GrantsMatch(e)'
  <2>1. GrantDue(elevation'[e].status) = GrantDue(elevation[e].status)
    BY DEF GrantDue
  <2>2. grants[e] = Cardinality(Closing(e)) + GrantDue(elevation[e].status) /\ grants[e] \in Nat
    BY <1>3 DEF ElevationInv, ElevationTypeOK, GrantsMatch
  <2>3. GrantDue(elevation[e].status) \in Nat
    BY DEF GrantDue
  <2>4. /\ Cardinality(Closing(e)) \in Nat /\ Cardinality(Closing(e)') \in Nat
        /\ (Approves(row, e) <=> Approves(reviewing[r], e)) => Cardinality(Closing(e)') = Cardinality(Closing(e))
        /\ Approves(row, e) /\ ~Approves(reviewing[r], e) =>
             Cardinality(Closing(e)') = Cardinality(Closing(e)) + 1
    BY <1>1, ClosingCounts DEF ElevationInv
  <2>5. grants'[e] = Cardinality(Closing(e)') + GrantDue(elevation'[e].status)
    BY <2>1, <2>2, <2>3, <2>4
  <2> QED BY <2>5 DEF GrantsMatch
<1> QED BY <1>2, <1>3 DEF ElevationInv

LEMMA InsertedElevation ==
  ASSUME ElevationTypeOK, NEW e \in Elevations, NEW a \in Admins \cup {NoAdmin}, InsertElevation(e, a)
  PROVE  /\ elevation' \in [Elevations -> [status : Statuses, requestedBy : Admins \cup {NoAdmin}]]
         /\ \A d \in Elevations : elevation[d].status = "absent" \/ elevation'[d].status = elevation[d].status
         /\ \A d \in Elevations : elevation[d].status = "absent" => elevation'[d].status \in {"absent", "PENDING"}
BY DEF InsertElevation, ElevationTypeOK, Statuses

\* Requests for access and for an elevation.
LEMMA RequestsAreMade ==
  ASSUME ElevationInv, CreateAccessRequest \/ \E a \in Admins : RequestElevation(a)
  PROVE  ElevationInv'
<1>1. UNCHANGED <<grants, reviewing, halfReviewed, elevationOutdated>>
  BY DEF CreateAccessRequest, RequestElevation
<1>2. /\ elevation' \in [Elevations -> [status : Statuses, requestedBy : Admins \cup {NoAdmin}]]
      /\ \A d \in Elevations : elevation[d].status = "absent" \/ elevation'[d].status = elevation[d].status
      /\ \A d \in Elevations : elevation[d].status = "absent" => elevation'[d].status \in {"absent", "PENDING"}
  <2>1. CASE CreateAccessRequest
    BY <2>1 DEF CreateAccessRequest, ElevationInv, ElevationTypeOK
  <2>2. CASE \E a \in Admins : RequestElevation(a)
    BY <2>2, InsertedElevation DEF RequestElevation, ElevationInv
  <2> QED BY <2>1, <2>2
<1>3. /\ accessRequest' \in [status : Statuses, result : Elevations \cup {NoElevation}]
      /\ accessRequest'.status = "APPROVED" <=> accessRequest'.result # NoElevation
  BY DEF CreateAccessRequest, RequestElevation, ElevationInv, ElevationTypeOK, Statuses
<1>4. ElevationTypeOK'
  BY <1>1, <1>2, <1>3 DEF ElevationInv, ElevationTypeOK
<1>5. \A s \in Requests : Sound(reviewing[s])'
  BY <1>1, <1>2 DEF ElevationInv, Sound
<1>6. ASSUME halfReviewed = 0, ~elevationOutdated, NEW e \in Elevations PROVE GrantsMatch(e)'
  <2>1. Closing(e)' = Closing(e) /\ GrantDue(elevation'[e].status) = GrantDue(elevation[e].status)
    BY <1>1, <1>2 DEF Closing, Approves, GrantDue
  <2> QED BY <1>1, <1>6, <2>1 DEF ElevationInv, GrantsMatch
<1> QED BY <1>1, <1>3, <1>4, <1>5, <1>6 DEF ElevationInv

LEMMA AccessReviewBegins ==
  ASSUME ElevationInv, NEW r \in Requests, NEW a \in Admins, BeginAccessReview(r, a)
  PROVE  ElevationInv'
<1>1. PICK step \in {<<"elevate", "APPROVED">>, <<"closeAccess", "REJECTED">>} :
        reviewing' = [reviewing EXCEPT ![r] = Reviewing(step[1], NoElevation, a, step[2])]
  BY DEF BeginAccessReview
<1> DEFINE row == Reviewing(step[1], NoElevation, a, step[2])
<1>2. row \in Reviewings
  BY <1>1, ReviewingRow DEF Statuses
<1>3. Sound(row)' /\ \A e \in Elevations : ~Approves(row, e)
  BY <1>1 DEF Reviewing, Sound, Approves
<1>4. \A e \in Elevations : ~Approves(reviewing[r], e)
  BY DEF BeginAccessReview, Approves
<1>5. reviewing' = [reviewing EXCEPT ![r] = row]
  BY <1>1
<1> HIDE DEF row
<1>6. ElevationTypeOK'
  BY <1>2, <1>5 DEF BeginAccessReview, ElevationInv, ElevationTypeOK
<1> QED BY <1>2, <1>3, <1>4, <1>5, <1>6, ReviewMoves DEF BeginAccessReview

LEMMA AccessIsElevated ==
  ASSUME ElevationInv, NEW r \in Requests, ElevateForAccess(r)
  PROVE  ElevationInv'
<1>1. PICK e \in Elevations :
        /\ InsertElevation(e, reviewing[r].by)
        /\ reviewing' = [reviewing EXCEPT ![r] = [@ EXCEPT !.at = "closeAccess", !.made = e]]
  BY DEF ElevateForAccess
<1>2. reviewing[r] \in Reviewings /\ reviewing[r].at = "elevate" /\ reviewing[r].to = "APPROVED"
  BY DEF ElevateForAccess, ElevationInv, ElevationTypeOK, Sound
<1>3. PICK row \in Reviewings : /\ row.at = "closeAccess" /\ row.made = e /\ row.to = "APPROVED"
                                /\ reviewing' = [reviewing EXCEPT ![r] = row]
  <2> DEFINE next == [reviewing[r] EXCEPT !.at = "closeAccess", !.made = e]
  <2>1. next \in Reviewings /\ next.at = "closeAccess" /\ next.made = e /\ next.to = "APPROVED"
    BY <1>2 DEF Reviewings
  <2>2. reviewing' = [reviewing EXCEPT ![r] = next]
    BY <1>1
  <2> HIDE DEF next
  <2> QED BY <2>1, <2>2
<1>4. reviewing' = [reviewing EXCEPT ![r] = row]
  BY <1>3
<1>5. reviewing[r].by \in Admins \cup {NoAdmin}
  BY <1>2 DEF Reviewings
<1>6. /\ elevation' \in [Elevations -> [status : Statuses, requestedBy : Admins \cup {NoAdmin}]]
      /\ \A d \in Elevations : elevation[d].status = "absent" \/ elevation'[d].status = elevation[d].status
      /\ \A d \in Elevations : elevation[d].status = "absent" => elevation'[d].status \in {"absent", "PENDING"}
  BY <1>1, <1>5, InsertedElevation DEF ElevationInv
<1>7. ElevationTypeOK'
  BY <1>3, <1>4, <1>6 DEF ElevateForAccess, ElevationInv, ElevationTypeOK
<1>8. Sound(row)' /\ \A d \in Elevations : ~Approves(row, d) /\ ~Approves(reviewing[r], d)
  BY <1>2, <1>3, ElevationAssumption DEF Sound, Approves
<1> QED BY <1>3, <1>4, <1>6, <1>7, <1>8, ReviewMoves DEF ElevateForAccess

LEMMA ElevationReviewBegins ==
  ASSUME ElevationInv, NEW r \in Requests, NEW a \in Admins, NEW e \in Elevations, BeginElevationReview(r, a, e)
  PROVE  ElevationInv'
<1>1. PICK step \in {<<"grant", "APPROVED">>, <<"closeElevation", "REJECTED">>} :
        reviewing' = [reviewing EXCEPT ![r] = Reviewing(step[1], e, a, step[2])]
  BY DEF BeginElevationReview
<1> DEFINE row == Reviewing(step[1], e, a, step[2])
<1>2. row \in Reviewings
  BY <1>1, ReviewingRow DEF Statuses
<1>3. elevation'[e].status = "PENDING"
  BY DEF BeginElevationReview
<1>4. Sound(row)' /\ \A d \in Elevations : ~Approves(row, d)
  BY <1>1, <1>3 DEF Reviewing, Sound, Approves
<1>5. \A d \in Elevations : ~Approves(reviewing[r], d)
  BY DEF BeginElevationReview, Approves
<1>6. reviewing' = [reviewing EXCEPT ![r] = row]
  BY <1>1
<1> HIDE DEF row
<1>7. ElevationTypeOK'
  BY <1>2, <1>6 DEF BeginElevationReview, ElevationInv, ElevationTypeOK
<1> QED BY <1>2, <1>4, <1>5, <1>6, <1>7, ReviewMoves DEF BeginElevationReview

LEMMA PermissionIsGranted ==
  ASSUME ElevationInv, NEW r \in Requests, GrantPermission(r)
  PROVE  ElevationInv'
<1>1. PICK e \in Elevations : e = reviewing[r].of
  BY DEF GrantPermission, ElevationInv, ElevationTypeOK, Sound
<1>2. /\ reviewing[r] \in Reviewings /\ reviewing[r].at = "grant" /\ reviewing[r].to = "APPROVED"
      /\ reviewing[r].fresh => elevation[e].status = "PENDING"
  BY <1>1 DEF GrantPermission, ElevationInv, ElevationTypeOK, Sound
<1>3. PICK row \in Reviewings :
        /\ row.at = "closeElevation" /\ row.of = e /\ row.to = "APPROVED" /\ row.fresh = reviewing[r].fresh
        /\ reviewing' = [reviewing EXCEPT ![r] = row]
  <2> DEFINE next == [reviewing[r] EXCEPT !.at = "closeElevation"]
  <2>1. /\ next \in Reviewings
        /\ next.at = "closeElevation" /\ next.of = e /\ next.to = "APPROVED" /\ next.fresh = reviewing[r].fresh
    BY <1>1, <1>2 DEF Reviewings
  <2>2. reviewing' = [reviewing EXCEPT ![r] = next]
    BY DEF GrantPermission
  <2> HIDE DEF next
  <2> QED BY <2>1, <2>2
<1>4. grants' \in [Elevations -> Nat] /\ \A d \in Elevations : grants'[d] = IF d = e THEN grants[d] + 1 ELSE grants[d]
  BY <1>1 DEF GrantPermission, ElevationInv, ElevationTypeOK
<1>5. ElevationTypeOK'
  BY <1>3, <1>4 DEF GrantPermission, ElevationInv, ElevationTypeOK
<1>6. Sound(row)'
  BY <1>2, <1>3 DEF GrantPermission, Sound
<1>7. \A d \in Elevations :
        \/ grants'[d] = grants[d] /\ (Approves(row, d) <=> Approves(reviewing[r], d))
        \/ grants'[d] = grants[d] + 1 /\ Approves(row, d) /\ ~Approves(reviewing[r], d)
  BY <1>2, <1>3, <1>4 DEF Approves
<1> QED BY <1>3, <1>5, <1>6, <1>7, ReviewMoves DEF GrantPermission

LEMMA ReviewStops == ASSUME ElevationInv, NEW r \in Requests, StopHalfReviewed(r) PROVE ElevationInv'
<1>1. halfReviewed' = halfReviewed + 1 /\ halfReviewed' \in 0 .. MaxElevationFaults /\ halfReviewed' # 0
  BY ElevationAssumption DEF StopHalfReviewed, ElevationInv, ElevationTypeOK
<1>2. reviewing' \in [Requests -> Reviewings]
  BY NotReviewingRow DEF StopHalfReviewed, ElevationInv, ElevationTypeOK
<1>3. \A s \in Requests : Sound(reviewing[s])'
  BY NotReviewingRow DEF StopHalfReviewed, ElevationInv, ElevationTypeOK, Sound
<1> QED BY <1>1, <1>2, <1>3 DEF StopHalfReviewed, ElevationInv, ElevationTypeOK

\* A review that is over has outdated those of the same row, and no other.
LEMMA OthersAreClosed ==
  ASSUME ElevationInv, NEW r \in Requests, reviewing' = Closed(r)
  PROVE  /\ reviewing' \in [Requests -> Reviewings] /\ reviewing'[r] = NotReviewing
         /\ \A s \in Requests : s # r =>
              /\ reviewing'[s].at = reviewing[s].at /\ reviewing'[s].of = reviewing[s].of
              /\ reviewing'[s].to = reviewing[s].to /\ reviewing'[s].made = reviewing[s].made
              /\ reviewing'[s].fresh => reviewing[s].fresh /\ reviewing[s].of # reviewing[r].of
<1>1. reviewing'[r] = NotReviewing
  BY DEF Closed
<1>2. \A s \in Requests : s # r =>
        reviewing'[s] = IF reviewing[s].of = reviewing[r].of THEN [reviewing[s] EXCEPT !.fresh = FALSE] ELSE reviewing[s]
  BY DEF Closed
<1>3. \A s \in Requests : reviewing[s] \in Reviewings
  BY DEF ElevationInv, ElevationTypeOK
<1>4. \A s \in Requests : reviewing'[s] \in Reviewings
  <2>1. \A row \in Reviewings : [row EXCEPT !.fresh = FALSE] \in Reviewings
    BY DEF Reviewings
  <2> QED BY <1>1, <1>2, <1>3, <2>1, NotReviewingRow
<1>5. reviewing' \in [Requests -> Reviewings]
  BY <1>4 DEF Closed
<1>6. \A s \in Requests : s # r =>
              /\ reviewing'[s].at = reviewing[s].at /\ reviewing'[s].of = reviewing[s].of
              /\ reviewing'[s].to = reviewing[s].to /\ reviewing'[s].made = reviewing[s].made
              /\ reviewing'[s].fresh => reviewing[s].fresh /\ reviewing[s].of # reviewing[r].of
  BY <1>2, <1>3 DEF Reviewings
<1> QED BY <1>1, <1>5, <1>6

LEMMA AccessIsClosed == ASSUME ElevationInv, NEW r \in Requests, CloseAccessReview(r) PROVE ElevationInv'
<1>1. /\ reviewing' \in [Requests -> Reviewings] /\ reviewing'[r] = NotReviewing
      /\ \A s \in Requests : s # r =>
           /\ reviewing'[s].at = reviewing[s].at /\ reviewing'[s].of = reviewing[s].of
           /\ reviewing'[s].to = reviewing[s].to /\ reviewing'[s].made = reviewing[s].made
           /\ reviewing'[s].fresh => reviewing[s].fresh /\ reviewing[s].of # reviewing[r].of
  BY OthersAreClosed DEF CloseAccessReview
<1>2. reviewing[r] \in Reviewings /\ reviewing[r].at = "closeAccess" /\ Sound(reviewing[r])
  BY DEF CloseAccessReview, ElevationInv, ElevationTypeOK
<1>3. /\ accessRequest' \in [status : Statuses, result : Elevations \cup {NoElevation}]
      /\ accessRequest'.status = "APPROVED" <=> accessRequest'.result # NoElevation
  BY <1>2 DEF CloseAccessReview, Reviewings, Sound
<1>4. ElevationTypeOK'
  BY <1>1, <1>3 DEF CloseAccessReview, ElevationInv, ElevationTypeOK
<1>5. \A s \in Requests : Sound(reviewing[s])'
  BY <1>1, NotReviewingRow DEF CloseAccessReview, ElevationInv, Sound
<1>6. ASSUME halfReviewed = 0, ~elevationOutdated, NEW e \in Elevations PROVE GrantsMatch(e)'
  <2>1. \A s \in Requests : Approves(reviewing'[s], e) <=> Approves(reviewing[s], e)
    BY <1>1, <1>2, NotReviewingRow DEF Approves
  <2>2. Closing(e)' = Closing(e)
    BY <2>1 DEF Closing, Approves
  <2> QED BY <1>6, <2>2 DEF CloseAccessReview, ElevationInv, GrantsMatch, GrantDue
<1> QED BY <1>3, <1>4, <1>5, <1>6 DEF CloseAccessReview, ElevationInv

LEMMA ElevationIsClosed == ASSUME ElevationInv, NEW r \in Requests, CloseElevationReview(r) PROVE ElevationInv'
<1>1. /\ reviewing' \in [Requests -> Reviewings] /\ reviewing'[r] = NotReviewing
      /\ \A s \in Requests : s # r =>
           /\ reviewing'[s].at = reviewing[s].at /\ reviewing'[s].of = reviewing[s].of
           /\ reviewing'[s].to = reviewing[s].to /\ reviewing'[s].made = reviewing[s].made
           /\ reviewing'[s].fresh => reviewing[s].fresh /\ reviewing[s].of # reviewing[r].of
  BY OthersAreClosed DEF CloseElevationReview
<1>2. /\ reviewing[r] \in Reviewings /\ reviewing[r].at = "closeElevation" /\ reviewing[r].of \in Elevations
      /\ reviewing[r].fresh => elevation[reviewing[r].of].status = "PENDING"
  BY DEF CloseElevationReview, ElevationInv, ElevationTypeOK, Sound
<1>3. /\ elevation' \in [Elevations -> [status : Statuses, requestedBy : Admins \cup {NoAdmin}]]
      /\ elevation'[reviewing[r].of].status = reviewing[r].to
      /\ \A e \in Elevations : e # reviewing[r].of => elevation'[e] = elevation[e]
  BY <1>2 DEF CloseElevationReview, DecidedStatus, ElevationInv, ElevationTypeOK, Reviewings
<1>4. ElevationTypeOK'
  BY <1>1, <1>3 DEF CloseElevationReview, ElevationInv, ElevationTypeOK
<1>5. \A s \in Requests : Sound(reviewing[s])'
  <2> SUFFICES ASSUME NEW s \in Requests PROVE Sound(reviewing[s])'
    OBVIOUS
  <2>1. CASE s = r
    BY <1>1, <2>1, NotReviewingRow DEF NotReviewing, Reviewing, Sound
  <2>2. CASE s # r
    BY <1>1, <1>3, <2>2 DEF ElevationInv, Sound
  <2> QED BY <2>1, <2>2
<1>6. ASSUME halfReviewed = 0, ~elevationOutdated, reviewing[r].fresh, NEW e \in Elevations PROVE GrantsMatch(e)'
  <2>1. grants[e] = Cardinality(Closing(e)) + GrantDue(elevation[e].status) /\ grants'[e] = grants[e]
    BY <1>6 DEF CloseElevationReview, ElevationInv, GrantsMatch
  <2>2. /\ Cardinality(Closing(e)) \in Nat /\ Cardinality(Closing(e)') \in Nat
        /\ ~Approves(reviewing[r], e) => Cardinality(Closing(e)') = Cardinality(Closing(e))
        /\ Approves(reviewing[r], e) => Cardinality(Closing(e)') = Cardinality(Closing(e)) - 1
    <3>1. \A s \in Requests : s # r => (Approves(reviewing'[s], e) <=> Approves(reviewing[s], e))
      BY <1>1 DEF Approves
    <3>2. ElevationTypeOK /\ ~Approves(NotReviewing, e)
      BY NotReviewingRow DEF ElevationInv
    <3> QED BY <1>1, <3>1, <3>2, ClosingCounts
  <2>3. CASE e # reviewing[r].of
    <3>1. ~Approves(reviewing[r], e) /\ elevation'[e] = elevation[e]
      BY <1>3, <2>3 DEF Approves
    <3> QED BY <2>1, <2>2, <3>1 DEF GrantsMatch
  <2>4. CASE e = reviewing[r].of
    <3>1. GrantDue(elevation[e].status) = 0
      BY <1>2, <1>6, <2>4 DEF GrantDue
    <3>2. CASE reviewing[r].to = "APPROVED"
      <4>1. Approves(reviewing[r], e) /\ GrantDue(elevation'[e].status) = 1
        BY <1>2, <1>3, <2>4, <3>2 DEF Approves, GrantDue
      <4> QED BY <2>1, <2>2, <3>1, <4>1 DEF GrantsMatch
    <3>3. CASE reviewing[r].to # "APPROVED"
      <4>1. ~Approves(reviewing[r], e) /\ GrantDue(elevation'[e].status) = 0
        BY <1>3, <2>4, <3>3 DEF Approves, GrantDue
      <4> QED BY <2>1, <2>2, <3>1, <4>1 DEF GrantsMatch
    <3> QED BY <3>2, <3>3
  <2> QED BY <2>3, <2>4
<1>7. ~elevationOutdated' => ~elevationOutdated /\ reviewing[r].fresh
  BY DEF CloseElevationReview
<1>8. halfReviewed' = halfReviewed /\ accessRequest' = accessRequest
  BY DEF CloseElevationReview
<1> QED BY <1>4, <1>5, <1>6, <1>7, <1>8 DEF ElevationInv

LEMMA ElevationInductive == ElevationInv /\ [ElevationNext]_elevationVars => ElevationInv'
<1> SUFFICES ASSUME ElevationInv, [ElevationNext]_elevationVars PROVE ElevationInv'
  OBVIOUS
<1>1. CASE UNCHANGED elevationVars
  BY <1>1 DEF elevationVars, ElevationInv, ElevationTypeOK, Sound, GrantsMatch, Closing, Approves, GrantDue
<1>2. CASE ElevationNext
  BY <1>2, RequestsAreMade, AccessReviewBegins, AccessIsElevated, ElevationReviewBegins, PermissionIsGranted,
     ReviewStops, AccessIsClosed, ElevationIsClosed DEF ElevationNext
<1> QED BY <1>1, <1>2

\* With no review in progress an elevation has its one grant if it was approved
\* and none otherwise, for any numbers of administrators, requests and rows, unless
\* a review stopped half way or overwrote another's decision.
THEOREM ApprovalsAreGranted == ElevationSpec => []ApprovedIsGranted
<1>1. ElevationInv => ApprovedIsGranted
  <2> SUFFICES ASSUME ElevationInv, AtRest(reviewing), halfReviewed = 0, ~elevationOutdated, NEW e \in Elevations
               PROVE  /\ grants[e] = IF elevation[e].status = "APPROVED" THEN 1 ELSE 0
                      /\ accessRequest.status = "APPROVED" <=> accessRequest.result # NoElevation
    BY DEF ApprovedIsGranted, ElevationInv
  <2>1. Closing(e) = {}
    BY DEF AtRest, Closing, Approves
  <2> QED BY <2>1, FS_EmptySet DEF ElevationInv, GrantsMatch, GrantDue
<1> QED BY <1>1, ElevationInductive, ElevationInitial, PTL DEF ElevationSpec

----------------------------------------------------------------------------
(* The second factor.  A request that has read the row as it still is will *)
(* write back a part of the list, or new codes for a factor that is there. *)

Fitting(row) ==
  /\ row.at = "spend" => row.issue <= issued
  /\ ~factorOutdated /\ row.fresh =>
       /\ row.at = "spend" => factor.enabled /\ row.issue = factor.issue /\ row.left \subseteq factor.left
       /\ row.at = "apply" => factor.enabled

FactorInv ==
  /\ FactorTypeOK /\ FactorIsWhole /\ factor.issue <= issued
  /\ \A i \in 0 .. MaxIssues, c \in Codes : <<i, c>> \in spent => i <= issued
  /\ \A r \in Requests : Fitting(proving[r])

LEMMA ProvingRow ==
  /\ NotProving \in Provings /\ NotProving.at = "idle"
  /\ \A step \in {"idle", "confirm", "spend", "apply", "request"}, goal \in Purposes :
       Proving(step, goal) \in Provings /\ Proving(step, goal).at = step
<1>1. 0 \in 0 .. MaxIssues
  BY FactorAssumption
<1> QED BY <1>1 DEF NotProving, Proving, Provings, Purposes

LEMMA FactorInitial == FactorInit => FactorInv
<1> SUFFICES ASSUME FactorInit PROVE FactorInv
  OBVIOUS
<1>1. 0 \in 0 .. MaxIssues
  BY FactorAssumption
<1>2. FactorTypeOK
  BY <1>1, ProvingRow DEF FactorInit, FactorTypeOK, Factors, NoFactor
<1>3. FactorIsWhole
  BY DEF FactorInit, FactorIsWhole, NoFactor
<1>4. \A r \in Requests : Fitting(proving[r])
  BY ProvingRow DEF FactorInit, Fitting
<1> QED BY <1>2, <1>3, <1>4 DEF FactorInit, FactorInv, NoFactor

\* A request moves on, and neither the row nor the histories change.
LEMMA FactorStands ==
  ASSUME FactorInv, NEW r \in Requests, NEW row \in Provings, Fitting(row),
         proving' = [proving EXCEPT ![r] = row], resets' \in Nat,
         UNCHANGED <<factor, issued, spent, factorOutdated>>
  PROVE  FactorInv'
<1>1. FactorTypeOK'
  BY DEF FactorInv, FactorTypeOK
<1>2. \A s \in Requests : Fitting(proving[s])'
  BY DEF FactorInv, FactorTypeOK, Fitting
<1> QED BY <1>1, <1>2 DEF FactorInv, FactorIsWhole

\* The row is written: only requests at rest, and the writer, have a reading that holds.
LEMMA FactorWritten ==
  ASSUME FactorInv, NEW r \in Requests, NEW row \in Provings, proving' = Overwritten(proving, r, row),
         issued' \in 0 .. MaxIssues, issued' >= issued, Fitting(row)'
  PROVE  proving' \in [Requests -> Provings] /\ \A s \in Requests : Fitting(proving[s])'
<1>1. \A s \in Requests : proving[s] \in Provings /\ Fitting(proving[s])
  BY DEF FactorInv, FactorTypeOK
<1>2. \A s \in Requests : [proving[s] EXCEPT !.fresh = (proving[s].at = "idle")] \in Provings
  BY <1>1 DEF Provings
<1>3. /\ proving' \in [Requests -> Provings] /\ proving'[r] = row
      /\ \A s \in Requests : s # r => proving'[s] = [proving[s] EXCEPT !.fresh = (proving[s].at = "idle")]
  BY <1>2 DEF Overwritten, Outdated
<1>4. ASSUME NEW s \in Requests, s # r PROVE Fitting(proving[s])'
  <2>1. /\ proving'[s].at = proving[s].at /\ proving'[s].issue = proving[s].issue
        /\ proving'[s].fresh => proving[s].at = "idle"
        /\ proving[s].issue \in Int
    BY <1>1, <1>3, <1>4 DEF Provings
  <2>2. issued \in Int /\ issued' \in Int
    BY DEF FactorInv, FactorTypeOK
  <2> QED BY <1>1, <2>1, <2>2 DEF Fitting
<1> QED BY <1>3, <1>4

LEMMA FactorReads ==
  ASSUME FactorInv, NEW r \in Requests
  PROVE  /\ ReadPending(r) => FactorInv'
         /\ FindNoReset(r) => FactorInv'
         /\ \A goal \in Purposes : AcceptTotp(r, goal) => FactorInv'
<1>1. ASSUME NEW step \in {"confirm", "request", "apply"}, NEW goal \in Purposes, Reads(r, step, goal),
             step = "apply" => factor.enabled
      PROVE  FactorInv'
  <2>1. Proving(step, goal) \in Provings /\ Fitting(Proving(step, goal))
    BY <1>1, ProvingRow DEF Fitting
  <2>2. proving' = [proving EXCEPT ![r] = Proving(step, goal)] /\ resets' \in Nat
    BY <1>1 DEF Reads, FactorInv, FactorTypeOK
  <2> QED BY <1>1, <2>1, <2>2, FactorStands DEF Reads
<1>2. "proceed" \in Purposes
  BY DEF Purposes
<1> QED BY <1>1, <1>2 DEF ReadPending, FindNoReset, AcceptTotp, Configured

LEMMA RecoveryIsAccepted ==
  ASSUME FactorInv, NEW r \in Requests, NEW goal \in Purposes, NEW code \in Codes, AcceptRecovery(r, goal, code)
  PROVE  FactorInv'
<1> DEFINE row == [Proving("spend", goal) EXCEPT !.issue = factor.issue, !.left = factor.left \ {code}]
<1>1. row \in Provings /\ row.at = "spend" /\ row.issue = factor.issue /\ row.left \subseteq factor.left
  <2>1. Proving("spend", goal) \in Provings /\ Proving("spend", goal).at = "spend"
    BY ProvingRow
  <2>2. factor.issue \in 0 .. MaxIssues /\ factor.left \in SUBSET Codes
    BY DEF FactorInv, FactorTypeOK, Factors
  <2> QED BY <2>1, <2>2 DEF Provings
<1>2. proving' = [proving EXCEPT ![r] = row] /\ resets' \in Nat
  BY DEF AcceptRecovery, FactorInv, FactorTypeOK
<1> HIDE DEF row
<1>3. Fitting(row)
  BY <1>1 DEF AcceptRecovery, Configured, Fitting, FactorInv
<1> QED BY <1>1, <1>2, <1>3, FactorStands DEF AcceptRecovery

\* What is left of the list is written back.
LEMMA SpentIsWritten == ASSUME FactorInv, NEW r \in Requests, WriteSpent(r) PROVE FactorInv'
<1>1. proving[r] \in Provings /\ proving[r].at = "spend" /\ Fitting(proving[r])
  BY DEF WriteSpent, FactorInv, FactorTypeOK
<1>2. PICK row \in Provings : /\ row.at \in {"idle", "apply"}
                              /\ proving' = Overwritten(proving, r, row)
  <2>1. Proving("apply", proving[r].goal) \in Provings /\ Proving("apply", proving[r].goal).at = "apply"
    BY <1>1, ProvingRow DEF Provings
  <2> QED BY <2>1, ProvingRow DEF WriteSpent, WriteList, WriteFactor
<1>3. /\ factor' \in Factors /\ factor'.enabled = factor.enabled
      /\ factor'.issue = proving[r].issue /\ factor'.left = proving[r].left
  BY <1>1 DEF WriteSpent, WriteList, WriteFactor, FactorInv, FactorTypeOK, Factors, Provings
<1>4. /\ resets' = resets /\ issued' = issued
      /\ factorOutdated' = (factorOutdated \/ ~proving[r].fresh)
      /\ spent' = spent \cup ({proving[r].issue} \X (Codes \ proving[r].left))
  BY DEF WriteSpent, WriteList, WriteFactor
<1>5. Fitting(row)'
  BY <1>1, <1>2, <1>3, <1>4 DEF Fitting
<1>6. issued \in 0 .. MaxIssues /\ issued >= issued
  BY DEF FactorInv, FactorTypeOK
<1>7. proving' \in [Requests -> Provings] /\ \A s \in Requests : Fitting(proving[s])'
  BY <1>2, <1>4, <1>5, <1>6, FactorWritten
<1>8. FactorTypeOK'
  <2>1. spent' \in SUBSET ((0 .. MaxIssues) \X Codes)
    BY <1>1, <1>4 DEF FactorInv, FactorTypeOK, Provings
  <2>2. factorOutdated' \in BOOLEAN
    BY <1>1, <1>4 DEF FactorInv, FactorTypeOK, Provings
  <2> QED BY <1>3, <1>4, <1>6, <1>7, <2>1, <2>2 DEF FactorInv, FactorTypeOK
<1>9. FactorIsWhole'
  <2> SUFFICES ASSUME ~factorOutdated'
               PROVE  /\ factor'.left # {} => factor'.enabled /\ factor'.issue = issued'
                      /\ \A code \in factor'.left : <<factor'.issue, code>> \notin spent'
    BY DEF FactorIsWhole
  <2>1. ~factorOutdated /\ proving[r].fresh
    BY <1>4
  <2>2. factor.enabled /\ proving[r].issue = factor.issue /\ proving[r].left \subseteq factor.left
    BY <1>1, <2>1 DEF Fitting
  <2>3. /\ factor.left # {} => factor.issue = issued
        /\ \A code \in factor.left : <<factor.issue, code>> \notin spent
    BY <2>1 DEF FactorInv, FactorIsWhole
  <2> QED BY <1>3, <1>4, <2>2, <2>3
<1>10. \A i \in 0 .. MaxIssues, c \in Codes : <<i, c>> \in spent' => i <= issued'
  BY <1>1, <1>4 DEF FactorInv, Fitting
<1> QED BY <1>1, <1>3, <1>4, <1>7, <1>8, <1>9, <1>10 DEF FactorInv, Fitting

\* A factor gets the codes of a new issue.
LEMMA CodesAreIssued ==
  ASSUME FactorInv, NEW r \in Requests, proving' = Overwritten(proving, r, NotProving), Issue,
         factor' \in Factors, factor'.issue = issued + 1,
         factorOutdated' \in BOOLEAN, ~factorOutdated' => ~factorOutdated /\ factor'.enabled,
         UNCHANGED <<resets, spent>>
  PROVE  FactorInv'
<1>1. issued \in 0 .. MaxIssues /\ issued' \in 0 .. MaxIssues /\ issued' = issued + 1 /\ issued' >= issued
  BY FactorAssumption DEF Issue, FactorInv, FactorTypeOK
<1>2. Fitting(NotProving)'
  BY ProvingRow DEF Fitting
<1>3. proving' \in [Requests -> Provings] /\ \A s \in Requests : Fitting(proving[s])'
  BY <1>1, <1>2, ProvingRow, FactorWritten
<1>4. FactorTypeOK'
  BY <1>1, <1>3 DEF FactorInv, FactorTypeOK
<1>5. \A c \in Codes : <<issued + 1, c>> \notin spent
  BY <1>1 DEF FactorInv
<1>6. FactorIsWhole'
  BY <1>1, <1>5 DEF FactorIsWhole, Factors
<1>7. \A i \in 0 .. MaxIssues, c \in Codes : <<i, c>> \in spent' => i <= issued'
  BY <1>1 DEF FactorInv
<1> QED BY <1>1, <1>3, <1>4, <1>6, <1>7 DEF FactorInv

LEMMA NewCodesAreWritten ==
  ASSUME FactorInv, NEW r \in Requests, WriteConfirmed(r) \/ WriteRegenerated(r)
  PROVE  FactorInv'
<1>1. issued + 1 \in 0 .. MaxIssues
  BY FactorAssumption DEF WriteConfirmed, WriteRegenerated, Issue, FactorInv, FactorTypeOK
<1>2. CASE WriteConfirmed(r)
  <2>1. factor' \in Factors /\ factor'.issue = issued + 1 /\ factor'.enabled
    BY <1>1, <1>2 DEF WriteConfirmed, WriteFactor, WithNewCodes, FactorInv, FactorTypeOK, Factors
  <2> QED BY <1>2, <2>1, CodesAreIssued DEF WriteConfirmed, WriteFactor, FactorInv, FactorTypeOK
<1>3. CASE WriteRegenerated(r)
  <2>1. factor' \in Factors /\ factor'.issue = issued + 1 /\ factor'.enabled = factor.enabled
    BY <1>1, <1>3 DEF WriteRegenerated, WriteList, WriteFactor, WithNewCodes, FactorInv, FactorTypeOK, Factors
  <2>2. factorOutdated' = (factorOutdated \/ ~proving[r].fresh)
    BY <1>3 DEF WriteRegenerated, WriteList
  <2>3. proving[r].fresh \in BOOLEAN /\ factorOutdated \in BOOLEAN
    BY DEF FactorInv, FactorTypeOK, Provings
  <2>4. ~factorOutdated' => ~factorOutdated /\ factor'.enabled
    BY <1>3, <2>1, <2>2 DEF WriteRegenerated, FactorInv, Fitting
  <2> QED BY <1>3, <2>1, <2>2, <2>3, <2>4, CodesAreIssued DEF WriteRegenerated, WriteList, WriteFactor
<1> QED BY <1>2, <1>3

\* The columns are cleared: who has read them before has read something else.
LEMMA FactorIsCleared ==
  ASSUME FactorInv, factor' = Cleared, proving' \in [Requests -> Provings],
         \A s \in Requests : Fitting(proving[s])', resets' \in Nat, UNCHANGED <<issued, spent, factorOutdated>>
  PROVE  FactorInv'
<1>1. factor' \in Factors /\ factor'.left = {} /\ factor'.issue = factor.issue
  BY DEF Cleared, NoFactor, FactorInv, FactorTypeOK, Factors
<1>2. FactorIsWhole'
  BY <1>1 DEF FactorIsWhole
<1> QED BY <1>1, <1>2 DEF FactorInv, FactorTypeOK

LEMMA FactorIsDisabled == ASSUME FactorInv, NEW r \in Requests, WriteDisabled(r) PROVE FactorInv'
<1>1. issued' = issued /\ issued \in 0 .. MaxIssues
  BY DEF WriteDisabled, FactorInv, FactorTypeOK
<1>2. Fitting(NotProving)'
  BY ProvingRow DEF Fitting
<1>3. proving' \in [Requests -> Provings] /\ \A s \in Requests : Fitting(proving[s])'
  BY <1>1, <1>2, ProvingRow, FactorWritten DEF WriteDisabled, WriteFactor
<1> QED BY <1>3, FactorIsCleared DEF WriteDisabled, WriteFactor, FactorInv, FactorTypeOK

LEMMA ResetIsApproved == ASSUME FactorInv, ApproveReset PROVE FactorInv'
<1>1. \A s \in Requests : proving[s] \in Provings /\ Fitting(proving[s])
  BY DEF FactorInv, FactorTypeOK
<1>2. \A s \in Requests : [proving[s] EXCEPT !.fresh = (proving[s].at = "idle")] \in Provings
  BY <1>1 DEF Provings
<1>3. /\ proving' \in [Requests -> Provings]
      /\ \A s \in Requests : proving'[s] = [proving[s] EXCEPT !.fresh = (proving[s].at = "idle")]
  BY <1>2 DEF ApproveReset, Outdated
<1>4. \A s \in Requests : Fitting(proving[s])'
  <2> SUFFICES ASSUME NEW s \in Requests PROVE Fitting(proving[s])'
    OBVIOUS
  <2>1. /\ proving'[s].at = proving[s].at /\ proving'[s].issue = proving[s].issue
        /\ proving'[s].fresh => proving[s].at = "idle"
    BY <1>1, <1>3 DEF Provings
  <2> QED BY <1>1, <2>1 DEF ApproveReset, Fitting
<1>5. resets' \in Nat
  BY DEF ApproveReset, FactorInv, FactorTypeOK
<1> QED BY <1>3, <1>4, <1>5, FactorIsCleared DEF ApproveReset

LEMMA FactorRowsElsewhere ==
  ASSUME FactorInv
  PROVE  /\ BeginSetup => FactorInv'
         /\ DenyReset => FactorInv'
         /\ \A r \in Requests : InsertReset(r) => FactorInv'
<1>1. ASSUME BeginSetup PROVE FactorInv'
  <2>1. /\ factor' \in Factors /\ factor'.enabled = factor.enabled
        /\ factor'.issue = factor.issue /\ factor'.left = factor.left
    BY <1>1 DEF BeginSetup, FactorInv, FactorTypeOK, Factors
  <2> QED BY <1>1, <2>1 DEF BeginSetup, FactorInv, FactorTypeOK, FactorIsWhole, Fitting
<1>2. ASSUME DenyReset PROVE FactorInv'
  <2>1. resets' \in Nat
    BY <1>2 DEF DenyReset, FactorInv, FactorTypeOK
  <2> QED BY <1>2, <2>1 DEF DenyReset, FactorInv, FactorTypeOK, FactorIsWhole, Fitting
<1>3. ASSUME NEW r \in Requests, InsertReset(r) PROVE FactorInv'
  <2>1. Fitting(NotProving) /\ resets' \in Nat
    BY <1>3, ProvingRow DEF Fitting, InsertReset, FactorInv, FactorTypeOK
  <2> QED BY <1>3, <2>1, ProvingRow, FactorStands DEF InsertReset
<1> QED BY <1>1, <1>2, <1>3

LEMMA FactorInductive == FactorInv /\ [FactorNext]_factorVars => FactorInv'
<1> SUFFICES ASSUME FactorInv, [FactorNext]_factorVars PROVE FactorInv'
  OBVIOUS
<1>1. CASE UNCHANGED factorVars
  BY <1>1 DEF factorVars, FactorInv, FactorTypeOK, FactorIsWhole, Fitting
<1>2. CASE FactorNext
  BY <1>2, FactorReads, RecoveryIsAccepted, SpentIsWritten, NewCodesAreWritten, FactorIsDisabled,
     ResetIsApproved, FactorRowsElsewhere DEF FactorNext
<1> QED BY <1>1, <1>2

\* Whatever requests overlap, however many codes there are and however often new ones
\* are issued: until a list is written from an outdated row, codes that were accepted or
\* withdrawn never come back, and there are none without a factor.
THEOREM FactorStaysWhole == FactorSpec => []FactorIsWhole
<1>1. FactorInv => FactorIsWhole
  BY DEF FactorInv
<1> QED BY <1>1, FactorInductive, FactorInitial, PTL DEF FactorSpec

----------------------------------------------------------------------------
(* Managed devices.  What a purge has found due is due until its row is     *)
(* written; one request works with the token; a job is about to follow its  *)
(* command.                                                                 *)

ServingRows == [at : {"idle", "enrol", "mark", "retire", "restore", "purge", "patch", "job"},
                device : Devices \cup {NoDevice}, fresh : BOOLEAN]

Holds(r) ==
  /\ serving[r].at \in {"retire", "restore", "purge", "patch", "job"} => serving[r].device \in Devices
  /\ serving[r].at = "purge" /\ serving[r].fresh => device[serving[r].device] \in {"due", "purged"}
  /\ serving[r].at = "job" => serving[r].device \in patching

NoneEarly == \A x \in early : x.was = "retired" /\ ~x.fresh

OneEnrols ==
  ~shared =>
    /\ \A r, s \in Requests : Enrolling(r) /\ Enrolling(s) => r = s
    /\ halts = 0 =>
         /\ \A r \in Requests : serving[r].at = "enrol" => enrolled = {}
         /\ enrolled # {} => token = "used" \/ \E r \in Requests : serving[r].at = "mark"
         /\ \A d, e \in enrolled : d = e

JobsFollow ==
  /\ patchJobs \subseteq patching
  /\ halts = 0 => \A d \in patching \ patchJobs :
       \E r \in Requests : serving[r].at = "job" /\ serving[r].device = d

DevicesInv ==
  /\ DevicesTypeOK /\ NoneEarly /\ OneEnrols /\ JobsFollow
  /\ \A r \in Requests : Holds(r)

LEMMA ServingRow ==
  /\ NotServing \in ServingRows /\ NotServing.at = "idle"
  /\ \A step \in {"idle", "enrol", "mark", "retire", "restore", "purge", "patch", "job"},
        d \in Devices \cup {NoDevice} :
       /\ Serves(step, d) \in ServingRows
       /\ Serves(step, d).at = step /\ Serves(step, d).device = d /\ Serves(step, d).fresh = TRUE
BY DEF NotServing, Serves, ServingRows

LEMMA IdleRow == NotServing \in ServingRows /\ NotServing.at = "idle"
BY ServingRow

LEMMA ServingTyped == DevicesTypeOK => serving \in [Requests -> ServingRows]
BY DEF DevicesTypeOK, ServingRows

LEMMA DevicesInitial == DevicesInit => DevicesInv
<1> SUFFICES ASSUME DevicesInit PROVE DevicesInv
  OBVIOUS
<1>1. serving \in [Requests -> ServingRows] /\ \A r \in Requests : serving[r].at = "idle"
  BY ServingRow DEF DevicesInit
<1>2. DevicesTypeOK
  <2>1. 0 \in 0 .. MaxHalts
    BY DevicesAssumption
  <2>2. device \in [Devices -> DeviceStates]
    BY DEF DevicesInit, DeviceStates
  <2> QED BY <1>1, <2>1, <2>2 DEF DevicesInit, DevicesTypeOK, ServingRows
<1> QED BY <1>1, <1>2 DEF DevicesInit, DevicesInv, NoneEarly, OneEnrols, Enrolling, JobsFollow, Holds

\* A request that neither enrols nor inserts a job leaves both as they are.
LEMMA WorkElsewhere ==
  ASSUME DevicesInv, NEW r \in Requests,
         serving[r].at \notin {"enrol", "mark", "job"}, serving'[r].at \notin {"enrol", "mark", "job"},
         \A s \in Requests : s # r => serving'[s].at = serving[s].at /\ serving'[s].device = serving[s].device,
         UNCHANGED <<patching, patchJobs, token, enrolled, shared, halts>>
  PROVE  OneEnrols' /\ JobsFollow'
<1>1. \A s \in Requests : \A step \in {"enrol", "mark", "job"} : serving'[s].at = step <=> serving[s].at = step
  OBVIOUS
<1>2. OneEnrols'
  BY <1>1 DEF DevicesInv, OneEnrols, Enrolling
<1>3. JobsFollow'
  BY <1>1 DEF DevicesInv, JobsFollow
<1> QED BY <1>2, <1>3

LEMMA DeviceIsFound ==
  ASSUME DevicesInv, NEW r \in Requests, NEW d \in Devices,
         NEW step \in {"retire", "restore", "purge", "patch"}, NEW states, FindsDevice(r, d, states, step),
         step = "purge" => device[d] = "due"
  PROVE  DevicesInv'
<1>1. /\ serving' = [serving EXCEPT ![r] = Serves(step, d)] /\ serving[r].at = "idle"
      /\ UNCHANGED <<device, patching, patchJobs, token, enrolled, shared, halts, early>>
  BY DEF FindsDevice, Begins, recordVars, tokenVars
<1>2. serving \in [Requests -> ServingRows]
  BY ServingTyped DEF DevicesInv
<1>3. Serves(step, d) \in ServingRows /\ Serves(step, d).at = step /\ Serves(step, d).device = d
  BY ServingRow
<1>4. serving' \in [Requests -> ServingRows] /\ serving'[r] = Serves(step, d)
      /\ \A s \in Requests : s # r => serving'[s] = serving[s]
  BY <1>1, <1>2, <1>3
<1>5. OneEnrols' /\ JobsFollow'
  BY <1>1, <1>3, <1>4, WorkElsewhere
<1>6. DevicesTypeOK'
  BY <1>1, <1>4 DEF DevicesInv, DevicesTypeOK, ServingRows
<1>7. \A s \in Requests : Holds(s)'
  BY <1>1, <1>3, <1>4 DEF DevicesInv, Holds
<1> QED BY <1>1, <1>5, <1>6, <1>7 DEF DevicesInv, NoneEarly

\* The row of a device is written, and who has read it before has read something else.
LEMMA DeviceIsWritten ==
  ASSUME DevicesInv, NEW r \in Requests, NEW value \in DeviceStates,
         serving[r].at \in {"retire", "restore", "purge"}, Rewrites(r, serving[r].device, value),
         early' \in SUBSET Readings, NoneEarly',
         UNCHANGED <<patching, patchJobs, token, enrolled, shared, halts>>
  PROVE  DevicesInv'
<1> DEFINE d == serving[r].device
<1>1. serving \in [Requests -> ServingRows] /\ d \in Devices
  BY ServingTyped DEF DevicesInv, Holds
<1>2. \A s \in Requests : [serving[s] EXCEPT !.fresh = @ /\ serving[s].device # d] \in ServingRows
  BY <1>1 DEF ServingRows
<1>3. /\ serving' \in [Requests -> ServingRows] /\ serving'[r] = NotServing
      /\ \A s \in Requests : s # r =>
           /\ serving'[s].at = serving[s].at /\ serving'[s].device = serving[s].device
           /\ serving'[s].fresh => serving[s].fresh /\ serving[s].device # d
  <2>1. /\ serving' \in [Requests -> ServingRows] /\ serving'[r] = NotServing
        /\ \A s \in Requests : s # r =>
             serving'[s] = [serving[s] EXCEPT !.fresh = @ /\ serving[s].device # d]
    BY <1>2, ServingRow DEF Rewrites
  <2> QED BY <1>1, <2>1 DEF ServingRows
<1>4. /\ device' \in [Devices -> DeviceStates]
      /\ \A e \in Devices : e # d => device'[e] = device[e]
  BY <1>1 DEF Rewrites, DevicesInv, DevicesTypeOK
<1>5. OneEnrols' /\ JobsFollow'
  BY <1>3, ServingRow, WorkElsewhere
<1>6. DevicesTypeOK'
  BY <1>3, <1>4 DEF DevicesInv, DevicesTypeOK, ServingRows
<1>7. \A s \in Requests : Holds(s)'
  BY <1>3, <1>4, ServingRow DEF DevicesInv, Holds
<1> QED BY <1>5, <1>6, <1>7 DEF DevicesInv

LEMMA DevicesAreWritten ==
  ASSUME DevicesInv, NEW r \in Requests, WriteRetired(r) \/ WriteRestored(r) \/ DeleteDevice(r)
  PROVE  DevicesInv'
<1>1. serving[r].at \in {"retire", "restore", "purge"}
  BY DEF WriteRetired, WriteRestored, DeleteDevice
<1>2. serving[r] \in ServingRows /\ serving[r].device \in Devices /\ Holds(r)
  BY <1>1, ServingTyped DEF DevicesInv, Holds
<1>3. device[serving[r].device] \in DeviceStates /\ {"retired", "active", "purged"} \subseteq DeviceStates
  BY <1>2 DEF DevicesInv, DevicesTypeOK, DeviceStates
<1>4. CASE WriteRetired(r)
  BY <1>1, <1>3, <1>4, DeviceIsWritten DEF WriteRetired, DevicesInv, DevicesTypeOK, NoneEarly, recordVars, tokenVars
<1>5. CASE WriteRestored(r)
  BY <1>1, <1>3, <1>5, DeviceIsWritten DEF WriteRestored, DevicesInv, DevicesTypeOK, NoneEarly, recordVars, tokenVars
<1>6. CASE DeleteDevice(r)
  <2>1. /\ serving[r].at = "purge"
        /\ early' = early \cup {x \in Readings : /\ Purgeable(serving[r].device)
                                                 /\ x.was = device[serving[r].device]
                                                 /\ x.fresh = serving[r].fresh}
    BY <1>6 DEF DeleteDevice
  <2>2. early' \in SUBSET Readings
    BY <2>1 DEF DevicesInv, DevicesTypeOK
  <2>3. NoneEarly'
    BY <1>2, <2>1 DEF DevicesInv, NoneEarly, Purgeable, Holds, Readings
  <2> QED BY <1>1, <1>3, <1>6, <2>2, <2>3, DeviceIsWritten DEF DeleteDevice, recordVars, tokenVars
<1> QED BY <1>4, <1>5, <1>6

\* Statements that no request is waiting for: a due device stays due or is gone.
LEMMA DevicesChange ==
  ASSUME DevicesInv, device' \in [Devices -> DeviceStates],
         \A d \in Devices : device[d] \in {"due", "purged"} => device'[d] \in {"due", "purged"},
         UNCHANGED <<patching, patchJobs, token, enrolled, shared, serving, halts, early>>
  PROVE  DevicesInv'
<1>1. DevicesTypeOK' /\ NoneEarly' /\ OneEnrols' /\ JobsFollow'
  BY DEF DevicesInv, DevicesTypeOK, NoneEarly, OneEnrols, Enrolling, JobsFollow
<1>2. \A r \in Requests : Holds(r)'
  BY DEF DevicesInv, Holds
<1> QED BY <1>1, <1>2 DEF DevicesInv

LEMMA DevicesAge ==
  ASSUME DevicesInv
  PROVE  /\ \A d \in Devices : CreateDevice(d) => DevicesInv'
         /\ \A d \in Devices : RetentionPasses(d) => DevicesInv'
         /\ \A due \in SUBSET Devices : PurgeExpired(due) => DevicesInv'
<1>1. device \in [Devices -> DeviceStates]
  BY DEF DevicesInv, DevicesTypeOK
<1>2. ASSUME NEW d \in Devices, CreateDevice(d) PROVE DevicesInv'
  <2>1. /\ device' \in [Devices -> DeviceStates]
        /\ \A e \in Devices : device[e] \in {"due", "purged"} => device'[e] \in {"due", "purged"}
    BY <1>1, <1>2 DEF CreateDevice, DeviceStates
  <2> QED BY <1>2, <2>1, DevicesChange DEF CreateDevice, recordVars, tokenVars
<1>3. ASSUME NEW d \in Devices, RetentionPasses(d) PROVE DevicesInv'
  <2>1. /\ device' \in [Devices -> DeviceStates]
        /\ \A e \in Devices : device[e] \in {"due", "purged"} => device'[e] \in {"due", "purged"}
    BY <1>1, <1>3 DEF RetentionPasses, DeviceStates
  <2> QED BY <1>3, <2>1, DevicesChange DEF RetentionPasses, recordVars, tokenVars
<1>4. ASSUME NEW due \in SUBSET Devices, PurgeExpired(due) PROVE DevicesInv'
  <2>1. /\ device' \in [Devices -> DeviceStates]
        /\ \A e \in Devices : device[e] \in {"due", "purged"} => device'[e] \in {"due", "purged"}
    BY <1>1, <1>4 DEF PurgeExpired, DeviceStates
  <2> QED BY <1>4, <2>1, DevicesChange DEF PurgeExpired, recordVars, tokenVars
<1> QED BY <1>2, <1>3, <1>4

----------------------------------------------------------------------------

\* A request is at its next step; what others have read is as it was.
LEMMA RequestMoves ==
  ASSUME DevicesInv, NEW r \in Requests, NEW row \in ServingRows, serving' = [serving EXCEPT ![r] = row],
         row.at \notin {"retire", "restore", "purge", "patch"},
         row.at = "job" => row.device \in Devices /\ row.device \in patching',
         patching \subseteq patching',
         device' \in [Devices -> DeviceStates],
         \A d \in Devices : device[d] \in {"due", "purged"} => device'[d] \in {"due", "purged"}
  PROVE  /\ serving' \in [Requests -> ServingRows] /\ serving'[r] = row
         /\ \A s \in Requests : s # r => serving'[s] = serving[s]
         /\ \A s \in Requests : Holds(s)'
<1>1. /\ serving' \in [Requests -> ServingRows] /\ serving'[r] = row
      /\ \A s \in Requests : s # r => serving'[s] = serving[s]
  BY ServingTyped DEF DevicesInv
<1>2. \A s \in Requests : Holds(s)'
  BY <1>1 DEF DevicesInv, Holds
<1> QED BY <1>1, <1>2

LEMMA TokenIsFound == ASSUME DevicesInv, NEW r \in Requests, FindToken(r) PROVE DevicesInv'
<1>1. /\ serving' = [serving EXCEPT ![r] = Serves("enrol", NoDevice)] /\ serving[r].at = "idle"
      /\ token = "open" /\ shared' = (shared \/ \E s \in Requests : Enrolling(s))
      /\ UNCHANGED <<device, patching, patchJobs, token, enrolled, halts, early>>
  BY DEF FindToken, TokenUsable, Begins, recordVars
<1>2. Serves("enrol", NoDevice) \in ServingRows /\ Serves("enrol", NoDevice).at = "enrol"
  BY ServingRow
<1>3. /\ serving' \in [Requests -> ServingRows] /\ serving'[r].at = "enrol"
      /\ \A s \in Requests : s # r => serving'[s] = serving[s]
      /\ \A s \in Requests : Holds(s)'
  BY <1>1, <1>2, RequestMoves DEF DevicesInv, DevicesTypeOK
<1>4. shared' \in BOOLEAN
  BY <1>1 DEF DevicesInv, DevicesTypeOK
<1>5. DevicesTypeOK' /\ NoneEarly'
  BY <1>1, <1>3, <1>4 DEF DevicesInv, DevicesTypeOK, NoneEarly, ServingRows
<1>6. OneEnrols'
  <2> SUFFICES ASSUME ~shared' PROVE OneEnrols'
    BY DEF OneEnrols
  <2>1. ~shared /\ \A s \in Requests : ~Enrolling(s)
    BY <1>1
  <2>2. \A s \in Requests : Enrolling(s)' => s = r
    BY <1>3, <2>1 DEF Enrolling
  <2>3. halts = 0 => enrolled = {}
    BY <1>1, <2>1 DEF DevicesInv, OneEnrols, Enrolling
  <2> QED BY <1>1, <2>2, <2>3 DEF OneEnrols
<1>7. JobsFollow'
  BY <1>1, <1>3 DEF DevicesInv, JobsFollow
<1> QED BY <1>3, <1>5, <1>6, <1>7 DEF DevicesInv

LEMMA DeviceIsEnrolled ==
  ASSUME DevicesInv, NEW r \in Requests, NEW d \in Devices, InsertEnrolled(r, d)
  PROVE  DevicesInv'
<1>1. /\ serving' = [serving EXCEPT ![r] = Serves("mark", d)] /\ serving[r].at = "enrol"
      /\ device[d] = "absent" /\ device' = [device EXCEPT ![d] = "active"] /\ enrolled' = enrolled \cup {d}
      /\ UNCHANGED <<patching, patchJobs, token, shared, halts, early>>
  BY DEF InsertEnrolled, Continues, recordVars
<1>2. /\ device' \in [Devices -> DeviceStates]
      /\ \A e \in Devices : device[e] \in {"due", "purged"} => device'[e] \in {"due", "purged"}
  BY <1>1 DEF DevicesInv, DevicesTypeOK, DeviceStates
<1>3. Serves("mark", d) \in ServingRows /\ Serves("mark", d).at = "mark"
  BY ServingRow
<1>4. /\ serving' \in [Requests -> ServingRows] /\ serving'[r].at = "mark"
      /\ \A s \in Requests : s # r => serving'[s] = serving[s]
      /\ \A s \in Requests : Holds(s)'
  BY <1>1, <1>2, <1>3, RequestMoves
<1>5. DevicesTypeOK' /\ NoneEarly'
  BY <1>1, <1>2, <1>4 DEF DevicesInv, DevicesTypeOK, NoneEarly, ServingRows
<1>6. OneEnrols'
  <2> SUFFICES ASSUME ~shared PROVE OneEnrols'
    BY <1>1 DEF OneEnrols
  <2>1. \A s \in Requests : Enrolling(s) => s = r
    BY <1>1 DEF DevicesInv, OneEnrols, Enrolling
  <2>2. \A s \in Requests : Enrolling(s)' => s = r
    BY <1>4, <2>1 DEF Enrolling
  <2>3. halts = 0 => enrolled' = {d}
    BY <1>1 DEF DevicesInv, OneEnrols
  <2> QED BY <1>1, <1>4, <2>2, <2>3 DEF OneEnrols, Enrolling
<1>7. JobsFollow'
  BY <1>1, <1>4 DEF DevicesInv, JobsFollow
<1> QED BY <1>4, <1>5, <1>6, <1>7 DEF DevicesInv

LEMMA TokenIsMarked == ASSUME DevicesInv, NEW r \in Requests, MarkToken(r) PROVE DevicesInv'
<1>1. /\ serving' = [serving EXCEPT ![r] = NotServing] /\ serving[r].at = "mark" /\ token' = "used"
      /\ UNCHANGED <<device, patching, patchJobs, enrolled, shared, halts, early>>
  BY DEF MarkToken, Continues, recordVars
<1>2. /\ serving' \in [Requests -> ServingRows] /\ serving'[r].at = "idle"
      /\ \A s \in Requests : s # r => serving'[s] = serving[s]
      /\ \A s \in Requests : Holds(s)'
  BY <1>1, IdleRow, RequestMoves DEF DevicesInv, DevicesTypeOK
<1>3. DevicesTypeOK' /\ NoneEarly'
  BY <1>1, <1>2 DEF DevicesInv, DevicesTypeOK, NoneEarly, ServingRows
<1>4. OneEnrols'
  BY <1>1, <1>2 DEF DevicesInv, OneEnrols, Enrolling
<1>5. JobsFollow'
  BY <1>1, <1>2 DEF DevicesInv, JobsFollow
<1> QED BY <1>2, <1>3, <1>4, <1>5 DEF DevicesInv

LEMMA TokenEnds == ASSUME DevicesInv, TokenExpires PROVE DevicesInv'
<1>1. /\ token = "open" /\ token' = "expired"
      /\ UNCHANGED <<device, patching, patchJobs, serving, enrolled, shared, halts, early>>
  BY DEF TokenExpires, recordVars
<1>2. DevicesTypeOK' /\ NoneEarly' /\ JobsFollow' /\ \A r \in Requests : Holds(r)'
  BY <1>1 DEF DevicesInv, DevicesTypeOK, NoneEarly, JobsFollow, Holds
<1>3. OneEnrols'
  BY <1>1 DEF DevicesInv, OneEnrols, Enrolling
<1> QED BY <1>2, <1>3 DEF DevicesInv

LEMMA PatchIsQueued == ASSUME DevicesInv, NEW r \in Requests, QueuePatch(r) PROVE DevicesInv'
<1> DEFINE d == serving[r].device
<1>1. /\ serving' = [serving EXCEPT ![r] = Serves("job", d)] /\ serving[r].at = "patch"
      /\ patching' = patching \cup {d}
      /\ UNCHANGED <<device, patchJobs, token, enrolled, shared, halts, early>>
  BY DEF QueuePatch, Continues, tokenVars
<1>2. d \in Devices
  BY <1>1 DEF DevicesInv, Holds
<1>3. Serves("job", d) \in ServingRows /\ Serves("job", d).at = "job" /\ Serves("job", d).device = d
  BY <1>2, ServingRow
<1> HIDE DEF d
<1>4. /\ serving' \in [Requests -> ServingRows] /\ serving'[r].at = "job" /\ serving'[r].device = d
      /\ \A s \in Requests : s # r => serving'[s] = serving[s]
      /\ \A s \in Requests : Holds(s)'
  BY <1>1, <1>2, <1>3, RequestMoves DEF DevicesInv, DevicesTypeOK
<1>5. DevicesTypeOK' /\ NoneEarly'
  BY <1>1, <1>2, <1>4 DEF DevicesInv, DevicesTypeOK, NoneEarly, ServingRows
<1>6. OneEnrols'
  BY <1>1, <1>4 DEF DevicesInv, OneEnrols, Enrolling
<1>7. JobsFollow'
  BY <1>1, <1>4 DEF DevicesInv, JobsFollow
<1> QED BY <1>4, <1>5, <1>6, <1>7 DEF DevicesInv

LEMMA JobIsInserted == ASSUME DevicesInv, NEW r \in Requests, InsertJob(r) PROVE DevicesInv'
<1>1. /\ serving' = [serving EXCEPT ![r] = NotServing] /\ serving[r].at = "job"
      /\ patchJobs' = patchJobs \cup {serving[r].device}
      /\ UNCHANGED <<device, patching, token, enrolled, shared, halts, early>>
  BY DEF InsertJob, Continues, tokenVars
<1>2. serving[r].device \in Devices /\ serving[r].device \in patching
  BY <1>1 DEF DevicesInv, Holds
<1>3. /\ serving' \in [Requests -> ServingRows] /\ serving'[r].at = "idle"
      /\ \A s \in Requests : s # r => serving'[s] = serving[s]
      /\ \A s \in Requests : Holds(s)'
  BY <1>1, IdleRow, RequestMoves DEF DevicesInv, DevicesTypeOK
<1>4. DevicesTypeOK' /\ NoneEarly'
  BY <1>1, <1>2, <1>3 DEF DevicesInv, DevicesTypeOK, NoneEarly, ServingRows
<1>5. OneEnrols'
  BY <1>1, <1>3 DEF DevicesInv, OneEnrols, Enrolling
<1>6. JobsFollow'
  BY <1>1, <1>2, <1>3 DEF DevicesInv, JobsFollow
<1> QED BY <1>3, <1>4, <1>5, <1>6 DEF DevicesInv

LEMMA ServiceHalts == ASSUME DevicesInv, NEW r \in Requests, Halt(r) PROVE DevicesInv'
<1>1. /\ serving' = [serving EXCEPT ![r] = NotServing] /\ halts' = halts + 1
      /\ UNCHANGED <<device, patching, patchJobs, token, enrolled, shared, early>>
  BY DEF Halt, recordVars, tokenVars
<1>2. halts' \in 0 .. MaxHalts /\ halts' # 0
  BY <1>1, DevicesAssumption DEF Halt, DevicesInv, DevicesTypeOK
<1>3. /\ serving' \in [Requests -> ServingRows] /\ serving'[r].at = "idle"
      /\ \A s \in Requests : s # r => serving'[s] = serving[s]
      /\ \A s \in Requests : Holds(s)'
  BY <1>1, IdleRow, RequestMoves DEF DevicesInv, DevicesTypeOK
<1>4. DevicesTypeOK' /\ NoneEarly'
  BY <1>1, <1>2, <1>3 DEF DevicesInv, DevicesTypeOK, NoneEarly, ServingRows
<1>5. OneEnrols'
  BY <1>1, <1>2, <1>3 DEF DevicesInv, OneEnrols, Enrolling
<1>6. JobsFollow'
  BY <1>1, <1>2 DEF DevicesInv, JobsFollow
<1> QED BY <1>3, <1>4, <1>5, <1>6 DEF DevicesInv

LEMMA DevicesInductive == DevicesInv /\ [DevicesNext]_deviceVars => DevicesInv'
<1> SUFFICES ASSUME DevicesInv, [DevicesNext]_deviceVars PROVE DevicesInv'
  OBVIOUS
<1>1. CASE UNCHANGED deviceVars
  BY <1>1 DEF deviceVars, DevicesInv, DevicesTypeOK, NoneEarly, OneEnrols, Enrolling, JobsFollow, Holds
<1>2. ASSUME NEW r \in Requests, NEW d \in Devices,
             FindToRetire(r, d) \/ FindToRestore(r, d) \/ FindToPurge(r, d) \/ FindToPatch(r, d)
      PROVE  DevicesInv'
  BY <1>2, DeviceIsFound DEF FindToRetire, FindToRestore, FindToPurge, FindToPatch, FindsDevice
<1>3. CASE DevicesNext
  BY <1>2, <1>3, TokenEnds, DevicesAge, TokenIsFound, TokenIsMarked, DevicesAreWritten, PatchIsQueued,
     JobIsInserted, ServiceHalts, DeviceIsEnrolled DEF DevicesNext
<1> QED BY <1>1, <1>3

\* For any number of devices, requests and stops: no purge takes an active device, and
\* none a retired one ahead of time but on an outdated reading; a token enrols one
\* device unless its uses overlap or stop; a command for a patch has its job.
THEOREM DevicesStayAccounted == DevicesSpec => []DevicesAccounted
<1>1. DevicesInv => DevicesAccounted
  BY DEF DevicesInv, NoneEarly, OneEnrols, JobsFollow, DevicesAccounted
<1> QED BY <1>1, DevicesInductive, DevicesInitial, PTL DEF DevicesSpec

============================================================================
