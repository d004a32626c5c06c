--------------------------- MODULE InventoryProofs --------------------------
(* Proofs about Inventory: the movements explain the stock, the lines of a  *)
(* job account for what was expected and for what was taken, a shortfall    *)
(* leaves nothing behind, and what was recorded stays.  The invariant is    *)
(* Sound.  Its core is what a commit adds (Writes): rows of one key that    *)
(* had none, which move the stock by just their sum.                        *)
EXTENDS Inventory, SequenceTheorems, SumTheorems
-----------------------------------------------------------------------------
(* Sums of quantities.                                                      *)

(* The lesser of two quantities is one of them.                             *)
LEMMA LeastType ==
  ASSUME NEW a \in Nat, NEW b \in Nat
  PROVE  Least(a, b) \in Nat /\ Least(a, b) <= a /\ Least(a, b) <= b
BY DEF Least

(* The lines of a request add up to a quantity of each item, and the items  *)
(* without a line get none.                                                 *)
LEMMA CombineType ==
  ASSUME NEW lines \in Seq(Item \X Nat)
  PROVE  /\ Combine(lines) \in [Item -> Nat]
         /\ \A i \in Item : i \notin Counted(lines) => Combine(lines)[i] = 0
<1>1. ASSUME NEW i \in Item
      PROVE  /\ Combine(lines)[i] \in Nat
             /\ i \notin Counted(lines) => Combine(lines)[i] = 0
  <2>1. PICK S : S = {k \in DOMAIN lines : lines[k][1] = i}
    OBVIOUS
  <2>2. PICK f : f = [n \in S |-> lines[n][2]]
    OBVIOUS
  <2>3. DOMAIN lines = 1 .. Len(lines) /\ Len(lines) \in Nat
    OBVIOUS
  <2>4. IsFiniteSet(S)
    <3>1. PICK T : T = 1 .. Len(lines)
      OBVIOUS
    <3>2. IsFiniteSet(T) /\ S \subseteq T
      BY <2>1, <2>3, <3>1, FS_Interval
    <3> QED  BY <3>2, FS_Subset
  <2>5. \A n \in S : f[n] \in Nat
    <3>1. ASSUME NEW n \in S
          PROVE  f[n] \in Nat
      <4>1. n \in 1 .. Len(lines)
        BY <2>1, <2>3
      <4>2. lines[n] \in Item \X Nat
        BY <4>1, ElementOfSeq
      <4> QED  BY <2>2, <4>2
    <3> QED  BY <3>1
  <2>6. SumFunctionOnSet(f, S) \in Nat
    BY <2>4, <2>5, SumNat
  <2>7. Combine(lines)[i] = SumFunctionOnSet(f, S)
    BY <2>1, <2>2 DEF Combine, SumFunction
  <2>8. i \notin Counted(lines) => S = {}
    BY <2>1 DEF Counted
  <2> QED  BY <2>6, <2>7, <2>8, SumEmpty
<1> QED  BY <1>1 DEF Combine

(* A total that is handed out to rows in their order: no row gets more than *)
(* it needs, all is handed out as long as it is needed, and a total that    *)
(* is enough gives every row what it needs.                                 *)
LEMMA SpreadSound ==
  ASSUME NEW N \in Nat, NEW need \in [1 .. N -> Nat], NEW total \in Nat
  PROVE  /\ Spread(total, need) \in [1 .. N -> Nat]
         /\ \A n \in 1 .. N : Spread(total, need)[n] <= need[n] /\ Spread(total, need)[n] <= total
         /\ SumFunctionOnSet(Spread(total, need), 1 .. N)
              = Least(total, SumFunctionOnSet(need, 1 .. N))
         /\ SumFunctionOnSet(need, 1 .. N) <= total =>
              \A n \in 1 .. N : Spread(total, need)[n] = need[n]
<1>1. PICK sum : sum = [n \in 0 .. N |-> SumFunctionOnSet(need, 1 .. n)]
  OBVIOUS
<1>2. PICK spread : spread = Spread(total, need)
  OBVIOUS
<1>3. \A n \in 0 .. N : sum[n] \in Nat /\ IsFiniteSet(1 .. n)
  <2>1. ASSUME NEW n \in 0 .. N
        PROVE  sum[n] \in Nat /\ IsFiniteSet(1 .. n)
    <3>1. PICK S : S = 1 .. n
      OBVIOUS
    <3>2. n \in Int
      OBVIOUS
    <3>3. IsFiniteSet(S)
      BY <3>1, <3>2, FS_Interval
    <3>4. \A k \in S : need[k] \in Nat
      BY <3>1
    <3>5. SumFunctionOnSet(need, S) \in Nat
      BY <3>3, <3>4, SumNat
    <3> QED  BY <1>1, <3>1, <3>3, <3>5
  <2> QED  BY <2>1
<1>4. \A n \in 1 .. N : Before(need, n) = sum[n - 1]
  <2>1. ASSUME NEW n \in 1 .. N
        PROVE  Before(need, n) = sum[n - 1]
    <3>1. {k \in DOMAIN need : k < n} = 1 .. n - 1 /\ n - 1 \in 0 .. N
      OBVIOUS
    <3> QED  BY <1>1, <3>1 DEF Before
  <2> QED  BY <2>1
<1>5. \A n \in 1 .. N :
        spread[n] = IF total <= sum[n - 1] THEN 0 ELSE Least(need[n], total - sum[n - 1])
  BY <1>2, <1>4 DEF Spread
<1>6. \A n \in 1 .. N : spread[n] \in Nat /\ spread[n] <= need[n] /\ spread[n] <= total
  <2>1. ASSUME NEW n \in 1 .. N
        PROVE  spread[n] \in Nat /\ spread[n] <= need[n] /\ spread[n] <= total
    <3>1. n - 1 \in 0 .. N
      OBVIOUS
    <3>2. PICK before \in Nat : before = sum[n - 1]
      BY <1>3, <3>1
    <3>3. PICK asked \in Nat : asked = need[n]
      OBVIOUS
    <3>4. spread[n] = IF total <= before THEN 0 ELSE Least(asked, total - before)
      BY <1>5, <3>2, <3>3
    <3>5. PICK given : given = spread[n]
      OBVIOUS
    <3>6. given \in Nat /\ given <= asked /\ given <= total
      BY <3>4, <3>5 DEF Least
    <3> QED  BY <3>3, <3>5, <3>6
  <2> QED  BY <2>1
<1>7. spread \in [1 .. N -> Nat]
  BY <1>2, <1>6 DEF Spread
<1>8. \A n \in 1 .. N : sum[n] = need[n] + sum[n - 1]
  <2>1. ASSUME NEW n \in 1 .. N
        PROVE  sum[n] = need[n] + sum[n - 1]
    <3>1. n - 1 \in 0 .. N /\ n \in 0 .. N
      OBVIOUS
    <3>2. PICK S : S = 1 .. n
      OBVIOUS
    <3>3. n \in S /\ S \ {n} = 1 .. n - 1 /\ IsFiniteSet(S) /\ \A k \in S : need[k] \in Int
      BY <1>3, <3>1, <3>2
    <3>4. SumFunctionOnSet(need, S) = need[n] + SumFunctionOnSet(need, S \ {n})
      BY <3>3, SumRemove
    <3> QED  BY <1>1, <3>1, <3>2, <3>3, <3>4
  <2> QED  BY <2>1
<1>9. PICK handed : handed = [n \in 0 .. N |-> SumFunctionOnSet(spread, 1 .. n)]
  OBVIOUS
<1>10. \A n \in 1 .. N : handed[n] = spread[n] + handed[n - 1]
  <2>1. ASSUME NEW n \in 1 .. N
        PROVE  handed[n] = spread[n] + handed[n - 1]
    <3>1. n - 1 \in 0 .. N /\ n \in 0 .. N
      OBVIOUS
    <3>2. PICK S : S = 1 .. n
      OBVIOUS
    <3>3. n \in S /\ S \ {n} = 1 .. n - 1 /\ IsFiniteSet(S) /\ \A k \in S : spread[k] \in Int
      BY <1>3, <1>6, <3>1, <3>2
    <3>4. SumFunctionOnSet(spread, S) = spread[n] + SumFunctionOnSet(spread, S \ {n})
      BY <3>3, SumRemove
    <3> QED  BY <1>9, <3>1, <3>2, <3>3, <3>4
  <2> QED  BY <2>1
<1>11. sum[0] = 0 /\ handed[0] = 0
  <2>1. 1 .. 0 = {} /\ 0 \in 0 .. N
    OBVIOUS
  <2> QED  BY <1>1, <1>9, <2>1, SumEmpty
<1>12. \A n \in 0 .. N : handed[n] = Least(total, sum[n])
  <2>1. PICK P : P = {n \in Nat : n <= N => handed[n] = Least(total, sum[n])}
    OBVIOUS
  <2>2. 0 \in P
    BY <1>11, <2>1 DEF Least
  <2>3. ASSUME NEW n \in Nat, n \in P
        PROVE  n + 1 \in P
    <3>1. CASE n + 1 <= N
      <4>1. n + 1 \in 1 .. N /\ n \in 0 .. N /\ n + 1 \in 0 .. N /\ (n + 1) - 1 = n
        BY <3>1
      <4>2. handed[n] = Least(total, sum[n])
        BY <2>1, <2>3, <3>1
      <4>3. /\ sum[n + 1] = need[n + 1] + sum[n]
            /\ handed[n + 1] = spread[n + 1] + handed[n]
            /\ spread[n + 1] = IF total <= sum[n] THEN 0 ELSE Least(need[n + 1], total - sum[n])
        BY <4>1, <1>5, <1>8, <1>10
      <4>4. sum[n] \in Nat /\ sum[n + 1] \in Nat /\ need[n + 1] \in Nat
        BY <4>1, <1>3
      <4>5. handed[n + 1] = Least(total, sum[n + 1])
        BY <4>2, <4>3, <4>4 DEF Least
      <4> QED  BY <2>1, <4>5
    <3> QED  BY <3>1, <2>1
  <2>4. Nat \subseteq P
    BY <2>2, <2>3, SetOfNaturalsInduction
  <2> QED  BY <2>1, <2>4
<1>13. ASSUME sum[N] <= total, NEW n \in 1 .. N
       PROVE  spread[n] = need[n]
  <2>1. PICK T : T = 1 .. N
    OBVIOUS
  <2>2. PICK S : S = 1 .. n
    OBVIOUS
  <2>3. n \in 0 .. N /\ N \in 0 .. N /\ n - 1 \in 0 .. N /\ S \subseteq T
    BY <2>1, <2>2
  <2>4. sum[n] <= sum[N]
    <3>1. IsFiniteSet(T) /\ \A k \in T : need[k] \in Nat
      BY <1>3, <2>1, <2>3
    <3>2. SumFunctionOnSet(need, S) <= SumFunctionOnSet(need, T)
      BY <2>3, <3>1, SumSubset
    <3> QED  BY <1>1, <2>1, <2>2, <2>3, <3>2
  <2>5. /\ sum[n] = need[n] + sum[n - 1]
        /\ spread[n] = IF total <= sum[n - 1] THEN 0 ELSE Least(need[n], total - sum[n - 1])
    BY <1>5, <1>8
  <2>6. sum[n] \in Nat /\ sum[N] \in Nat /\ sum[n - 1] \in Nat /\ need[n] \in Nat
    BY <1>3, <2>3
  <2> QED  BY <1>13, <2>4, <2>5, <2>6 DEF Least
<1>14. N \in 0 .. N
  OBVIOUS
<1>15. /\ sum[N] = SumFunctionOnSet(need, 1 .. N)
       /\ SumFunctionOnSet(spread, 1 .. N) = Least(total, sum[N])
  BY <1>1, <1>9, <1>12, <1>14
<1> QED  BY <1>2, <1>6, <1>7, <1>13, <1>15
-----------------------------------------------------------------------------
(* The ledger.                                                              *)

Balance(rows, i, l) == SumFunction([m \in Moves(rows, i, l) |-> Signed(m)])

(* What a movement of a kind does to the stock.                             *)
Effect(kind, quantity) ==
  IF quantity <= 0 THEN 0 ELSE IF kind \in Inbound THEN quantity ELSE -quantity

(* The balances of more are those of rows moved by the effect at l.         *)
Moving(more, rows, l, kind, quantity) ==
  \A i \in Item, a \in Location :
    Balance(more, i, a)
      = Balance(rows, i, a) + (IF a = l THEN Effect(kind, quantity[i]) ELSE 0)

NoneOf(rows, k, kind) == \A m \in rows : ~(m.key = k /\ m.kind = kind)

(* The rows of one operation are movements, one of each item moved.         *)
LEMMA MovementsType ==
  ASSUME StockAssumption, NEW k \in Key, NEW kind \in Inbound \cup Outbound, NEW l \in Location,
         NEW quantity \in [Item -> Int], NEW j \in Job \cup {NoJob}
  PROVE  /\ Movements(k, kind, l, quantity, j) \subseteq MovementRow
         /\ IsFiniteSet(Movements(k, kind, l, quantity, j))
         /\ \A m \in Movements(k, kind, l, quantity, j) : m.key = k /\ m.kind = kind
<1>1. PICK S : S = {x \in Item : quantity[x] > 0}
  OBVIOUS
<1>2. PICK f : f = [i \in S |-> [key |-> k, kind |-> kind, item |-> i, at |-> l,
                                 quantity |-> quantity[i], job |-> j]]
  OBVIOUS
<1>3. Movements(k, kind, l, quantity, j) = {f[i] : i \in S}
  BY <1>1, <1>2 DEF Movements
<1>4. IsFiniteSet(S)
  BY <1>1, FS_Subset DEF StockAssumption
<1>5. IsFiniteSet({f[i] : i \in S})
  BY <1>4, FiniteImage
<1>6. \A i \in S : i \in Item /\ quantity[i] \in Nat \ {0}
  BY <1>1
<1>7. \A i \in S : f[i] \in MovementRow /\ f[i].key = k /\ f[i].kind = kind
  BY <1>2, <1>6 DEF MovementRow
<1> QED  BY <1>3, <1>5, <1>7

(* A movement counts as an integer, with the sign of its kind.              *)
LEMMA SignedType ==
  ASSUME NEW rows \in SUBSET MovementRow, IsFiniteSet(rows), NEW i, NEW l
  PROVE  /\ IsFiniteSet(Moves(rows, i, l))
         /\ \A m \in Moves(rows, i, l) : Signed(m) \in Int
<1>1. IsFiniteSet(Moves(rows, i, l))
  BY FS_Subset DEF Moves
<1>2. \A m \in rows : m.quantity \in Nat
  BY DEF MovementRow
<1> QED  BY <1>1, <1>2 DEF Moves, Signed

(* The movements of one kind that an operation adds change the balance of   *)
(* each item at their location by their effect, since no such movement was  *)
(* there before.                                                            *)
LEMMA MovesAdded ==
  ASSUME StockAssumption, NEW k \in Key, NEW kind \in Inbound \cup Outbound, NEW l \in Location,
         NEW quantity \in [Item -> Int], NEW j \in Job \cup {NoJob},
         NEW rows \in SUBSET MovementRow, IsFiniteSet(rows),
         NoneOf(rows, k, kind),
         NEW more, more = rows \cup Movements(k, kind, l, quantity, j)
  PROVE  /\ more \in SUBSET MovementRow /\ IsFiniteSet(more)
         /\ Moving(more, rows, l, kind, quantity)
<1>1. PICK new : new = Movements(k, kind, l, quantity, j)
  OBVIOUS
<1>2. new \subseteq MovementRow /\ IsFiniteSet(new) /\ \A m \in new : m.key = k /\ m.kind = kind
  BY <1>1, MovementsType
<1>3. more \in SUBSET MovementRow /\ IsFiniteSet(more)
  BY <1>1, <1>2, FS_Union
<1>4. ASSUME NEW i \in Item, NEW a \in Location
      PROVE  Balance(more, i, a)
               = Balance(rows, i, a) + (IF a = l THEN Effect(kind, quantity[i]) ELSE 0)
  <2>1. PICK S : S = Moves(rows, i, a)
    OBVIOUS
  <2>2. PICK T : T = Moves(more, i, a)
    OBVIOUS
  <2>3. PICK f : f = [m \in T |-> Signed(m)]
    OBVIOUS
  <2>4. PICK g : g = [m \in S |-> Signed(m)]
    OBVIOUS
  <2>5. IsFiniteSet(S) /\ \A m \in S : g[m] \in Int
    BY <2>1, <2>4, SignedType
  <2>6. \A m \in T : f[m] \in Int
    BY <1>3, <2>2, <2>3, SignedType
  <2>7. SumFunctionOnSet(g, S) \in Int
    BY <2>5, SumType
  <2>8. Balance(more, i, a) = SumFunctionOnSet(f, T) /\ Balance(rows, i, a) = SumFunctionOnSet(g, S)
    BY <2>1, <2>2, <2>3, <2>4 DEF Balance, SumFunction
  <2>9. PICK e : e = [key |-> k, kind |-> kind, item |-> i, at |-> l,
                      quantity |-> quantity[i], job |-> j]
    OBVIOUS
  <2>10. S \subseteq T
    BY <1>1, <2>1, <2>2 DEF Moves
  <2>11. CASE ~(a = l /\ quantity[i] > 0)
    <3>1. T = S
      <4>1. \A m \in new : ~(m.item = i /\ m.at = a)
        BY <1>1, <2>11 DEF Movements
      <4> QED  BY <1>1, <2>1, <2>2, <4>1 DEF Moves
    <3>2. f = g
      BY <2>3, <2>4, <3>1
    <3>3. (IF a = l THEN Effect(kind, quantity[i]) ELSE 0) = 0
      BY <2>11 DEF Effect
    <3> QED  BY <2>7, <2>8, <3>1, <3>2, <3>3
  <2>12. CASE a = l /\ quantity[i] > 0
    <3>1. e \in new
      BY <1>1, <2>9, <2>12 DEF Movements
    <3>2. e \notin S
      BY <2>1, <2>9 DEF Moves, NoneOf
    <3>3. \A m \in new : m.item = i => m = e
      BY <1>1, <2>9 DEF Movements
    <3>4. e.item = i /\ e.at = a /\ e.kind = kind /\ e.quantity = quantity[i]
      BY <2>9, <2>12
    <3>5. T = S \cup {e}
      BY <1>1, <2>1, <2>2, <3>1, <3>3, <3>4 DEF Moves
    <3>6. SumFunctionOnSet(f, T) = f[e] + SumFunctionOnSet(f, S)
      BY <2>5, <2>6, <3>2, <3>5, SumAdd
    <3>7. \A m \in S : f[m] \in Int /\ f[m] = g[m]
      BY <2>3, <2>4, <2>6, <2>10
    <3>8. SumFunctionOnSet(f, S) = SumFunctionOnSet(g, S)
      BY <2>5, <3>7, SumSame
    <3>9. f[e] = Effect(kind, quantity[i])
      BY <2>3, <2>12, <3>4, <3>5 DEF Signed, Effect
    <3>10. f[e] \in Int
      BY <2>6, <3>5
    <3> QED  BY <2>7, <2>8, <2>12, <3>6, <3>8, <3>9, <3>10
  <2> QED  BY <2>11, <2>12
<1> QED  BY <1>3, <1>4 DEF Moving
-----------------------------------------------------------------------------
(* A completion.                                                            *)

Rows(j) == DOMAIN Performed[j]

ItemRows(R, I, i) == {x \in R \X I : x[2] = i}

Column(R, i, at, f, total) ==
  /\ \A n \in R : at[n] = <<n, i>>
  /\ \A n \in R : f[at[n]] = total[n] /\ total[n] \in Int

(* The sum over the rows of an item is the sum over the services.           *)
LEMMA SumOfItem ==
  ASSUME NEW R, IsFiniteSet(R), NEW I, NEW i \in I,
         NEW at, NEW f, NEW total, Column(R, i, at, f, total)
  PROVE  SumFunctionOnSet(f, ItemRows(R, I, i)) = SumFunctionOnSet(total, R)
<1>1. Renames(R, at, f, total)
  BY DEF Column, Renames
<1>2. SumFunctionOnSet(f, {at[n] : n \in R}) = SumFunctionOnSet(total, R)
  BY <1>1, SumImage
<1>3. {at[n] : n \in R} = ItemRows(R, I, i)
  <2>1. ASSUME NEW n \in R
        PROVE  at[n] \in R \X I /\ at[n][2] = i
    <3>1. at[n] = <<n, i>>
      BY DEF Column
    <3> QED  BY <3>1
  <2>2. ASSUME NEW x \in R \X I, x[2] = i
        PROVE  x \in {at[n] : n \in R}
    <3>1. PICK n \in R, k \in I : x = <<n, k>>
      OBVIOUS
    <3>2. x = at[n]
      BY <2>2, <3>1 DEF Column
    <3> QED  BY <3>2
  <2> QED  BY <2>1, <2>2 DEF ItemRows
<1> QED  BY <1>2, <1>3

(* The rows of a completion are those of its key.                           *)
LEMMA RowsOfJob ==
  ASSUME JobAssumption, NEW j \in Job
  PROVE  \E N \in Nat : Rows(j) = 1 .. N /\ IsFiniteSet(Rows(j))
<1>1. PICK seq \in Seq(Service) : seq = Performed[j]
  BY DEF JobAssumption
<1>2. Len(seq) \in Nat /\ DOMAIN seq = 1 .. Len(seq)
  OBVIOUS
<1>3. PICK N \in Nat : N = Len(seq)
  BY <1>2
<1>4. PICK S : S = 1 .. N
  OBVIOUS
<1>5. IsFiniteSet(S)
  BY <1>4, FS_Interval
<1> QED  BY <1>1, <1>2, <1>3, <1>4, <1>5 DEF Rows

(* What a completion writes down of an item, and what it takes.             *)
Accounted(t, R, i) ==
  /\ \A n \in R : /\ t.expected[n, i] \in Nat
                  /\ Manual(t)[i][n] \in Nat
                  /\ Need(t)[n, i] \in Nat
                  /\ t.expected[n, i] = Manual(t)[i][n] + Need(t)[n, i]
                  /\ Automatic(t)[i][n] \in Nat
                  /\ Automatic(t)[i][n] <= Need(t)[n, i]
                  /\ Automatic(t)[i][n] <= Applied(t)[i]
  /\ Needed(t)[i] \in Nat
  /\ i \notin t.usable => Needed(t)[i] = 0
  /\ Applied(t)[i] \in Nat
  /\ Applied(t)[i] <= Needed(t)[i]
  /\ t.source.at = NoLocation => Applied(t)[i] = 0
  /\ t.source.at # NoLocation => Applied(t)[i] = Least(stock[i, t.source.at], Needed(t)[i])
  /\ i \in t.usable => SumFunctionOnSet(Automatic(t)[i], R) = Applied(t)[i]
  /\ i \in t.usable /\ Applied(t)[i] = Needed(t)[i] =>
       \A n \in R : Automatic(t)[i][n] = Need(t)[n, i]

(* What the rows of a completion take of an item.                           *)
LEMMA CompletionAccounts ==
  ASSUME StockAssumption, JobAssumption, TypeOK,
         NEW j \in Job, NEW t \in CompletionTx(j), NEW i \in Item
  PROVE  Accounted(t, Rows(j), i)
<1>1. PICK N \in Nat : Rows(j) = 1 .. N /\ IsFiniteSet(Rows(j))
  BY RowsOfJob
<1>2. PICK R : R = 1 .. N
  OBVIOUS
<1>3. /\ t.expected \in [R \X Item -> Nat]
      /\ t.manual \in [Item -> Nat]
      /\ t.source \in Source
  BY <1>1, <1>2 DEF CompletionTx, Rows
<1>4. {x[1] : x \in DOMAIN t.expected} = R
  <2>1. ASSUME NEW n \in R
        PROVE  n \in {x[1] : x \in DOMAIN t.expected}
    <3>1. <<n, i>> \in DOMAIN t.expected
      BY <1>3
    <3> QED  BY <3>1
  <2>2. \A x \in DOMAIN t.expected : x[1] \in R
    BY <1>3
  <2> QED  BY <2>1, <2>2
<1>5. PICK asked : asked = [n \in R |-> t.expected[n, i]]
  OBVIOUS
<1>6. asked \in [1 .. N -> Nat] /\ t.manual[i] \in Nat
  BY <1>2, <1>3, <1>5
<1>7. PICK manual : manual = Spread(t.manual[i], asked)
  OBVIOUS
<1>8. Manual(t)[i] = manual
  BY <1>4, <1>5, <1>7 DEF Manual
<1>9. manual \in [1 .. N -> Nat] /\ \A n \in 1 .. N : manual[n] <= asked[n]
  BY <1>6, <1>7, SpreadSound
<1>10. PICK need : need = [n \in R |-> asked[n] - manual[n]]
  OBVIOUS
<1>11. \A n \in R : Need(t)[n, i] = need[n]
  <2>1. ASSUME NEW n \in R
        PROVE  Need(t)[n, i] = need[n]
    <3>1. <<n, i>> \in DOMAIN t.expected /\ t.expected[n, i] = asked[n]
      BY <1>3, <1>5
    <3>2. Need(t)[n, i] = t.expected[n, i] - Manual(t)[i][n]
      BY <3>1 DEF Need
    <3> QED  BY <1>8, <1>10, <3>1, <3>2
  <2> QED  BY <2>1
<1>12. need \in [1 .. N -> Nat] /\ \A n \in 1 .. N : asked[n] = manual[n] + need[n]
  <2>1. \A n \in R : need[n] \in Nat /\ asked[n] = manual[n] + need[n]
    BY <1>2, <1>6, <1>9, <1>10
  <2> QED  BY <1>2, <1>10, <2>1
<1>13. PICK sum : sum = SumFunctionOnSet(need, R)
  OBVIOUS
<1>14. sum \in Nat
  <2>1. IsFiniteSet(R) /\ \A n \in R : need[n] \in Nat
    BY <1>1, <1>2, <1>12
  <2> QED  BY <1>13, <2>1, SumNat
<1>15. Needed(t)[i] = IF i \in t.usable THEN sum ELSE 0
  <2>1. PICK f : f = Need(t)
    OBVIOUS
  <2>0. PICK at : at = [n \in R |-> <<n, i>>]
    OBVIOUS
  <2>2. IsFiniteSet(R) /\ Column(R, i, at, f, need)
    <3>1. IsFiniteSet(R) /\ \A n \in R : need[n] \in Int
      BY <1>1, <1>2, <1>12
    <3>2. \A n \in R : at[n] = <<n, i>>
      BY <2>0
    <3>3. ASSUME NEW n \in R
          PROVE  f[at[n]] = need[n]
      <4>1. f[<<n, i>>] = need[n]
        BY <1>11, <2>1, Zenon
      <4> QED  BY <3>2, <4>1
    <3> QED  BY <3>1, <3>2, <3>3 DEF Column
  <2>3. SumFunctionOnSet(f, ItemRows(R, Item, i)) = SumFunctionOnSet(need, R)
    BY <2>2, SumOfItem
  <2>4. DOMAIN t.expected = R \X Item
    BY <1>3
  <2>5. Needed(t)[i] =
          IF i \in t.usable
          THEN SumFunctionOnSet(f, ItemRows(R, Item, i)) ELSE 0
    BY <2>1, <2>4 DEF Needed, ItemRows
  <2> QED  BY <1>13, <2>3, <2>5
<1>16. PICK needed : needed = Needed(t)[i]
  OBVIOUS
<1>17. needed \in Nat /\ needed = IF i \in t.usable THEN sum ELSE 0
  BY <1>14, <1>15, <1>16
<1>18. PICK applied : applied = Applied(t)[i]
  OBVIOUS
<1>19. /\ t.source.at = NoLocation => applied = 0
       /\ t.source.at # NoLocation => applied = Least(stock[i, t.source.at], needed)
  BY <1>16, <1>18 DEF Applied
<1>20. applied \in Nat /\ applied <= needed
  <2>1. CASE t.source.at = NoLocation
    BY <1>17, <1>19, <2>1
  <2>2. CASE t.source.at # NoLocation
    <3>1. t.source.at \in Location
      BY <1>3, <2>2 DEF Source
    <3>2. stock[i, t.source.at] \in Nat
      BY <3>1 DEF TypeOK, StockRow
    <3> QED  BY <1>17, <1>19, <2>2, <3>2, LeastType
  <2> QED  BY <2>1, <2>2
<1>21. PICK automatic : automatic = Spread(applied, need)
  OBVIOUS
<1>22. Automatic(t)[i] = automatic
  <2>1. [n \in R |-> Need(t)[n, i]] = need
    BY <1>2, <1>11, <1>12
  <2> QED  BY <1>4, <1>18, <1>21, <2>1 DEF Automatic
<1>23. /\ automatic \in [1 .. N -> Nat] /\ \A n \in 1 .. N : automatic[n] <= need[n] /\ automatic[n] <= applied
       /\ SumFunctionOnSet(automatic, 1 .. N) = Least(applied, SumFunctionOnSet(need, 1 .. N))
       /\ SumFunctionOnSet(need, 1 .. N) <= applied =>
            \A n \in 1 .. N : automatic[n] = need[n]
  <2>1. need \in [1 .. N -> Nat] /\ applied \in Nat
    BY <1>12, <1>20
  <2>2. /\ Spread(applied, need) \in [1 .. N -> Nat]
        /\ \A n \in 1 .. N : Spread(applied, need)[n] <= need[n] /\ Spread(applied, need)[n] <= applied
        /\ SumFunctionOnSet(Spread(applied, need), 1 .. N)
             = Least(applied, SumFunctionOnSet(need, 1 .. N))
        /\ SumFunctionOnSet(need, 1 .. N) <= applied =>
             \A n \in 1 .. N : Spread(applied, need)[n] = need[n]
    BY <2>1, SpreadSound
  <2> QED  BY <1>21, <2>2
<1>24. /\ i \in t.usable => SumFunctionOnSet(automatic, R) = applied
       /\ i \in t.usable /\ applied = needed => \A n \in R : automatic[n] = need[n]
  <2>1. /\ SumFunctionOnSet(automatic, R) = Least(applied, sum)
        /\ sum <= applied => \A n \in R : automatic[n] = need[n]
    BY <1>2, <1>13, <1>23
  <2>2. i \in t.usable => Least(applied, sum) = applied
    BY <1>14, <1>17, <1>20 DEF Least
  <2>3. i \in t.usable /\ applied = needed => sum <= applied
    BY <1>14, <1>17
  <2> QED  BY <2>1, <2>2, <2>3
<1>25. R = Rows(j)
  BY <1>1, <1>2
<1>26. \A n \in R : t.expected[n, i] = asked[n]
  BY <1>5
<1>27. \A n \in R : /\ t.expected[n, i] \in Nat
                    /\ Manual(t)[i][n] \in Nat
                    /\ Need(t)[n, i] \in Nat
                    /\ t.expected[n, i] = Manual(t)[i][n] + Need(t)[n, i]
                    /\ Automatic(t)[i][n] \in Nat
                    /\ Automatic(t)[i][n] <= Need(t)[n, i]
                    /\ Automatic(t)[i][n] <= Applied(t)[i]
  <2>1. ASSUME NEW n \in R
        PROVE  /\ asked[n] \in Nat /\ manual[n] \in Nat /\ need[n] \in Nat
               /\ asked[n] = manual[n] + need[n]
               /\ automatic[n] \in Nat /\ automatic[n] <= need[n] /\ automatic[n] <= applied
    BY <1>2, <1>6, <1>9, <1>12, <1>23
  <2> QED  BY <1>8, <1>11, <1>18, <1>22, <1>26, <2>1
<1>28. i \in t.usable /\ Applied(t)[i] = Needed(t)[i] =>
         \A n \in R : Automatic(t)[i][n] = Need(t)[n, i]
  BY <1>11, <1>16, <1>18, <1>22, <1>24
<1>29. /\ Needed(t)[i] \in Nat
       /\ i \notin t.usable => Needed(t)[i] = 0
       /\ Applied(t)[i] \in Nat
       /\ Applied(t)[i] <= Needed(t)[i]
       /\ t.source.at = NoLocation => Applied(t)[i] = 0
       /\ t.source.at # NoLocation => Applied(t)[i] = Least(stock[i, t.source.at], Needed(t)[i])
  BY <1>16, <1>17, <1>18, <1>19, <1>20
<1>30. i \in t.usable => SumFunctionOnSet(Automatic(t)[i], R) = Applied(t)[i]
  BY <1>18, <1>22, <1>24
<1> QED  BY <1>25, <1>27, <1>28, <1>29, <1>30 DEF Accounted
-----------------------------------------------------------------------------
(* What an operation adds to the ledger.                                    *)

(* The rows explain a stock: each of its balances is the sum of its rows.   *)
Explained(rows, quantity) ==
  /\ rows \in SUBSET MovementRow /\ IsFiniteSet(rows)
  /\ quantity \in [StockRow -> Int]
  /\ \A i \in Item, l \in Location : quantity[i, l] = Balance(rows, i, l)

(* A stock row is one of an item at a location.                             *)
LEMMA StockPair ==
  ASSUME NEW x \in StockRow
  PROVE  \E i \in Item, l \in Location : x = <<i, l>>
BY DEF StockRow

(* The stock of one item at one place, after a move.                        *)
LEMMA MovedAt ==
  ASSUME NEW st, NEW l \in Location, NEW change, NEW i \in Item, NEW a \in Location
  PROVE  Moved(st, l, change)[i, a] = IF a = l THEN st[i, a] + change[i] ELSE st[i, a]
<1>1. PICK x : x = <<i, a>>
  OBVIOUS
<1>2. x \in StockRow /\ x[1] = i /\ x[2] = a
  BY <1>1 DEF StockRow
<1> QED  BY <1>1, <1>2 DEF Moved

(* A move keeps quantities integers.                                        *)
LEMMA MovedType ==
  ASSUME NEW st \in [StockRow -> Int], NEW l \in Location, NEW change \in [Item -> Int]
  PROVE  Moved(st, l, change) \in [StockRow -> Int]
<1>1. ASSUME NEW x \in StockRow
      PROVE  x[1] \in Item
  BY DEF StockRow
<1> QED  BY <1>1 DEF Moved

Effects(change, kind, quantity) ==
  change \in [Item -> Int] /\ \A i \in Item : change[i] = Effect(kind, quantity[i])

(* A move and the rows it writes keep the stock explained.                  *)
LEMMA ExplainedAdd ==
  ASSUME StockAssumption, NEW k \in Key, NEW kind \in Inbound \cup Outbound, NEW l \in Location,
         NEW quantity \in [Item -> Int], NEW j \in Job \cup {NoJob},
         NEW rows, NEW st, Explained(rows, st), NoneOf(rows, k, kind),
         NEW change, Effects(change, kind, quantity),
         NEW more, more = rows \cup Movements(k, kind, l, quantity, j),
         NEW next, next = Moved(st, l, change)
  PROVE  Explained(more, next)
<1>1. /\ rows \in SUBSET MovementRow /\ IsFiniteSet(rows)
      /\ st \in [StockRow -> Int]
      /\ \A i \in Item, a \in Location : st[i, a] = Balance(rows, i, a)
  BY DEF Explained
<1>2. rows \in SUBSET MovementRow /\ IsFiniteSet(rows)
  BY <1>1
<1>3. /\ more \in SUBSET MovementRow /\ IsFiniteSet(more)
      /\ Moving(more, rows, l, kind, quantity)
  BY <1>2, MovesAdded
<1>4. change \in [Item -> Int] /\ next \in [StockRow -> Int]
  BY <1>1, MovedType DEF Effects
<1>5. ASSUME NEW i \in Item, NEW a \in Location
      PROVE  next[i, a] = Balance(more, i, a)
  <2>1. PICK old \in Int : old = Balance(rows, i, a) /\ st[i, a] = old
    <3>1. <<i, a>> \in StockRow
      BY DEF StockRow
    <3>2. st[i, a] \in Int
      BY <1>1, <3>1
    <3> QED  BY <1>1, <3>2
  <2>2. next[i, a] = IF a = l THEN st[i, a] + change[i] ELSE st[i, a]
    <3>1. PICK x : x = <<i, a>>
      OBVIOUS
    <3>2. x \in StockRow /\ x[1] = i /\ x[2] = a
      BY <3>1 DEF StockRow
    <3>3. next[x] = IF x[2] = l THEN st[x] + change[x[1]] ELSE st[x]
      BY <3>2 DEF Moved
    <3> QED  BY <3>1, <3>2, <3>3
  <2>3. Balance(more, i, a) = old + (IF a = l THEN change[i] ELSE 0)
    BY <1>3, <2>1 DEF Moving, Effects
  <2>4. PICK new : new = next[i, a]
    OBVIOUS
  <2>5. new = IF a = l THEN old + change[i] ELSE old
    BY <2>1, <2>2, <2>4
  <2>6. change[i] \in Int
    BY <1>4
  <2>7. new = old + (IF a = l THEN change[i] ELSE 0)
    BY <2>5, <2>6
  <2> QED  BY <2>3, <2>4, <2>7
<1> QED  BY <1>3, <1>4, <1>5 DEF Explained
-----------------------------------------------------------------------------
(* The inductive invariant.                                                 *)

(* Nobody has the key of an open transaction, and a job that is being       *)
(* completed is not completed.                                              *)
Sessions ==
  /\ \A s \in Session : tx[s] # Idle => operation[tx[s].key] = NoRequest
  /\ \A s, p \in Session : tx[s] # Idle /\ tx[p] # Idle /\ s # p => tx[s].key # tx[p].key
  /\ \A s \in Session : tx[s].kind = "completion" => job[tx[s].key] = "in_progress"

(* Every movement belongs to a recorded operation, every run to a completed *)
(* job.                                                                     *)
Recorded ==
  /\ IsFiniteSet(movement)
  /\ \A m \in movement : operation[m.key] # NoRequest
  /\ \A j \in Job : job[j] = "in_progress" => run[j] = NoRun

Tables ==
  /\ RequestAssumption /\ JobAssumption /\ StockAssumption
  /\ TypeOK /\ Sessions /\ Recorded /\ LedgerExplainsStock

(* In a sound state the movements explain the stock.                        *)
LEMMA TablesExplain ==
  ASSUME Tables
  PROVE  Explained(movement, stock)
<1>1. \A i \in Item, l \in Location : stock[i, l] = Balance(movement, i, l)
  BY DEF Tables, LedgerExplainsStock, Balance
<1>2. stock \in [StockRow -> Int]
  BY DEF Tables, TypeOK
<1> QED  BY <1>1, <1>2 DEF Tables, Recorded, TypeOK, Explained

(* The rows that the commit of the operation k leaves.                      *)
Writes(k) ==
  /\ stock' \in [StockRow -> Nat]
  /\ Explained(movement', stock')
  /\ movement \subseteq movement'
  /\ \A m \in movement' \ movement : m.key = k

(* What the transaction of a request holds.                                 *)
LEMMA RequestOf ==
  ASSUME Tables, NEW s \in Session, tx[s].kind = "request", NEW r, r = tx[s].request
  PROVE  /\ r \in Request /\ RequestRow(r) /\ r.key \in Key /\ tx[s].key = r.key
         /\ tx[s] # Idle /\ operation[r.key] = NoRequest
         /\ Combine(r.lines) \in [Item -> Nat]
<1>1. tx[s] # Idle /\ TxRow(tx[s])
  BY DEF Tables, TypeOK, Idle
<1>2. tx[s] \in RequestTx /\ tx[s].key = r.key
  BY <1>1 DEF TxRow, CompletionTx
<1>3. r \in Request
  BY <1>2 DEF RequestTx
<1>4. r.key \in Key /\ RequestRow(r)
  BY <1>3 DEF Key, Tables, RequestAssumption
<1>5. operation[r.key] = NoRequest
  BY <1>1, <1>2 DEF Tables, Sessions
<1>6. r.lines \in Seq(Item \X Nat)
  BY <1>4 DEF RequestRow
<1> QED  BY <1>1, <1>2, <1>3, <1>4, <1>5, <1>6, CombineType

(* An open request has no movement under its key.                           *)
LEMMA NothingYet ==
  ASSUME Tables, NEW s \in Session, tx[s].kind = "request", NEW r, r = tx[s].request, NEW kind
  PROVE  NoneOf(movement, r.key, kind)
BY RequestOf DEF NoneOf, Tables, Recorded

Covers(st, l, change) == \A i \in Item : st[i, l] + change[i] >= 0

(* What was there keeps its quantity as long as there is enough of it.      *)
LEMMA MovedNat ==
  ASSUME NEW st \in [StockRow -> Nat], NEW l \in Location, NEW change \in [Item -> Int], Covers(st, l, change)
  PROVE  Moved(st, l, change) \in [StockRow -> Nat]
<1>1. ASSUME NEW x \in StockRow
      PROVE  (IF x[2] = l THEN st[x] + change[x[1]] ELSE st[x]) \in Nat
  <2>1. PICK i \in Item, a \in Location : x = <<i, a>>
    BY StockPair
  <2>2. x[1] = i /\ x[2] = a /\ st[x] = st[i, a]
    BY <2>1
  <2>3. st[x] \in Nat /\ change[i] \in Int
    OBVIOUS
  <2>4. CASE a = l
    <3>1. x = <<i, l>> /\ st[i, l] + change[i] >= 0
      BY <2>1, <2>4 DEF Covers
    <3>2. st[x] + change[i] >= 0
      BY <3>1
    <3>3. st[x] + change[i] \in Nat
      <4>1. PICK old \in Nat : old = st[x]
        BY <2>3
      <4>2. PICK more \in Int : more = change[i]
        BY <2>3
      <4>3. old + more >= 0
        BY <3>2, <4>1, <4>2
      <4>4. old + more \in Nat
        BY <4>3
      <4> QED  BY <4>1, <4>2, <4>4
    <3>4. (IF x[2] = l THEN st[x] + change[x[1]] ELSE st[x]) = st[x] + change[i]
      BY <2>2, <2>4
    <3> QED  BY <3>3, <3>4
  <2>5. CASE a # l
    BY <2>2, <2>3, <2>5
  <2> QED  BY <2>4, <2>5
<1>2. Moved(st, l, change)
        = [x \in StockRow |-> IF x[2] = l THEN st[x] + change[x[1]] ELSE st[x]]
  BY DEF Moved
<1> QED  BY <1>1, <1>2
-----------------------------------------------------------------------------
(* Each request adds its movements and leaves the stock that they explain.  *)

(* An outbound movement takes its quantity.                                 *)
LEMMA OutEffects ==
  ASSUME NEW quantity \in [Item -> Nat], NEW kind \in Outbound
  PROVE  Effects(Negative(quantity), kind, quantity)
<1>1. kind \notin Inbound
  BY DEF Inbound, Outbound
<1> QED  BY <1>1 DEF Effects, Effect, Negative

(* An inbound movement adds its quantity.                                   *)
LEMMA InEffects ==
  ASSUME NEW quantity \in [Item -> Nat], NEW kind \in Inbound
  PROVE  Effects(quantity, kind, quantity)
BY DEF Effects, Effect

(* The rows of an operation have its key.                                   *)
LEMMA MovementKeys ==
  ASSUME NEW k, NEW kind, NEW l, NEW quantity, NEW j
  PROVE  \A m \in Movements(k, kind, l, quantity, j) : m.key = k /\ m.kind = kind
BY DEF Movements

(* A receipt or an opening balance keeps the ledger.                        *)
LEMMA ReceiveWrites ==
  ASSUME Tables, NEW s \in Session, tx[s].kind = "request", NEW r, r = tx[s].request,
         ReceiveStock(r)
  PROVE  Writes(r.key)
<1>1. PICK quantity : quantity = Combine(r.lines)
  OBVIOUS
<1>2. PICK new : new = Movements(r.key, r.kind, r.at, quantity, NoJob)
  OBVIOUS
<1>3. PICK next : next = Moved(stock, r.at, quantity)
  OBVIOUS
<1>4. /\ r.kind \in Inbound /\ r.at \in Location /\ r.key \in Key /\ RequestRow(r)
      /\ quantity \in [Item -> Nat] /\ quantity \in [Item -> Int]
      /\ NoneOf(movement, r.key, r.kind)
  <2>1. r.kind \in Inbound
    BY DEF ReceiveStock, Inbound
  <2>2. RequestRow(r) /\ r.key \in Key /\ Combine(r.lines) \in [Item -> Nat]
    BY RequestOf
  <2>3. NoneOf(movement, r.key, r.kind)
    BY NothingYet
  <2>4. quantity \in [Item -> Nat] /\ quantity \in [Item -> Int]
    BY <1>1, <2>2
  <2> QED  BY <2>1, <2>2, <2>3, <2>4 DEF RequestRow
<1>5. stock' = next /\ movement' = movement \cup new
  BY <1>1, <1>2, <1>3 DEF ReceiveStock
<1>6. Effects(quantity, r.kind, quantity)
  BY <1>4, InEffects
<1>7. PICK more : more = movement \cup new
  OBVIOUS
<1>8. Explained(more, next)
  <2>1. Explained(movement, stock) /\ StockAssumption
    BY TablesExplain DEF Tables
  <2>2. r.kind \in Inbound \cup Outbound /\ NoJob \in Job \cup {NoJob}
    BY <1>4
  <2> QED  BY <1>2, <1>3, <1>4, <1>6, <1>7, <2>1, <2>2, ExplainedAdd
<1>9. Covers(stock, r.at, quantity)
  <2>1. ASSUME NEW i \in Item
        PROVE  stock[i, r.at] + quantity[i] >= 0
    <3>1. <<i, r.at>> \in StockRow
      BY <1>4 DEF StockRow
    <3>2. PICK old \in Nat : old = stock[i, r.at]
      BY <1>4, <3>1 DEF Tables, TypeOK
    <3>3. PICK added \in Nat : added = quantity[i]
      BY <1>4
    <3>4. old + added >= 0
      OBVIOUS
    <3> QED  BY <3>2, <3>3, <3>4
  <2> QED  BY <2>1 DEF Covers
<1>10. next \in [StockRow -> Nat]
  <2>1. stock \in [StockRow -> Nat]
    BY DEF Tables, TypeOK
  <2> QED  BY <1>3, <1>4, <1>9, <2>1, MovedNat
<1>11. \A m \in new : m.key = r.key
  BY <1>2, MovementKeys
<1> QED  BY <1>5, <1>7, <1>8, <1>10, <1>11 DEF Writes

(* Enough at a place covers what is taken there.                            *)
LEMMA EnoughCovers ==
  ASSUME Tables, NEW l \in Location, NEW quantity \in [Item -> Nat], Enough(l, quantity)
  PROVE  Moved(stock, l, Negative(quantity)) \in [StockRow -> Nat]
<1>1. ASSUME NEW i \in Item
      PROVE  stock[i, l] + Negative(quantity)[i] >= 0
  <2>1. <<i, l>> \in StockRow
    BY DEF StockRow
  <2>2. PICK old \in Nat : old = stock[i, l]
    BY <2>1 DEF Tables, TypeOK
  <2>3. PICK less \in Nat : less = quantity[i]
    OBVIOUS
  <2>4. old >= less
    BY <2>2, <2>3 DEF Enough
  <2>5. Negative(quantity)[i] = -less
    BY <2>3 DEF Negative
  <2>6. old + (-less) >= 0
    BY <2>4
  <2> QED  BY <2>2, <2>5, <2>6
<1>2. Negative(quantity) \in [Item -> Int]
  BY DEF Negative
<1>3. stock \in [StockRow -> Nat]
  BY DEF Tables, TypeOK
<1>4. Covers(stock, l, Negative(quantity))
  BY <1>1 DEF Covers
<1>5. PICK change : change = Negative(quantity)
  OBVIOUS
<1> QED  BY <1>2, <1>3, <1>4, <1>5, MovedNat

(* A usage or a write-off keeps the ledger.                                 *)
LEMMA ConsumeWrites ==
  ASSUME Tables, NEW s \in Session, tx[s].kind = "request", NEW r, r = tx[s].request,
         Consume(r)
  PROVE  Writes(r.key)
<1>1. PICK quantity : quantity = Combine(r.lines)
  OBVIOUS
<1>2. PICK new : new = Movements(r.key, r.kind, r.at, quantity, r.job)
  OBVIOUS
<1>3. PICK change : change = Negative(quantity)
  OBVIOUS
<1>4. PICK next : next = Moved(stock, r.at, change)
  OBVIOUS
<1>5. /\ r.kind \in Outbound /\ r.at \in Location /\ r.key \in Key /\ RequestRow(r)
      /\ quantity \in [Item -> Nat] /\ quantity \in [Item -> Int]
      /\ NoneOf(movement, r.key, r.kind) /\ r.job \in Job \cup {NoJob}
  <2>1. r.kind \in Outbound
    BY DEF Consume, Outbound
  <2>2. RequestRow(r) /\ r.key \in Key /\ Combine(r.lines) \in [Item -> Nat]
    BY RequestOf
  <2>3. NoneOf(movement, r.key, r.kind)
    BY NothingYet
  <2>4. quantity \in [Item -> Nat] /\ quantity \in [Item -> Int]
    BY <1>1, <2>2
  <2> QED  BY <2>1, <2>2, <2>3, <2>4 DEF RequestRow
<1>6. stock' = next /\ movement' = movement \cup new /\ Enough(r.at, quantity)
  BY <1>1, <1>2, <1>3, <1>4 DEF Consume
<1>7. Effects(change, r.kind, quantity)
  BY <1>3, <1>5, OutEffects
<1>8. PICK more : more = movement \cup new
  OBVIOUS
<1>9. Explained(more, next)
  <2>1. Explained(movement, stock) /\ StockAssumption
    BY TablesExplain DEF Tables
  <2>2. r.kind \in Inbound \cup Outbound
    BY <1>5
  <2> QED  BY <1>2, <1>4, <1>5, <1>7, <1>8, <2>1, <2>2, ExplainedAdd
<1>10. next \in [StockRow -> Nat]
  BY <1>3, <1>4, <1>5, <1>6, EnoughCovers
<1>11. \A m \in new : m.key = r.key
  BY <1>2, MovementKeys
<1> QED  BY <1>6, <1>8, <1>9, <1>10, <1>11 DEF Writes
-----------------------------------------------------------------------------
(* A transfer keeps the ledger: what leaves one place arrives at the other. *)
LEMMA TransferWrites ==
  ASSUME Tables, NEW s \in Session, tx[s].kind = "request", NEW r, r = tx[s].request,
         TransferStock(r)
  PROVE  Writes(r.key)
<1>1. PICK quantity : quantity = Combine(r.lines)
  OBVIOUS
<1>2. PICK out : out = Movements(r.key, "transfer_out", r.at, quantity, NoJob)
  OBVIOUS
<1>3. PICK in : in = Movements(r.key, "transfer_in", r.to, quantity, NoJob)
  OBVIOUS
<1>4. PICK change : change = Negative(quantity)
  OBVIOUS
<1>5. PICK less : less = Moved(stock, r.at, change)
  OBVIOUS
<1>6. PICK next : next = Moved(less, r.to, quantity)
  OBVIOUS
<1>7. PICK sent : sent = movement \cup out
  OBVIOUS
<1>8. PICK more : more = sent \cup in
  OBVIOUS
<1>9. /\ r.at \in Location /\ r.to \in Location /\ r.key \in Key
      /\ quantity \in [Item -> Nat] /\ quantity \in [Item -> Int]
      /\ NoneOf(movement, r.key, "transfer_out") /\ NoneOf(movement, r.key, "transfer_in")
  <2>1. RequestRow(r) /\ r.key \in Key /\ Combine(r.lines) \in [Item -> Nat]
    BY RequestOf
  <2>2. NoneOf(movement, r.key, "transfer_out") /\ NoneOf(movement, r.key, "transfer_in")
    BY NothingYet
  <2>3. quantity \in [Item -> Nat] /\ quantity \in [Item -> Int]
    BY <1>1, <2>1
  <2>4. r.kind = "transfer"
    BY DEF TransferStock
  <2> QED  BY <2>1, <2>2, <2>3, <2>4 DEF RequestRow
<1>10. stock' = next /\ movement' = more /\ Enough(r.at, quantity)
  <2>1. movement' = movement \cup out \cup in
    BY <1>1, <1>2, <1>3 DEF TransferStock
  <2>2. stock' = next /\ Enough(r.at, quantity)
    BY <1>1, <1>4, <1>5, <1>6 DEF TransferStock
  <2> QED  BY <1>7, <1>8, <2>1, <2>2
<1>11. Explained(sent, less)
  <2>1. Explained(movement, stock) /\ StockAssumption
    BY TablesExplain DEF Tables
  <2>2. "transfer_out" \in Inbound \cup Outbound /\ "transfer_out" \in Outbound
        /\ NoJob \in Job \cup {NoJob}
    BY DEF Outbound
  <2>3. Effects(change, "transfer_out", quantity)
    BY <1>4, <1>9, <2>2, OutEffects
  <2> QED  BY <1>2, <1>5, <1>7, <1>9, <2>1, <2>2, <2>3, ExplainedAdd
<1>12. Explained(more, next)
  <2>1. StockAssumption
    BY DEF Tables
  <2>2. "transfer_in" \in Inbound \cup Outbound /\ "transfer_in" \in Inbound
        /\ NoJob \in Job \cup {NoJob}
    BY DEF Inbound
  <2>3. Effects(quantity, "transfer_in", quantity)
    BY <1>9, <2>2, InEffects
  <2>4. NoneOf(sent, r.key, "transfer_in")
    <3>1. \A m \in out : m.kind = "transfer_out"
      BY <1>2, MovementKeys
    <3> QED  BY <1>7, <1>9, <3>1 DEF NoneOf
  <2> QED  BY <1>3, <1>6, <1>8, <1>9, <1>11, <2>1, <2>2, <2>3, <2>4, ExplainedAdd
<1>13. less \in [StockRow -> Nat]
  BY <1>4, <1>5, <1>9, <1>10, EnoughCovers
<1>14. next \in [StockRow -> Nat]
  <2>1. ASSUME NEW i \in Item
        PROVE  less[i, r.to] + quantity[i] >= 0
    <3>1. <<i, r.to>> \in StockRow
      BY <1>9 DEF StockRow
    <3>2. PICK old \in Nat : old = less[i, r.to]
      BY <1>13, <3>1
    <3>3. PICK new \in Nat : new = quantity[i]
      BY <1>9
    <3>4. old + new >= 0
      OBVIOUS
    <3> QED  BY <3>2, <3>3, <3>4
  <2>2. Covers(less, r.to, quantity)
    BY <2>1 DEF Covers
  <2> QED  BY <1>6, <1>9, <1>13, <2>2, MovedNat
<1>15. \A m \in in \cup out : m.key = r.key
  BY <1>2, <1>3, MovementKeys
<1> QED  BY <1>7, <1>8, <1>10, <1>12, <1>14, <1>15 DEF Writes

(* A count leaves what was counted: its difference goes in or out.          *)
LEMMA CountWrites ==
  ASSUME Tables, NEW s \in Session, tx[s].kind = "request", NEW r, r = tx[s].request,
         RecordStockCount(r)
  PROVE  Writes(r.key)
<1>1. PICK counted : counted = Combine(r.lines)
  OBVIOUS
<1>2. PICK change :
        change = [i \in Item |->
                    IF i \in Counted(r.lines) THEN counted[i] - stock[i, r.at] ELSE 0]
  OBVIOUS
<1>3. PICK back : back = Negative(change)
  OBVIOUS
<1>4. PICK gain : gain = [i \in Item |-> Effect("adjustment_in", change[i])]
  OBVIOUS
<1>5. PICK loss : loss = [i \in Item |-> Effect("adjustment_out", back[i])]
  OBVIOUS
<1>6. PICK in : in = Movements(r.key, "adjustment_in", r.at, change, NoJob)
  OBVIOUS
<1>7. PICK out : out = Movements(r.key, "adjustment_out", r.at, back, NoJob)
  OBVIOUS
<1>8. PICK found : found = movement \cup in
  OBVIOUS
<1>9. PICK more : more = found \cup out
  OBVIOUS
<1>10. PICK above : above = Moved(stock, r.at, gain)
  OBVIOUS
<1>11. PICK next : next = Moved(above, r.at, loss)
  OBVIOUS
<1>12. /\ r.at \in Location /\ r.key \in Key
       /\ counted \in [Item -> Nat]
       /\ NoneOf(movement, r.key, "adjustment_in") /\ NoneOf(movement, r.key, "adjustment_out")
  <2>1. RequestRow(r) /\ r.key \in Key /\ Combine(r.lines) \in [Item -> Nat]
    BY RequestOf
  <2>2. NoneOf(movement, r.key, "adjustment_in") /\ NoneOf(movement, r.key, "adjustment_out")
    BY NothingYet
  <2> QED  BY <1>1, <2>1, <2>2 DEF RequestRow
<1>13. \A i \in Item : stock[i, r.at] \in Nat
  <2>1. \A i \in Item : <<i, r.at>> \in StockRow
    BY <1>12 DEF StockRow
  <2>2. stock \in [StockRow -> Nat]
    BY DEF Tables, TypeOK
  <2> QED  BY <2>1, <2>2
<1>14. /\ change \in [Item -> Int] /\ back \in [Item -> Int]
       /\ \A i \in Item : back[i] = -change[i]
  <2>1. change \in [Item -> Int]
    <3>1. ASSUME NEW i \in Item
          PROVE  (IF i \in Counted(r.lines) THEN counted[i] - stock[i, r.at] ELSE 0) \in Int
      <4>1. PICK old \in Nat : old = stock[i, r.at]
        BY <1>13
      <4>2. PICK new \in Nat : new = counted[i]
        BY <1>12
      <4>3. new - old \in Int
        OBVIOUS
      <4>4. counted[i] - stock[i, r.at] \in Int
        BY <4>1, <4>2, <4>3, Zenon
      <4>5. CASE i \in Counted(r.lines)
        BY <4>4, <4>5, Zenon
      <4>6. CASE i \notin Counted(r.lines)
        BY <4>6
      <4> QED  BY <4>5, <4>6
    <3> QED  BY <1>2, <3>1
  <2> QED  BY <1>3, <2>1 DEF Negative
<1>15. /\ gain \in [Item -> Int] /\ loss \in [Item -> Int]
       /\ \A i \in Item : gain[i] + loss[i] = change[i]
  <2>1. ASSUME NEW i \in Item
        PROVE  /\ gain[i] \in Int /\ loss[i] \in Int /\ gain[i] + loss[i] = change[i]
    <3>1. PICK c \in Int : c = change[i]
      BY <1>14
    <3>2. gain[i] = IF c <= 0 THEN 0 ELSE c
      BY <1>4, <3>1 DEF Effect, Inbound
    <3>3. loss[i] = IF -c <= 0 THEN 0 ELSE -(-c)
      BY <1>5, <1>14, <3>1 DEF Effect, Inbound
    <3> QED  BY <3>1, <3>2, <3>3
  <2> QED  BY <1>4, <1>5, <2>1
<1>16. Effects(gain, "adjustment_in", change) /\ Effects(loss, "adjustment_out", back)
  BY <1>4, <1>5, <1>15 DEF Effects
<1>17. Explained(found, above)
  <2>1. Explained(movement, stock) /\ StockAssumption
    BY TablesExplain DEF Tables
  <2>2. "adjustment_in" \in Inbound \cup Outbound /\ NoJob \in Job \cup {NoJob}
    BY DEF Inbound
  <2> QED  BY <1>6, <1>8, <1>10, <1>12, <1>14, <1>16, <2>1, <2>2, ExplainedAdd
<1>18. Explained(more, next)
  <2>1. StockAssumption
    BY DEF Tables
  <2>2. "adjustment_out" \in Inbound \cup Outbound /\ NoJob \in Job \cup {NoJob}
    BY DEF Outbound
  <2>3. NoneOf(found, r.key, "adjustment_out")
    <3>1. \A m \in in : m.kind = "adjustment_in"
      BY <1>6, MovementKeys
    <3> QED  BY <1>8, <1>12, <3>1 DEF NoneOf
  <2> QED  BY <1>7, <1>9, <1>11, <1>12, <1>14, <1>16, <1>17, <2>1, <2>2, <2>3, ExplainedAdd
<1>19. next = Moved(stock, r.at, change)
  <2>1. ASSUME NEW x \in StockRow
        PROVE  next[x] = IF x[2] = r.at THEN stock[x] + change[x[1]] ELSE stock[x]
    <3>1. /\ above[x] = IF x[2] = r.at THEN stock[x] + gain[x[1]] ELSE stock[x]
          /\ next[x] = IF x[2] = r.at THEN above[x] + loss[x[1]] ELSE above[x]
      BY <1>10, <1>11 DEF Moved
    <3>2. PICK i \in Item : i = x[1]
      BY DEF StockRow
    <3>3. PICK old \in Nat : old = stock[x]
      BY DEF Tables, TypeOK
    <3>4. gain[i] \in Int /\ loss[i] \in Int /\ change[i] = gain[i] + loss[i]
      BY <1>15
    <3>5. CASE x[2] = r.at
      <4>1. next[x] = (old + gain[i]) + loss[i]
        BY <3>1, <3>2, <3>3, <3>5
      <4>2. next[x] = old + change[i]
        BY <3>4, <4>1
      <4> QED  BY <3>2, <3>3, <3>5, <4>2
    <3>6. CASE x[2] # r.at
      BY <3>1, <3>6
    <3> QED  BY <3>5, <3>6
  <2>2. next = [x \in StockRow |-> next[x]]
    BY <1>11 DEF Moved
  <2> QED  BY <2>1, <2>2 DEF Moved
<1>20. next \in [StockRow -> Nat]
  <2>1. ASSUME NEW i \in Item
        PROVE  stock[i, r.at] + change[i] >= 0
    <3>1. PICK old \in Nat : old = stock[i, r.at]
      BY <1>13
    <3>2. PICK new \in Nat : new = counted[i]
      BY <1>12
    <3>3. change[i] = IF i \in Counted(r.lines) THEN new - old ELSE 0
      BY <1>2, <3>1, <3>2
    <3>4. PICK diff : diff = change[i]
      OBVIOUS
    <3>5. old + diff >= 0
      BY <3>3, <3>4
    <3> QED  BY <3>1, <3>4, <3>5
  <2>2. Covers(stock, r.at, change)
    BY <2>1 DEF Covers
  <2>3. stock \in [StockRow -> Nat]
    BY DEF Tables, TypeOK
  <2> QED  BY <1>12, <1>14, <1>19, <2>2, <2>3, MovedNat
<1>21. stock' = next /\ movement' = more
  <2>1. stock' = Moved(stock, r.at, change) /\ movement' = movement \cup in \cup out
    BY <1>1, <1>2, <1>3, <1>6, <1>7 DEF RecordStockCount
  <2> QED  BY <1>8, <1>9, <1>19, <2>1
<1>22. \A m \in in \cup out : m.key = r.key
  BY <1>6, <1>7, MovementKeys
<1> QED  BY <1>8, <1>9, <1>18, <1>20, <1>21, <1>22 DEF Writes
-----------------------------------------------------------------------------
(* The lines that a completion records.                                     *)

(* What the transaction of a completion holds.                              *)
LEMMA CompletionOf ==
  ASSUME Tables, NEW s \in Session, tx[s].kind = "completion", NEW t, t = tx[s],
         NEW j, j = t.key
  PROVE  /\ j \in Job /\ t \in CompletionTx(j) /\ tx[s] # Idle /\ j \in Key
         /\ operation[j] = NoRequest /\ job[j] = "in_progress" /\ run[j] = NoRun
         /\ \A m \in movement : m.key # j
<1>1. tx[s] # Idle /\ TxRow(tx[s])
  BY DEF Tables, TypeOK, Idle
<1>2. PICK c \in Job : t \in CompletionTx(c)
  BY <1>1 DEF TxRow, RequestTx
<1>3. j = c
  BY <1>2 DEF CompletionTx
<1>4. operation[j] = NoRequest /\ job[j] = "in_progress"
  BY <1>1 DEF Tables, Sessions
<1>5. run[j] = NoRun /\ \A m \in movement : m.key # j
  BY <1>2, <1>3, <1>4 DEF Tables, Recorded
<1> QED  BY <1>1, <1>2, <1>3, <1>4, <1>5 DEF Key

(* One line of a service and an item.                                       *)
LineSound(t, n, i, line) ==
  /\ line \in LineRow /\ line.service = n /\ line.item = i
  /\ line.expected = t.expected[<<n, i>>] /\ line.manual = Manual(t)[i][n]
  /\ line.expected = line.manual + line.automatic + line.shortfall
  /\ line.automatic = IF i \in t.usable THEN Automatic(t)[i][n] ELSE 0
  /\ line.shortfall > 0 => line.issue # "none"
  /\ line.issue \notin {"none", "INVENTORY_ITEM_INACTIVE"} => line.shortfall > 0
  /\ line.issue = "INSUFFICIENT_RECORDED_STOCK" =>
       /\ i \in t.usable /\ t.source.at # NoLocation
       /\ Applied(t)[i] # Needed(t)[i]

(* A line accounts for what its service expects of its item.                *)
LEMMA RunLineSound ==
  ASSUME NEW j \in Job, JobAssumption, StockAssumption, NEW t \in CompletionTx(j), NEW i \in Item,
         NEW n \in Rows(j), Accounted(t, Rows(j), i),
         NEW x, x = <<n, i>>, t.expected[x] > 0
  PROVE  LineSound(t, n, i, RunLine(t, x))
<1>1. x[1] = n /\ x[2] = i
  OBVIOUS
<1>2. PICK expected \in Nat : expected = t.expected[x]
  BY DEF Accounted
<1>3. PICK manual \in Nat : manual = Manual(t)[i][n]
  BY DEF Accounted
<1>4. PICK need \in Nat : need = Need(t)[x]
  BY DEF Accounted
<1>5. PICK given \in Nat : given = Automatic(t)[i][n]
  BY DEF Accounted
<1>6. PICK applied : applied = Applied(t)[i]
  OBVIOUS
<1>7. PICK needed : needed = Needed(t)[i]
  OBVIOUS
<1>8. /\ expected > 0 /\ expected = manual + need /\ given <= need /\ given <= applied
      /\ applied \in Nat
      /\ t.source.at = NoLocation => applied = 0
      /\ i \in t.usable /\ applied = needed => given = need
  BY <1>2, <1>3, <1>4, <1>5, <1>6, <1>7 DEF Accounted
<1>9. PICK automatic \in Nat : automatic = IF i \in t.usable THEN given ELSE 0
  OBVIOUS
<1>10. PICK missing : missing = need - automatic
  OBVIOUS
<1>11. missing \in Nat /\ expected = manual + automatic + missing
  BY <1>8, <1>9, <1>10
<1>12. PICK issue : issue = LineIssue(t, x, missing)
  OBVIOUS
<1>13. RunLine(t, x) = [service |-> n, item |-> i, expected |-> expected, manual |-> manual,
                        automatic |-> automatic, shortfall |-> missing, issue |-> issue]
  BY <1>1, <1>2, <1>3, <1>4, <1>5, <1>9, <1>10, <1>12 DEF RunLine
<1>14. /\ t.source.issue \in {"none", "SOURCE_LOCATION_MISSING", "SOURCE_LOCATION_AMBIGUOUS"}
       /\ t.source.issue = "none" => t.source.at # NoLocation
       /\ t.source.issue # "none" => t.source.at = NoLocation
  BY DEF CompletionTx, Source, StockAssumption
<1>15. issue =
         IF i \notin t.usable THEN "INVENTORY_ITEM_INACTIVE"
         ELSE IF need = 0 THEN "none"
         ELSE IF t.source.issue # "none" THEN t.source.issue
         ELSE IF missing > 0 THEN "INSUFFICIENT_RECORDED_STOCK" ELSE "none"
  BY <1>1, <1>4, <1>12 DEF LineIssue
<1>16. issue \in Issue
  BY <1>14, <1>15 DEF Issue
<1>17. missing > 0 => issue # "none"
  <2>1. ASSUME need = 0
        PROVE  missing = 0
    <3>1. given = 0
      BY <1>8, <2>1
    <3>2. automatic = 0
      BY <1>9, <3>1
    <3>3. missing = 0 - 0
      BY <1>10, <2>1, <3>2
    <3> QED  BY <3>3
  <2>2. CASE i \in t.usable /\ need # 0 /\ t.source.issue = "none" /\ missing > 0
    BY <1>15, <2>2
  <2>3. CASE i \in t.usable /\ need # 0 /\ t.source.issue # "none"
    BY <1>15, <2>3
  <2>4. CASE i \notin t.usable
    BY <1>15, <2>4
  <2>5. missing > 0 => need # 0
    BY <2>1
  <2> QED  BY <2>2, <2>3, <2>4, <2>5
<1>18. issue \notin {"none", "INVENTORY_ITEM_INACTIVE"} => missing > 0
  <2>1. CASE issue = "INSUFFICIENT_RECORDED_STOCK"
    BY <1>14, <1>15, <2>1
  <2>2. CASE i \in t.usable /\ need # 0 /\ t.source.issue # "none"
    <3>1. applied = 0
      BY <1>8, <1>14, <2>2
    <3>2. given = 0
      BY <1>8, <3>1
    <3>3. automatic = 0
      BY <1>9, <3>2
    <3> QED  BY <1>10, <2>2, <3>3
  <2> QED  BY <1>15, <2>1, <2>2
<1>19. issue = "INSUFFICIENT_RECORDED_STOCK" =>
         i \in t.usable /\ t.source.at # NoLocation /\ applied # needed
  <2>1. ASSUME issue = "INSUFFICIENT_RECORDED_STOCK"
        PROVE  i \in t.usable /\ t.source.at # NoLocation /\ missing > 0
    BY <1>14, <1>15, <2>1
  <2>2. i \in t.usable /\ applied = needed => missing = 0
    BY <1>8, <1>9, <1>10
  <2> QED  BY <2>1, <2>2
<1>20. n \in Nat
  <2>1. PICK N \in Nat : Rows(j) = 1 .. N
    BY RowsOfJob
  <2> QED  BY <2>1
<1>21. RunLine(t, x) \in LineRow
  BY <1>8, <1>11, <1>13, <1>16, <1>20 DEF LineRow
<1>22. PICK line : line = RunLine(t, x)
  OBVIOUS
<1>23. /\ line.service = n /\ line.item = i /\ line.expected = expected /\ line.manual = manual
       /\ line.automatic = automatic /\ line.shortfall = missing /\ line.issue = issue
  BY <1>13, <1>22
<1>24. LineSound(t, n, i, line)
  BY <1>2, <1>3, <1>5, <1>6, <1>7, <1>9, <1>11, <1>17, <1>18, <1>19, <1>21, <1>22, <1>23
     DEF LineSound
<1> QED  BY <1>22, <1>24
-----------------------------------------------------------------------------
(* The lines of an item and what is taken of it.                            *)

LinesOf(lines, i) == {x \in lines : x.item = i}

TakenOf(rows, j, i) == {m \in rows : m.key = j /\ m.item = i}

AutomaticOf(lines, i) == SumFunction([x \in LinesOf(lines, i) |-> x.automatic])

QuantityOf(rows, j, i) == SumFunction([m \in TakenOf(rows, j, i) |-> m.quantity])

(* Every line of a completion is such a line.                               *)
LEMMA CompletionLines ==
  ASSUME Tables, NEW j \in Job, NEW t \in CompletionTx(j), NEW line
  PROVE  /\ line \in RunLines(t) =>
              \E n \in Rows(j), i \in Item :
                /\ t.expected[<<n, i>>] > 0
                /\ line = RunLine(t, <<n, i>>)
                /\ LineSound(t, n, i, line)
         /\ \A n \in Rows(j), i \in Item :
              t.expected[<<n, i>>] > 0 => RunLine(t, <<n, i>>) \in RunLines(t)
<1>1. DOMAIN t.expected = Rows(j) \X Item
  BY DEF CompletionTx, Rows
<1>2. RunLines(t) = {RunLine(t, x) : x \in {y \in Rows(j) \X Item : t.expected[y] > 0}}
  BY <1>1 DEF RunLines
<1>3. ASSUME line \in RunLines(t)
      PROVE  \E n \in Rows(j), i \in Item :
                /\ t.expected[<<n, i>>] > 0
                /\ line = RunLine(t, <<n, i>>)
                /\ LineSound(t, n, i, line)
  <2>1. PICK x \in Rows(j) \X Item : t.expected[x] > 0 /\ line = RunLine(t, x)
    BY <1>2, <1>3
  <2>2. PICK n \in Rows(j), i \in Item : x = <<n, i>>
    OBVIOUS
  <2>3. JobAssumption /\ StockAssumption /\ TypeOK
    BY DEF Tables
  <2>4. Accounted(t, Rows(j), i)
    BY <2>3, CompletionAccounts
  <2>5. LineSound(t, n, i, RunLine(t, x))
    BY <2>1, <2>2, <2>3, <2>4, RunLineSound
  <2> QED  BY <2>1, <2>2, <2>5
<1>4. ASSUME NEW n \in Rows(j), NEW i \in Item, t.expected[<<n, i>>] > 0
      PROVE  RunLine(t, <<n, i>>) \in RunLines(t)
  <2>1. PICK x \in Rows(j) \X Item : x = <<n, i>>
    OBVIOUS
  <2> QED  BY <1>2, <1>4, <2>1
<1> QED  BY <1>3, <1>4

(* A part of the lines of an item adds up over the services of the job: f   *)
(* reads it from a line, given is what each service contributes.            *)
LEMMA LinesSum ==
  ASSUME Tables, NEW j \in Job, NEW t \in CompletionTx(j), NEW i \in Item,
         NEW given,
         \A n \in Rows(j) : given[n] \in Nat /\ (t.expected[<<n, i>>] = 0 => given[n] = 0),
         NEW f,
         \A n \in Rows(j) : t.expected[<<n, i>>] > 0 => f[RunLine(t, <<n, i>>)] = given[n]
  PROVE  SumFunctionOnSet(f, LinesOf(RunLines(t), i)) = SumFunctionOnSet(given, Rows(j))
<1>1. JobAssumption /\ StockAssumption /\ TypeOK
  BY DEF Tables
<1>2. Accounted(t, Rows(j), i)
  BY <1>1, CompletionAccounts
<1>3. PICK R : R = Rows(j) /\ IsFiniteSet(R)
  BY <1>1, RowsOfJob
<1>4. PICK at : at = [n \in R |-> <<n, i>>]
  OBVIOUS
<1>5. PICK S : S = {n \in R : t.expected[at[n]] > 0}
  OBVIOUS
<1>6. PICK name : name = [n \in S |-> RunLine(t, at[n])]
  OBVIOUS
<1>7. PICK lines : lines = LinesOf(RunLines(t), i)
  OBVIOUS
<1>8. \A n \in S : n \in R /\ at[n] = <<n, i>> /\ t.expected[<<n, i>>] > 0
  BY <1>4, <1>5
<1>9. ASSUME NEW n \in S
      PROVE  /\ name[n] \in lines /\ name[n].service = n
             /\ f[name[n]] = given[n] /\ given[n] \in Nat
  <2>1. PICK x : x = <<n, i>>
    OBVIOUS
  <2>2. n \in R /\ name[n] = RunLine(t, x) /\ t.expected[x] > 0
    BY <1>6, <1>8, <2>1
  <2>3. LineSound(t, n, i, RunLine(t, x))
    BY <1>1, <1>2, <1>3, <2>1, <2>2, RunLineSound
  <2>4. RunLine(t, x) \in RunLines(t)
    BY <1>3, <2>1, <2>2, CompletionLines
  <2>5. f[name[n]] = given[n] /\ given[n] \in Nat
    BY <1>3, <2>1, <2>2
  <2>6. name[n].item = i /\ name[n].service = n
    BY <2>2, <2>3 DEF LineSound
  <2> QED  BY <1>7, <2>2, <2>4, <2>5, <2>6 DEF LinesOf
<1>10. \A x \in lines : \E n \in S : x = name[n]
  <2>1. ASSUME NEW x \in lines
        PROVE  \E n \in S : x = name[n]
    <3>1. x \in RunLines(t) /\ x.item = i
      BY <1>7 DEF LinesOf
    <3>2. PICK n \in Rows(j), k \in Item :
             /\ t.expected[<<n, k>>] > 0
             /\ x = RunLine(t, <<n, k>>)
             /\ LineSound(t, n, k, x)
      BY <3>1, CompletionLines
    <3>3. k = i
      BY <3>1, <3>2 DEF LineSound
    <3>4. n \in S /\ at[n] = <<n, i>>
      BY <1>3, <1>4, <1>5, <3>2, <3>3
    <3> QED  BY <1>6, <3>2, <3>3, <3>4
  <2> QED  BY <2>1
<1>11. lines = {name[n] : n \in S}
  BY <1>9, <1>10
<1>12. IsFiniteSet(S) /\ S \in SUBSET R
  <2>1. S \in SUBSET R
    BY <1>5
  <2> QED  BY <1>3, <2>1, FS_Subset
<1>13. Renames(S, name, f, given)
  <2>1. \A n \in S : f[name[n]] = given[n] /\ given[n] \in Int
    BY <1>9
  <2>2. \A n, k \in S : n # k => name[n] # name[k]
    BY <1>9
  <2> QED  BY <2>1, <2>2 DEF Renames
<1>14. SumFunctionOnSet(f, lines) = SumFunctionOnSet(given, S)
  <2>1. SumFunctionOnSet(f, {name[n] : n \in S}) = SumFunctionOnSet(given, S)
    BY <1>12, <1>13, SumImage
  <2> QED  BY <1>11, <2>1
<1>15. SumFunctionOnSet(given, R) = SumFunctionOnSet(given, S)
  <2>1. \A n \in S : given[n] \in Int /\ given[n] = given[n]
    BY <1>9
  <2>2. ASSUME NEW n \in R \ S
        PROVE  given[n] = 0
    <3>1. PICK asked \in Nat : asked = t.expected[<<n, i>>]
      BY <1>2, <1>3 DEF Accounted
    <3>2. ~(asked > 0)
      BY <1>4, <1>5, <3>1
    <3>3. asked = 0
      BY <3>2
    <3> QED  BY <1>3, <3>1, <3>3
  <2> QED  BY <1>3, <1>12, <2>1, <2>2, SumExtend
<1> QED  BY <1>3, <1>7, <1>14, <1>15

(* The automatic parts of an item add up to what was applied of it.         *)
LEMMA AutomaticIsApplied ==
  ASSUME Tables, NEW j \in Job, NEW t \in CompletionTx(j), NEW i \in Item
  PROVE  AutomaticOf(RunLines(t), i) = Applied(t)[i]
<1>1. JobAssumption /\ StockAssumption /\ TypeOK
  BY DEF Tables
<1>2. Accounted(t, Rows(j), i)
  BY <1>1, CompletionAccounts
<1>3. PICK R : R = Rows(j) /\ IsFiniteSet(R)
  BY <1>1, RowsOfJob
<1>6. PICK given : given = [n \in R |-> IF i \in t.usable THEN Automatic(t)[i][n] ELSE 0]
  OBVIOUS
<1>8. PICK lines : lines = LinesOf(RunLines(t), i)
  OBVIOUS
<1>9. PICK f : f = [x \in lines |-> x.automatic]
  OBVIOUS
<1>10. ASSUME NEW n \in R
       PROVE  given[n] \in Nat /\ (t.expected[<<n, i>>] = 0 => given[n] = 0)
  <2>1. PICK asked \in Nat : asked = t.expected[<<n, i>>]
    BY <1>2, <1>3 DEF Accounted
  <2>2. PICK manual \in Nat : manual = Manual(t)[i][n]
    BY <1>2, <1>3 DEF Accounted
  <2>3. PICK need \in Nat : need = Need(t)[<<n, i>>] /\ asked = manual + need
    BY <1>2, <1>3, <2>1, <2>2 DEF Accounted
  <2>4. PICK g \in Nat : g = Automatic(t)[i][n] /\ g <= need
    BY <1>2, <1>3, <2>3 DEF Accounted
  <2>5. asked = 0 => g = 0
    <3>1. asked = manual + need /\ g <= need
      BY <2>3, <2>4
    <3> QED  BY <3>1
  <2> QED  BY <1>6, <2>1, <2>4, <2>5
<1>11. ASSUME NEW n \in R, t.expected[<<n, i>>] > 0
       PROVE  f[RunLine(t, <<n, i>>)] = given[n]
  <2>1. PICK x : x = <<n, i>>
    OBVIOUS
  <2>2. LineSound(t, n, i, RunLine(t, x)) /\ RunLine(t, x) \in RunLines(t)
    BY <1>1, <1>2, <1>3, <1>11, <2>1, RunLineSound, CompletionLines
  <2> QED  BY <1>6, <1>8, <1>9, <2>1, <2>2 DEF LineSound, LinesOf
<1>12. SumFunctionOnSet(f, lines) = SumFunctionOnSet(given, R)
  BY <1>3, <1>8, <1>10, <1>11, LinesSum
<1>13. SumFunctionOnSet(given, R) = Applied(t)[i]
  <2>1. CASE i \in t.usable
    <3>1. PICK auto : auto = Automatic(t)[i]
      OBVIOUS
    <3>2. \A n \in R : given[n] \in Int /\ given[n] = auto[n]
      <4>1. \A n \in R : auto[n] \in Nat
        BY <1>2, <1>3, <3>1 DEF Accounted
      <4> QED  BY <1>6, <2>1, <3>1, <4>1
    <3>3. SumFunctionOnSet(given, R) = SumFunctionOnSet(auto, R)
      BY <1>3, <3>2, SumSame
    <3>4. SumFunctionOnSet(auto, R) = Applied(t)[i]
      BY <1>2, <1>3, <2>1, <3>1 DEF Accounted
    <3> QED  BY <3>3, <3>4
  <2>2. CASE i \notin t.usable
    <3>1. PICK none : none = {}
      OBVIOUS
    <3>2. none \in SUBSET R /\ \A n \in R \ none : given[n] = 0
      BY <1>6, <2>2, <3>1
    <3>3. \A n \in none : given[n] \in Int /\ given[n] = given[n]
      BY <3>1
    <3>4. SumFunctionOnSet(given, R) = SumFunctionOnSet(given, none)
      BY <1>3, <3>2, <3>3, SumExtend
    <3>5. SumFunctionOnSet(given, none) = 0
      BY <3>1, SumEmpty
    <3>6. PICK applied : applied = Applied(t)[i]
      OBVIOUS
    <3>7. applied \in Nat /\ applied <= 0
      BY <1>2, <2>2, <3>6 DEF Accounted
    <3> QED  BY <3>4, <3>5, <3>6, <3>7
  <2> QED  BY <2>1, <2>2
<1>14. AutomaticOf(RunLines(t), i) = SumFunctionOnSet(f, lines)
  BY <1>8, <1>9 DEF AutomaticOf, SumFunction
<1> QED  BY <1>12, <1>13, <1>14

(* The manual parts of an item add up to the manual usage that was read, up *)
(* to what is expected.                                                     *)
ManualOf(lines, i) == SumFunction([x \in LinesOf(lines, i) |-> x.manual])

ExpectedOf(lines, i) == SumFunction([x \in LinesOf(lines, i) |-> x.expected])

LEMMA ManualIsSpread ==
  ASSUME Tables, NEW j \in Job, NEW t \in CompletionTx(j), NEW i \in Item
  PROVE  ManualOf(RunLines(t), i) = Least(t.manual[i], ExpectedOf(RunLines(t), i))
<1>1. JobAssumption /\ StockAssumption /\ TypeOK
  BY DEF Tables
<1>2. Accounted(t, Rows(j), i)
  BY <1>1, CompletionAccounts
<1>3. PICK N \in Nat : Rows(j) = 1 .. N
  BY <1>1, RowsOfJob
<1>4. PICK R : R = 1 .. N
  OBVIOUS
<1>5. t.expected \in [R \X Item -> Nat] /\ t.manual[i] \in Nat
  BY <1>3, <1>4 DEF CompletionTx, Rows
<1>6. PICK asked : asked = [n \in R |-> t.expected[n, i]]
  OBVIOUS
<1>7. asked \in [1 .. N -> Nat]
  BY <1>4, <1>5, <1>6
<1>8. PICK manual : manual = Spread(t.manual[i], asked)
  OBVIOUS
<1>9. {x[1] : x \in DOMAIN t.expected} = R
  <2>1. ASSUME NEW n \in R
        PROVE  n \in {x[1] : x \in DOMAIN t.expected}
    <3>1. <<n, i>> \in DOMAIN t.expected
      BY <1>5
    <3> QED  BY <3>1
  <2>2. \A x \in DOMAIN t.expected : x[1] \in R
    BY <1>5
  <2> QED  BY <2>1, <2>2
<1>10. Manual(t)[i] = manual
  BY <1>6, <1>8, <1>9 DEF Manual
<1>11. /\ manual \in [1 .. N -> Nat] /\ \A n \in 1 .. N : manual[n] <= asked[n]
       /\ SumFunctionOnSet(manual, 1 .. N) = Least(t.manual[i], SumFunctionOnSet(asked, 1 .. N))
  BY <1>5, <1>7, <1>8, SpreadSound
<1>12. PICK lines : lines = LinesOf(RunLines(t), i)
  OBVIOUS
<1>13. PICK f : f = [x \in lines |-> x.manual]
  OBVIOUS
<1>14. PICK g : g = [x \in lines |-> x.expected]
  OBVIOUS
<1>15. \A n \in R : t.expected[<<n, i>>] = asked[n] /\ asked[n] \in Nat
  BY <1>4, <1>6, <1>7
<1>16. ASSUME NEW n \in R
       PROVE  manual[n] \in Nat /\ (t.expected[<<n, i>>] = 0 => manual[n] = 0)
  <2>1. manual[n] \in Nat /\ manual[n] <= asked[n] /\ asked[n] \in Nat
    BY <1>4, <1>11, <1>15
  <2>2. asked[n] = 0 => manual[n] = 0
    BY <2>1
  <2> QED  BY <1>15, <2>1, <2>2
<1>17. ASSUME NEW n \in R, t.expected[<<n, i>>] > 0
       PROVE  f[RunLine(t, <<n, i>>)] = manual[n] /\ g[RunLine(t, <<n, i>>)] = asked[n]
  <2>1. PICK x : x = <<n, i>>
    OBVIOUS
  <2>2. LineSound(t, n, i, RunLine(t, x)) /\ RunLine(t, x) \in RunLines(t)
    BY <1>1, <1>2, <1>3, <1>4, <1>17, <2>1, RunLineSound, CompletionLines
  <2>3. RunLine(t, x).manual = manual[n] /\ RunLine(t, x).expected = asked[n]
    BY <1>10, <1>15, <2>2 DEF LineSound
  <2> QED  BY <1>12, <1>13, <1>14, <2>1, <2>2, <2>3 DEF LineSound, LinesOf
<1>18. SumFunctionOnSet(f, lines) = SumFunctionOnSet(manual, R)
  BY <1>3, <1>4, <1>12, <1>16, <1>17, LinesSum
<1>19. SumFunctionOnSet(g, lines) = SumFunctionOnSet(asked, R)
  BY <1>3, <1>4, <1>12, <1>15, <1>17, LinesSum
<1>20. /\ ManualOf(RunLines(t), i) = SumFunctionOnSet(f, lines)
       /\ ExpectedOf(RunLines(t), i) = SumFunctionOnSet(g, lines)
  BY <1>12, <1>13, <1>14 DEF ManualOf, ExpectedOf, SumFunction
<1> QED  BY <1>4, <1>11, <1>18, <1>19, <1>20
-----------------------------------------------------------------------------
(* What a completion takes.                                                 *)

(* What is applied is the lesser of the stock and the need.                 *)
LEMMA AppliedType ==
  ASSUME Tables, NEW j \in Job, NEW t \in CompletionTx(j)
  PROVE  /\ Applied(t) \in [Item -> Nat]
         /\ \A i \in Item : Accounted(t, Rows(j), i)
<1>1. ASSUME NEW i \in Item
      PROVE  Accounted(t, Rows(j), i)
  BY CompletionAccounts DEF Tables
<1>2. \A i \in Item : Applied(t)[i] \in Nat
  BY <1>1 DEF Accounted
<1>3. Applied(t) = [i \in Item |-> Applied(t)[i]]
  BY DEF Applied
<1> QED  BY <1>1, <1>2, <1>3

(* A completion that draws on no place applies nothing, ...                 *)
LEMMA NothingDrawn ==
  ASSUME Tables, NEW j \in Job, NEW t \in CompletionTx(j),
         CompletionRun(t).source = NoLocation, NEW i \in Item
  PROVE  Applied(t)[i] = 0
<1>1. Accounted(t, Rows(j), i)
  BY AppliedType
<1>2. PICK applied : applied = Applied(t)[i]
  OBVIOUS
<1>3. PICK needed : needed = Needed(t)[i]
  OBVIOUS
<1>4. /\ applied \in Nat /\ needed \in Nat /\ applied <= needed
      /\ t.source.at = NoLocation => applied = 0
  BY <1>1, <1>2, <1>3 DEF Accounted
<1>5. t.source.at = NoLocation \/ ~(needed > 0)
  BY <1>3 DEF CompletionRun
<1> QED  BY <1>2, <1>4, <1>5

(* ... and one that does takes it from where it said.                       *)
LEMMA DrawnFrom ==
  ASSUME StockAssumption, NEW j \in Job, NEW t \in CompletionTx(j),
         CompletionRun(t).source # NoLocation
  PROVE  CompletionRun(t).source = t.source.at /\ t.source.at \in Location
<1>1. CompletionRun(t).source = t.source.at
  BY DEF CompletionRun
<1>2. t.source.at \in Location \cup {NoLocation}
  BY DEF CompletionTx, Source
<1> QED  BY <1>1, <1>2

(* A completion takes no more than its place has.                           *)
LEMMA CompletionCovers ==
  ASSUME Tables, NEW j \in Job, NEW t \in CompletionTx(j), t.source.at \in Location
  PROVE  Enough(t.source.at, Applied(t))
<1>1. PICK l \in Location : l = t.source.at
  OBVIOUS
<1>2. l # NoLocation
  BY DEF Tables, StockAssumption
<1>3. ASSUME NEW i \in Item
      PROVE  stock[<<i, l>>] >= Applied(t)[i]
  <2>1. <<i, l>> \in StockRow
    BY DEF StockRow
  <2>2. PICK old \in Nat : old = stock[<<i, l>>]
    BY <2>1 DEF Tables, TypeOK
  <2>3. Accounted(t, Rows(j), i)
    BY AppliedType
  <2>4. PICK needed \in Nat : needed = Needed(t)[i]
    BY <2>3 DEF Accounted
  <2>5. Applied(t)[i] = Least(old, needed)
    BY <1>1, <1>2, <2>2, <2>3, <2>4 DEF Accounted
  <2> QED  BY <2>2, <2>5, LeastType
<1> QED  BY <1>1, <1>3 DEF Enough

(* The commit of a completion keeps the ledger.                             *)
LEMMA CompletionWrites ==
  ASSUME Tables, NEW s \in Session, CommitCompletion(s), NEW t, t = tx[s], NEW j, j = t.key
  PROVE  Writes(j)
<1>1. t.kind = "completion" /\ tx[s].kind = "completion"
  BY DEF CommitCompletion
<1>2. /\ j \in Job /\ t \in CompletionTx(j) /\ j \in Key /\ operation[j] = NoRequest
      /\ run[j] = NoRun /\ \A m \in movement : m.key # j
  BY <1>1, CompletionOf
<1>3. run'[j] = CompletionRun(t)
  <2>1. run' = [run EXCEPT ![j] = CompletionRun(t)]
    BY DEF CommitCompletion
  <2> QED  BY <1>2, <2>1 DEF Tables, TypeOK
<1>4. Explained(movement, stock) /\ StockAssumption /\ stock \in [StockRow -> Nat]
  BY TablesExplain DEF Tables, TypeOK
<1>5. CASE run'[j].source = NoLocation
  <2>1. UNCHANGED <<stock, operation, movement>>
    BY <1>5 DEF CommitCompletion
  <2> QED  BY <1>4, <2>1 DEF Writes
<1>6. CASE run'[j].source # NoLocation
  <2>1. PICK l \in Location : l = t.source.at
    BY <1>2, <1>3, <1>4, <1>6, DrawnFrom
  <2>2. PICK applied \in [Item -> Nat] : applied = Applied(t)
    BY <1>2, AppliedType
  <2>3. PICK change : change = Negative(applied)
    OBVIOUS
  <2>4. PICK new : new = Movements(j, "usage", l, applied, j)
    OBVIOUS
  <2>5. PICK next : next = Moved(stock, l, change)
    OBVIOUS
  <2>6. PICK more : more = movement \cup new
    OBVIOUS
  <2>7. stock' = next /\ movement' = more
    BY <1>6, <2>1, <2>2, <2>3, <2>4, <2>5, <2>6 DEF CommitCompletion
  <2>8. "usage" \in Outbound /\ "usage" \in Inbound \cup Outbound /\ j \in Job \cup {NoJob}
    BY <1>2 DEF Outbound
  <2>9. Effects(change, "usage", applied)
    BY <2>3, <2>8, OutEffects
  <2>10. NoneOf(movement, j, "usage")
    BY <1>2 DEF NoneOf
  <2>11. applied \in [Item -> Int]
    OBVIOUS
  <2>12. Explained(more, next)
    BY <1>2, <1>4, <2>4, <2>5, <2>6, <2>8, <2>9, <2>10, <2>11, ExplainedAdd
  <2>13. Enough(l, applied)
    BY <1>2, <2>1, <2>2, CompletionCovers
  <2>14. next \in [StockRow -> Nat]
    BY <2>3, <2>5, <2>13, EnoughCovers
  <2>15. \A m \in new : m.key = j
    BY <2>4, MovementKeys
  <2> QED  BY <2>6, <2>7, <2>12, <2>14, <2>15 DEF Writes
<1> QED  BY <1>5, <1>6

(* The movements of a completion carry what it applied.                     *)
LEMMA CompletionTakes ==
  ASSUME Tables, NEW s \in Session, CommitCompletion(s), NEW t, t = tx[s], NEW j, j = t.key,
         NEW i \in Item
  PROVE  QuantityOf(movement', j, i) = Applied(t)[i]
<1>1. t.kind = "completion" /\ tx[s].kind = "completion"
  BY DEF CommitCompletion
<1>2. /\ j \in Job /\ t \in CompletionTx(j)
      /\ run[j] = NoRun /\ \A m \in movement : m.key # j
  BY <1>1, CompletionOf
<1>3. run'[j] = CompletionRun(t)
  <2>1. run' = [run EXCEPT ![j] = CompletionRun(t)]
    BY DEF CommitCompletion
  <2> QED  BY <1>2, <2>1 DEF Tables, TypeOK
<1>4. PICK applied \in [Item -> Nat] : applied = Applied(t)
  BY <1>2, AppliedType
<1>5. PICK rows : rows = movement'
  OBVIOUS
<1>6. PICK taken : taken = TakenOf(rows, j, i)
  OBVIOUS
<1>7. PICK f : f = [m \in taken |-> m.quantity]
  OBVIOUS
<1>8. QuantityOf(rows, j, i) = SumFunctionOnSet(f, taken)
  BY <1>6, <1>7 DEF QuantityOf, SumFunction
<1>9. ASSUME taken = {}, applied[i] = 0
      PROVE  QuantityOf(rows, j, i) = applied[i]
  BY <1>8, <1>9, SumEmpty
<1>10. CASE run'[j].source = NoLocation
  <2>1. rows = movement
    BY <1>5, <1>10 DEF CommitCompletion
  <2>2. taken = {}
    BY <1>2, <1>6, <2>1 DEF TakenOf
  <2>3. applied[i] = 0
    BY <1>2, <1>3, <1>4, <1>10, NothingDrawn
  <2> QED  BY <1>4, <1>5, <1>9, <2>2, <2>3
<1>11. CASE run'[j].source # NoLocation
  <2>1. PICK l : l = t.source.at
    OBVIOUS
  <2>2. PICK new : new = Movements(j, "usage", l, applied, j)
    OBVIOUS
  <2>3. rows = movement \cup new
    BY <1>4, <1>5, <1>11, <2>1, <2>2 DEF CommitCompletion
  <2>4. taken = {m \in new : m.item = i}
    <3>1. \A m \in new : m.key = j
      BY <2>2, MovementKeys
    <3> QED  BY <1>2, <1>6, <2>3, <3>1 DEF TakenOf
  <2>5. CASE applied[i] = 0
    <3>1. taken = {}
      BY <2>2, <2>4, <2>5 DEF Movements
    <3> QED  BY <1>4, <1>5, <1>9, <2>5, <3>1
  <2>6. CASE applied[i] # 0
    <3>1. PICK e : e = [key |-> j, kind |-> "usage", item |-> i, at |-> l,
                        quantity |-> applied[i], job |-> j]
      OBVIOUS
    <3>2. applied[i] \in Nat /\ applied[i] > 0
      BY <2>6
    <3>3. e \in new
      BY <2>2, <3>1, <3>2 DEF Movements
    <3>4. \A m \in new : m.item = i => m = e
      BY <2>2, <3>1 DEF Movements
    <3>5. e.item = i /\ e.quantity = applied[i]
      BY <3>1
    <3>6. taken = {e}
      BY <2>4, <3>3, <3>4, <3>5
    <3>7. PICK none : none = {}
      OBVIOUS
    <3>8. f[e] = applied[i]
      BY <1>7, <3>5, <3>6
    <3>9. IsFiniteSet(none) /\ e \notin none /\ \A x \in none \cup {e} : f[x] \in Int
      BY <3>2, <3>7, <3>8, FS_EmptySet
    <3>10. SumFunctionOnSet(f, none \cup {e}) = f[e] + SumFunctionOnSet(f, none)
      BY <3>9, SumAdd
    <3>11. SumFunctionOnSet(f, none) = 0
      BY <3>7, SumEmpty
    <3>12. SumFunctionOnSet(f, none \cup {e}) = applied[i]
      BY <3>2, <3>8, <3>10, <3>11
    <3>13. none \cup {e} = taken
      BY <3>6, <3>7
    <3>14. SumFunctionOnSet(f, taken) = applied[i]
      BY <3>12, <3>13, Zenon
    <3> QED  BY <1>4, <1>5, <1>8, <3>14
  <2> QED  BY <2>5, <2>6
<1> QED  BY <1>10, <1>11
-----------------------------------------------------------------------------
(* A completion that could not take all it needed left nothing there.       *)
LEMMA CompletionEmpties ==
  ASSUME Tables, NEW s \in Session, CommitCompletion(s), NEW t, t = tx[s], NEW j, j = t.key,
         NEW line \in RunLines(t), line.issue = "INSUFFICIENT_RECORDED_STOCK"
  PROVE  stock'[line.item, run'[j].source] = 0
<1>1. t.kind = "completion" /\ tx[s].kind = "completion"
  BY DEF CommitCompletion
<1>2. j \in Job /\ t \in CompletionTx(j)
  BY <1>1, CompletionOf
<1>3. run'[j] = CompletionRun(t)
  <2>1. run' = [run EXCEPT ![j] = CompletionRun(t)]
    BY DEF CommitCompletion
  <2> QED  BY <1>2, <2>1 DEF Tables, TypeOK
<1>4. PICK n \in Rows(j), i \in Item : LineSound(t, n, i, line)
  BY <1>2, CompletionLines
<1>5. /\ line.item = i /\ t.source.at # NoLocation /\ Applied(t)[i] # Needed(t)[i]
  BY <1>4 DEF LineSound
<1>6. PICK l \in Location : l = t.source.at
  BY <1>2, <1>5 DEF CompletionTx, Source
<1>7. PICK x \in StockRow : x = <<i, l>>
  BY DEF StockRow
<1>8. PICK old \in Nat : old = stock[x]
  BY DEF Tables, TypeOK
<1>9. Accounted(t, Rows(j), i)
  BY <1>2, AppliedType
<1>10. PICK needed \in Nat : needed = Needed(t)[i]
  BY <1>9 DEF Accounted
<1>11. PICK applied \in Nat : applied = Applied(t)[i]
  BY <1>9 DEF Accounted
<1>12. applied = Least(old, needed) /\ applied # needed
  BY <1>5, <1>6, <1>7, <1>8, <1>9, <1>10, <1>11 DEF Accounted
<1>13. applied = old /\ needed > 0
  BY <1>12 DEF Least
<1>14. run'[j].source = l /\ l # NoLocation
  BY <1>3, <1>5, <1>6, <1>10, <1>13 DEF CompletionRun
<1>15. stock' = Moved(stock, l, Negative(Applied(t)))
  BY <1>6, <1>14 DEF CommitCompletion
<1>16. stock'[x] = old + (-applied)
  BY <1>7, <1>8, <1>11, <1>15 DEF Moved, Negative
<1>17. stock'[x] = 0
  BY <1>13, <1>16
<1> QED  BY <1>5, <1>7, <1>14, <1>17
-----------------------------------------------------------------------------
(* The accounts of the jobs.                                                *)

JobAccounted(lines, rows, j, i) ==
  /\ \A x \in LinesOf(lines, i) :
       /\ x.expected = x.manual + x.automatic + x.shortfall
       /\ x.shortfall > 0 => x.issue # "none"
       /\ x.issue \notin {"none", "INVENTORY_ITEM_INACTIVE"} => x.shortfall > 0
  /\ AutomaticOf(lines, i) = QuantityOf(rows, j, i)

JobsAccounted == \A j \in Job, i \in Item : JobAccounted(run[j].lines, movement, j, i)

(* The accounts, job by job and item by item.                               *)
LEMMA AccountedByJob == CompletionAccounted <=> JobsAccounted
BY DEF CompletionAccounted, JobsAccounted, JobAccounted, LinesOf, TakenOf, AutomaticOf, QuantityOf

(* The accounts of a job depend on the movements of its key only.           *)
LEMMA SameAccounts ==
  ASSUME NEW lines, NEW rows, NEW more, NEW j, NEW i, JobAccounted(lines, rows, j, i),
         {m \in more : m.key = j} = {m \in rows : m.key = j}
  PROVE  JobAccounted(lines, more, j, i)
<1>1. TakenOf(more, j, i) = TakenOf(rows, j, i)
  BY DEF TakenOf
<1>2. QuantityOf(more, j, i) = QuantityOf(rows, j, i)
  BY <1>1 DEF QuantityOf
<1> QED  BY <1>2 DEF JobAccounted

(* The commit of a completion leaves accounts that agree.                   *)
LEMMA NewAccounts ==
  ASSUME Tables, NEW s \in Session, CommitCompletion(s), NEW t, t = tx[s], NEW j, j = t.key,
         NEW i \in Item
  PROVE  JobAccounted(RunLines(t), movement', j, i)
<1>1. t.kind = "completion" /\ tx[s].kind = "completion"
  BY DEF CommitCompletion
<1>2. j \in Job /\ t \in CompletionTx(j)
  BY <1>1, CompletionOf
<1>3. PICK lines : lines = RunLines(t)
  OBVIOUS
<1>4. ASSUME NEW x \in LinesOf(lines, i)
      PROVE  /\ x.expected = x.manual + x.automatic + x.shortfall
             /\ x.shortfall > 0 => x.issue # "none"
             /\ x.issue \notin {"none", "INVENTORY_ITEM_INACTIVE"} => x.shortfall > 0
  <2>1. x \in RunLines(t)
    BY <1>3 DEF LinesOf
  <2>2. PICK n \in Rows(j), k \in Item : LineSound(t, n, k, x)
    BY <1>2, <2>1, CompletionLines
  <2> QED  BY <2>2 DEF LineSound
<1>5. AutomaticOf(lines, i) = QuantityOf(movement', j, i)
  BY <1>2, <1>3, AutomaticIsApplied, CompletionTakes
<1> QED  BY <1>3, <1>4, <1>5 DEF JobAccounted

(* An operation leaves the rows of other keys alone.                        *)
LEMMA WritesKeep ==
  ASSUME NEW k, Writes(k), NEW j, j # k
  PROVE  {m \in movement' : m.key = j} = {m \in movement : m.key = j}
BY DEF Writes

(* It leaves stock that its movements explain.                              *)
LEMMA WritesLedger ==
  ASSUME NEW k, Writes(k)
  PROVE  LedgerExplainsStock' /\ movement' \subseteq MovementRow /\ IsFiniteSet(movement')
<1>1. \A i \in Item, l \in Location : stock'[i, l] = Balance(movement', i, l)
  BY DEF Writes, Explained
<1>2. LedgerExplainsStock'
  BY <1>1 DEF LedgerExplainsStock, Balance
<1> QED  BY <1>2 DEF Writes, Explained
-----------------------------------------------------------------------------
(* Types of what is read and written.                                       *)

(* The templates give quantities.                                           *)
LEMMA ExpectedType ==
  ASSUME Tables, NEW j \in Job
  PROVE  Expected(j) \in [(DOMAIN Performed[j]) \X Item -> Nat]
<1>1. PICK seq \in Seq(Service) : seq = Performed[j]
  BY DEF Tables, JobAssumption
<1>2. template \in [Service -> [Item -> Nat]]
  BY DEF Tables, TypeOK, StockAssumption
<1>3. ASSUME NEW x \in (DOMAIN seq) \X Item
      PROVE  template[seq[x[1]]][x[2]] \in Nat
  <2>1. x[1] \in DOMAIN seq /\ x[2] \in Item
    OBVIOUS
  <2>2. seq[x[1]] \in Service
    BY <2>1, ElementOfSeq
  <2> QED  BY <1>2, <2>1, <2>2
<1> QED  BY <1>1, <1>3 DEF Expected

(* The manual usage of a job is a quantity of each item.                    *)
LEMMA ManualType ==
  ASSUME Tables, NEW j \in Job
  PROVE  ManualUsage(j) \in [Item -> Nat]
<1>1. ASSUME NEW i \in Item
      PROVE  ManualUsage(j)[i] \in Nat
  <2>1. PICK S : S = {n \in JobUsage(j) : n.item = i}
    OBVIOUS
  <2>2. PICK f : f = [m \in S |-> m.quantity]
    OBVIOUS
  <2>3. S \in SUBSET movement
    BY <2>1 DEF JobUsage
  <2>4. IsFiniteSet(S)
    BY <2>3, FS_Subset DEF Tables, Recorded
  <2>5. \A m \in S : f[m] \in Nat
    BY <2>2, <2>3 DEF Tables, TypeOK, MovementRow
  <2>6. SumFunctionOnSet(f, S) \in Nat
    BY <2>4, <2>5, SumNat
  <2> QED  BY <2>1, <2>2, <2>6 DEF ManualUsage, SumFunction
<1>2. ManualUsage(j) = [i \in Item |-> ManualUsage(j)[i]]
  BY DEF ManualUsage
<1> QED  BY <1>1, <1>2

(* A source is an active location, or the issue why there is none.          *)
LEMMA SourceType ==
  ASSUME TypeOK
  PROVE  SourceLocation \in Source
<1>1. PICK usable : usable = active \cap Location
  OBVIOUS
<1>2. PICK main : main = usable \cap MainLocation
  OBVIOUS
<1>3. Cardinality(main) = 1 => main # {}
  BY FS_EmptySet
<1>4. \A l \in usable : l \in Location
  BY <1>1
<1>5. SourceLocation =
        CASE usable = {} -> [at |-> NoLocation, issue |-> "SOURCE_LOCATION_MISSING"]
          [] default \in usable -> [at |-> default, issue |-> "none"]
          [] Cardinality(usable) = 1 -> [at |-> CHOOSE l \in usable : TRUE, issue |-> "none"]
          [] Cardinality(main) = 1 -> [at |-> CHOOSE l \in main : TRUE, issue |-> "none"]
          [] OTHER -> [at |-> NoLocation, issue |-> "SOURCE_LOCATION_AMBIGUOUS"]
  BY <1>1, <1>2 DEF SourceLocation
<1>6. ASSUME NEW l \in Location
      PROVE  [at |-> l, issue |-> "none"] \in Source
  BY DEF Source
<1>7. /\ [at |-> NoLocation, issue |-> "SOURCE_LOCATION_MISSING"] \in Source
      /\ [at |-> NoLocation, issue |-> "SOURCE_LOCATION_AMBIGUOUS"] \in Source
  BY DEF Source
<1>8. usable # {} => (CHOOSE l \in usable : TRUE) \in usable
  OBVIOUS
<1>9. main # {} => (CHOOSE l \in main : TRUE) \in usable
  BY <1>2
<1> QED  BY <1>3, <1>4, <1>5, <1>6, <1>7, <1>8, <1>9

(* The run of a completion is a row.                                        *)
LEMMA RunType ==
  ASSUME Tables, NEW j \in Job, NEW t \in CompletionTx(j)
  PROVE  CompletionRun(t) \in RunRow
<1>1. \A x \in RunLines(t) : x \in LineRow
  <2>1. ASSUME NEW x \in RunLines(t)
        PROVE  x \in LineRow
    <3>1. PICK n \in Rows(j), i \in Item : LineSound(t, n, i, x)
      BY CompletionLines
    <3> QED  BY <3>1 DEF LineSound
  <2> QED  BY <2>1
<1>2. PICK lines \in SUBSET LineRow : lines = RunLines(t)
  BY <1>1
<1>3. PICK source \in Location \cup {NoLocation} :
        source = IF \E i \in Item : Needed(t)[i] > 0 THEN t.source.at ELSE NoLocation
  BY DEF CompletionTx, Source
<1>4. PICK status \in {"no_template", "needs_review", "applied"} :
        status = IF lines = {} THEN "no_template"
                 ELSE IF \E x \in lines : x.issue # "none" THEN "needs_review" ELSE "applied"
  OBVIOUS
<1>5. CompletionRun(t) = [status |-> status, source |-> source, lines |-> lines, reviewed |-> FALSE]
  BY <1>2, <1>3, <1>4 DEF CompletionRun
<1> QED  BY <1>5 DEF RunRow
-----------------------------------------------------------------------------
(* The sessions.                                                            *)

(* An open transaction has a kind and a key.                                *)
LEMMA OpenKind ==
  ASSUME NEW t, TxRow(t)
  PROVE  (t = Idle <=> t.kind = "idle") /\ (t # Idle => t.key \in Key)
<1>1. CASE t = Idle
  BY <1>1 DEF Idle
<1>2. CASE t \in RequestTx
  BY <1>2 DEF RequestTx, Idle
<1>3. CASE \E j \in Job : t \in CompletionTx(j)
  BY <1>3 DEF CompletionTx, Idle, Key
<1> QED  BY <1>1, <1>2, <1>3 DEF TxRow

(* A transaction begins under a key that is free.                           *)
LEMMA BeginSessions ==
  ASSUME Tables, NEW s \in Session, NEW t, TxRow(t), t # Idle, KeyFree(t.key),
         t.kind = "completion" => job[t.key] = "in_progress",
         tx' = [tx EXCEPT ![s] = t], UNCHANGED <<operation, job>>
  PROVE  Sessions' /\ DOMAIN tx' = Session /\ \A p \in Session : TxRow(tx'[p])
<1>1. DOMAIN tx = Session /\ \A p \in Session : TxRow(tx[p])
  BY DEF Tables, TypeOK
<1>2. /\ tx'[s] = t /\ \A p \in Session \ {s} : tx'[p] = tx[p]
      /\ DOMAIN tx' = Session
  BY <1>1
<1>3. \A p \in Session : TxRow(tx'[p])
  BY <1>1, <1>2
<1>4. operation[t.key] = NoRequest /\ \A p \in Session : tx[p] # Idle => tx[p].key # t.key
  BY <1>1, OpenKind DEF KeyFree
<1> QED  BY <1>2, <1>3, <1>4 DEF Tables, Sessions

(* It ends, having recorded at most the operation of its key.               *)
LEMMA EndSessions ==
  ASSUME Tables, NEW s \in Session, tx[s] # Idle, NEW k, k = tx[s].key,
         tx' = [tx EXCEPT ![s] = Idle],
         \A c \in Key : c # k => operation'[c] = operation[c],
         \A j \in Job : j # k => job'[j] = job[j]
  PROVE  Sessions' /\ DOMAIN tx' = Session /\ \A p \in Session : TxRow(tx'[p])
<1>1. DOMAIN tx = Session /\ \A p \in Session : TxRow(tx[p])
  BY DEF Tables, TypeOK
<1>2. /\ tx'[s] = Idle /\ \A p \in Session \ {s} : tx'[p] = tx[p]
      /\ DOMAIN tx' = Session
  BY <1>1
<1>3. TxRow(Idle)
  BY DEF TxRow
<1>4. \A p \in Session : TxRow(tx'[p])
  BY <1>1, <1>2, <1>3
<1>5. ASSUME NEW p \in Session, tx'[p] # Idle
      PROVE  /\ p # s /\ tx'[p] = tx[p] /\ tx[p].key # k
             /\ tx[p].key \in Key /\ operation'[tx'[p].key] = NoRequest
  <2>1. p # s /\ tx'[p] = tx[p]
    BY <1>2, <1>5
  <2>2. tx[p] # Idle /\ tx[p].key # k /\ operation[tx[p].key] = NoRequest
    BY <1>5, <2>1 DEF Tables, Sessions
  <2>3. tx[p].key \in Key
    BY <1>1, <2>2, OpenKind
  <2> QED  BY <2>1, <2>2, <2>3
<1>6. ASSUME NEW p \in Session, tx'[p].kind = "completion"
      PROVE  job'[tx'[p].key] = "in_progress"
  <2>1. tx'[p] # Idle
    BY <1>6 DEF Idle
  <2>2. tx'[p] = tx[p] /\ tx[p].key # k /\ tx[p].kind = "completion"
    BY <1>5, <1>6, <2>1
  <2>3. tx[p].key \in Job /\ job[tx[p].key] = "in_progress"
    BY <2>2, CompletionOf
  <2> QED  BY <2>2, <2>3
<1> QED  BY <1>2, <1>4, <1>5, <1>6 DEF Tables, Sessions
-----------------------------------------------------------------------------
(* The usage of a job.                                                      *)

UsageRows(rows, j) == {m \in rows : m.job = j /\ m.kind = "usage"}

UsageIn(rows, j) ==
  [i \in Item |-> SumFunction([m \in {n \in UsageRows(rows, j) : n.item = i} |-> m.quantity])]

LEMMA ManualIsUsage ==
  ASSUME NEW j
  PROVE  ManualUsage(j) = UsageIn(movement, j)
BY DEF ManualUsage, JobUsage, UsageIn, UsageRows

(* Movements of other jobs do not count.                                    *)
LEMMA UsageKept ==
  ASSUME NEW rows, NEW new, NEW j, \A m \in new : m.job # j,
         NEW more, more = rows \cup new
  PROVE  UsageIn(more, j) = UsageIn(rows, j)
<1>1. UsageRows(more, j) = UsageRows(rows, j)
  BY DEF UsageRows
<1> QED  BY <1>1 DEF UsageIn
-----------------------------------------------------------------------------
(* Every action preserves the invariant.                                    *)

(* The manual usage that an open completion has read is still what is       *)
(* recorded: no movement of its job is added while it holds the job.        *)
Fresh ==
  \A s \in Session :
    tx[s].kind = "completion" => tx[s].manual = UsageIn(movement, tx[s].key)

Sound == Tables /\ CompletionAccounted /\ Fresh

(* A step that opens no completion and adds no movement of the job of an    *)
(* open one leaves what it read as fresh as it was.                         *)
LEMMA StaysFresh ==
  ASSUME Fresh, NEW new, movement' = movement \cup new,
         \A p \in Session : tx'[p].kind = "completion" =>
           tx'[p] = tx[p] /\ \A m \in new : m.job # tx[p].key
  PROVE  Fresh'
<1>1. ASSUME NEW p \in Session, tx'[p].kind = "completion"
      PROVE  tx'[p].manual = UsageIn(movement', tx'[p].key)
  <2>1. PICK j : j = tx[p].key
    OBVIOUS
  <2>2. tx'[p] = tx[p] /\ \A m \in new : m.job # j
    BY <1>1, <2>1
  <2>3. UsageIn(movement', j) = UsageIn(movement, j)
    BY <2>2, UsageKept
  <2>4. tx[p].manual = UsageIn(movement, j)
    BY <1>1, <2>1, <2>2 DEF Fresh
  <2> QED  BY <2>1, <2>2, <2>3, <2>4
<1> QED  BY <1>1 DEF Fresh

(* A step that leaves the ledger, the jobs and their runs alone.            *)
LEMMA QuietSound ==
  ASSUME Sound, UNCHANGED <<stock, operation, movement, expense, job, run>>,
         Sessions', TypeOK', Fresh'
  PROVE  Sound'
<1>1. LedgerExplainsStock' /\ CompletionAccounted'
  BY DEF Sound, Tables, LedgerExplainsStock, CompletionAccounted
<1>2. Recorded'
  BY DEF Sound, Tables, Recorded
<1> QED  BY <1>1, <1>2 DEF Sound, Tables

(* ... for example when no completion begins.                               *)
LEMMA QuietFresh ==
  ASSUME Sound, movement' = movement,
         \A p \in Session : tx'[p].kind = "completion" => tx'[p] = tx[p]
  PROVE  Fresh'
<1>1. PICK new : new = {}
  OBVIOUS
<1>2. movement' = movement \cup new /\ \A m \in new : FALSE
  BY <1>1
<1> QED  BY <1>2, StaysFresh DEF Sound

(* BeginRequest inserts an operation whose key is free.                     *)
LEMMA BeginRequestSound ==
  ASSUME Sound, NEW s \in Session, NEW r \in Request, BeginRequest(s, r)
  PROVE  Sound'
<1>1. PICK t : t = [kind |-> "request", key |-> r.key, request |-> r]
  OBVIOUS
<1>2. t \in RequestTx /\ t.key = r.key /\ t.request = r /\ t.kind = "request"
  BY <1>1 DEF RequestTx, Key
<1>3. TxRow(t) /\ t # Idle
  BY <1>2 DEF TxRow, Idle
<1>4. /\ tx' = [tx EXCEPT ![s] = t] /\ KeyFree(t.key)
      /\ UNCHANGED <<active, linked, default, template, stock, operation, movement, expense,
                     job, run>>
  BY <1>1, <1>2 DEF BeginRequest
<1>5. Sessions' /\ DOMAIN tx' = Session /\ \A p \in Session : TxRow(tx'[p])
  BY <1>2, <1>3, <1>4, BeginSessions DEF Sound
<1>6. TypeOK'
  BY <1>4, <1>5 DEF Sound, Tables, TypeOK
<1>7. Fresh'
  <2>1. DOMAIN tx = Session
    BY DEF Sound, Tables, TypeOK
  <2>2. \A p \in Session : tx'[p].kind = "completion" => tx'[p] = tx[p]
    BY <1>2, <1>4, <2>1
  <2> QED  BY <1>4, <2>2, QuietFresh
<1> QED  BY <1>4, <1>5, <1>6, <1>7, QuietSound

(* BeginCompletion opens the transaction of a job in progress.              *)
LEMMA BeginCompletionSound ==
  ASSUME Sound, NEW s \in Session, NEW j \in Job, BeginCompletion(s, j)
  PROVE  Sound'
<1>1. PICK t : t = [kind |-> "completion", key |-> j, expected |-> Expected(j),
                    usable |-> active \cap Item, manual |-> ManualUsage(j),
                    source |-> SourceLocation]
  OBVIOUS
<1>2. /\ Expected(j) \in [(DOMAIN Performed[j]) \X Item -> Nat]
      /\ ManualUsage(j) \in [Item -> Nat]
      /\ SourceLocation \in Source
  BY ExpectedType, ManualType, SourceType DEF Sound, Tables
<1>3. t \in CompletionTx(j) /\ t.key = j /\ t.kind = "completion"
  BY <1>1, <1>2 DEF CompletionTx
<1>4. TxRow(t) /\ t # Idle
  BY <1>3 DEF TxRow, Idle
<1>5. /\ tx' = [tx EXCEPT ![s] = t] /\ KeyFree(t.key) /\ job[t.key] = "in_progress"
      /\ UNCHANGED <<active, linked, default, template, stock, operation, movement, expense,
                     job, run>>
  BY <1>1, <1>3 DEF BeginCompletion
<1>6. Sessions' /\ DOMAIN tx' = Session /\ \A p \in Session : TxRow(tx'[p])
  BY <1>4, <1>5, BeginSessions DEF Sound
<1>7. TypeOK'
  BY <1>5, <1>6 DEF Sound, Tables, TypeOK
<1>8. Fresh'
  <2>1. DOMAIN tx = Session
    BY DEF Sound, Tables, TypeOK
  <2>2. t.manual = UsageIn(movement, t.key)
    BY <1>1, <1>3, ManualIsUsage
  <2>3. ASSUME NEW p \in Session, tx'[p].kind = "completion"
        PROVE  tx'[p].manual = UsageIn(movement', tx'[p].key)
    <3>1. CASE p = s
      BY <1>5, <2>1, <2>2, <3>1
    <3>2. CASE p # s
      BY <1>5, <2>1, <2>3, <3>2 DEF Sound, Fresh
    <3> QED  BY <3>1, <3>2
  <2> QED  BY <2>3 DEF Fresh
<1> QED  BY <1>5, <1>6, <1>7, <1>8, QuietSound

(* Abort leaves the tables as they were.                                    *)
LEMMA AbortSound ==
  ASSUME Sound, NEW s \in Session, Abort(s)
  PROVE  Sound'
<1>1. /\ tx[s] # Idle /\ tx' = [tx EXCEPT ![s] = Idle]
      /\ UNCHANGED <<active, linked, default, template, stock, operation, movement, expense,
                     job, run>>
  BY DEF Abort
<1>2. Sessions' /\ DOMAIN tx' = Session /\ \A p \in Session : TxRow(tx'[p])
  BY <1>1, EndSessions DEF Sound
<1>3. TypeOK'
  BY <1>1, <1>2 DEF Sound, Tables, TypeOK
<1>4. Fresh'
  <2>1. DOMAIN tx = Session
    BY DEF Sound, Tables, TypeOK
  <2>2. \A p \in Session : tx'[p].kind = "completion" => tx'[p] = tx[p]
    BY <1>1, <2>1 DEF Idle
  <2> QED  BY <1>1, <2>2, QuietFresh
<1> QED  BY <1>1, <1>2, <1>3, <1>4, QuietSound

(* Each kind of request keeps the ledger.                                   *)
LEMMA RequestWrites ==
  ASSUME Tables, NEW s \in Session, CommitRequest(s), NEW r, r = tx[s].request
  PROVE  Writes(r.key)
<1>1. /\ tx[s].kind = "request"
      /\ ReceiveStock(r) \/ TransferStock(r) \/ Consume(r) \/ RecordStockCount(r)
  BY DEF CommitRequest
<1>2. CASE ReceiveStock(r)
  BY <1>1, <1>2, ReceiveWrites
<1>3. CASE TransferStock(r)
  BY <1>1, <1>3, TransferWrites
<1>4. CASE Consume(r)
  BY <1>1, <1>4, ConsumeWrites
<1>5. CASE RecordStockCount(r)
  BY <1>1, <1>5, CountWrites
<1> QED  BY <1>1, <1>2, <1>3, <1>4, <1>5

(* A request adds movements of no job, or of its job, which no completion   *)
(* holds.                                                                   *)
LEMMA RequestFresh ==
  ASSUME Sound, NEW s \in Session, CommitRequest(s)
  PROVE  Fresh'
<1>1. PICK r : r = tx[s].request
  OBVIOUS
<1>2. /\ tx[s].kind = "request" /\ tx' = [tx EXCEPT ![s] = Idle]
      /\ ReceiveStock(r) \/ TransferStock(r) \/ Consume(r) \/ RecordStockCount(r)
  BY <1>1 DEF CommitRequest
<1>3. \E new : /\ movement' = movement \cup new
               /\ \A m \in new : m.job = NoJob \/ (m.job = r.job /\ JobFree(r.job))
  <2>1. ASSUME NEW kind, NEW l, NEW quantity, NEW j
        PROVE  \A m \in Movements(r.key, kind, l, quantity, j) : m.job = j
    BY DEF Movements
  <2>2. CASE ReceiveStock(r)
    BY <2>1, <2>2 DEF ReceiveStock
  <2>3. CASE TransferStock(r)
    <3>1. PICK a : a = Movements(r.key, "transfer_out", r.at, Combine(r.lines), NoJob)
      OBVIOUS
    <3>2. PICK b : b = Movements(r.key, "transfer_in", r.to, Combine(r.lines), NoJob)
      OBVIOUS
    <3>3. movement' = movement \cup (a \cup b)
      BY <2>3, <3>1, <3>2 DEF TransferStock
    <3>4. \A m \in a \cup b : m.job = NoJob
      BY <2>1, <3>1, <3>2
    <3> QED  BY <3>3, <3>4
  <2>4. CASE Consume(r)
    BY <2>1, <2>4 DEF Consume
  <2>5. CASE RecordStockCount(r)
    <3>1. PICK counted : counted = Combine(r.lines)
      OBVIOUS
    <3>2. PICK change :
            change = [i \in Item |-> IF i \in Counted(r.lines) THEN counted[i] - stock[i, r.at] ELSE 0]
      OBVIOUS
    <3>3. PICK a : a = Movements(r.key, "adjustment_in", r.at, change, NoJob)
      OBVIOUS
    <3>4. PICK b : b = Movements(r.key, "adjustment_out", r.at, Negative(change), NoJob)
      OBVIOUS
    <3>5. movement' = movement \cup (a \cup b)
      BY <2>5, <3>1, <3>2, <3>3, <3>4 DEF RecordStockCount
    <3>6. \A m \in a \cup b : m.job = NoJob
      BY <2>1, <3>3, <3>4
    <3> QED  BY <3>5, <3>6
  <2> QED  BY <1>2, <2>2, <2>3, <2>4, <2>5
<1>4. PICK new : /\ movement' = movement \cup new
                 /\ \A m \in new : m.job = NoJob \/ (m.job = r.job /\ JobFree(r.job))
  BY <1>3
<1>5. ASSUME NEW p \in Session, tx'[p].kind = "completion"
      PROVE  tx'[p] = tx[p] /\ \A m \in new : m.job # tx[p].key
  <2>1. DOMAIN tx = Session
    BY DEF Sound, Tables, TypeOK
  <2>2. tx'[p] = tx[p] /\ tx[p].kind = "completion"
    BY <1>2, <1>5, <2>1 DEF Idle
  <2>3. tx[p].key \in Job /\ NoJob \notin Job
    BY <2>2, CompletionOf DEF Sound, Tables, JobAssumption
  <2>4. JobFree(r.job) => r.job # tx[p].key
    BY <2>2 DEF JobFree
  <2> QED  BY <1>4, <2>2, <2>3, <2>4
<1> QED  BY <1>4, <1>5, StaysFresh DEF Sound

(* CommitRequest adds the movements of one key.                             *)
LEMMA CommitRequestSound ==
  ASSUME Sound, NEW s \in Session, CommitRequest(s)
  PROVE  Sound'
<1>0. Tables
  BY DEF Sound
<1>1. PICK r : r = tx[s].request
  OBVIOUS
<1>2. /\ tx[s].kind = "request"
      /\ ReceiveStock(r) \/ TransferStock(r) \/ Consume(r) \/ RecordStockCount(r)
      /\ operation' = [operation EXCEPT ![r.key] = r]
      /\ tx' = [tx EXCEPT ![s] = Idle]
      /\ UNCHANGED <<active, linked, default, template, job, run>>
  BY <1>1 DEF CommitRequest
<1>3. /\ r \in Request /\ r.key \in Key /\ tx[s].key = r.key /\ tx[s] # Idle
      /\ operation[r.key] = NoRequest
  BY <1>0, <1>1, <1>2, RequestOf
<1>4. Writes(r.key)
  BY <1>0, <1>1, RequestWrites
<1>5. operation \in [Key -> Request \cup Job \cup {NoRequest}]
  BY <1>0 DEF Tables, TypeOK
<1>6. /\ operation' \in [Key -> Request \cup Job \cup {NoRequest}]
      /\ operation'[r.key] = r
      /\ \A c \in Key : c # r.key => operation'[c] = operation[c]
  BY <1>2, <1>3, <1>5
<1>7. Sessions' /\ DOMAIN tx' = Session /\ \A p \in Session : TxRow(tx'[p])
  BY <1>0, <1>2, <1>3, <1>6, EndSessions
<1>8. expense' \subseteq Key
  <2>1. expense \subseteq Key
    BY <1>0 DEF Tables, TypeOK
  <2> QED
    BY <1>2, <1>3, <2>1 DEF ReceiveStock, TransferStock, Consume, RecordStockCount
<1>9. LedgerExplainsStock' /\ movement' \subseteq MovementRow /\ IsFiniteSet(movement')
  BY <1>4, WritesLedger
<1>10. stock' \in [StockRow -> Nat]
  BY <1>4 DEF Writes
<1>11. TypeOK'
  BY <1>0, <1>2, <1>6, <1>7, <1>8, <1>9, <1>10 DEF Tables, TypeOK
<1>12. Recorded'
  <2>1. r # NoRequest
    BY <1>0, <1>3 DEF Tables, RequestAssumption
  <2>2. ASSUME NEW m \in movement'
        PROVE  operation'[m.key] # NoRequest
    <3>1. CASE m.key = r.key
      BY <1>6, <2>1, <3>1
    <3>2. CASE m.key # r.key
      <4>1. m \in movement
        BY <1>4, <3>2 DEF Writes
      <4>2. m.key \in Key /\ operation[m.key] # NoRequest
        BY <1>0, <4>1 DEF Tables, TypeOK, MovementRow, Recorded
      <4> QED  BY <1>6, <3>2, <4>2
    <3> QED  BY <3>1, <3>2
  <2>3. \A j \in Job : job'[j] = "in_progress" => run'[j] = NoRun
    BY <1>0, <1>2 DEF Tables, Recorded
  <2> QED  BY <1>9, <2>2, <2>3 DEF Recorded
<1>13. CompletionAccounted'
  <2>1. JobsAccounted
    BY AccountedByJob DEF Sound
  <2>2. ASSUME NEW j \in Job, NEW i \in Item
        PROVE  JobAccounted(run'[j].lines, movement', j, i)
    <3>1. j # r.key
      BY <1>0, <1>3 DEF Tables, RequestAssumption, RequestRow
    <3>2. {m \in movement' : m.key = j} = {m \in movement : m.key = j}
      BY <1>4, <3>1, WritesKeep
    <3>3. JobAccounted(run[j].lines, movement, j, i)
      BY <2>1 DEF JobsAccounted
    <3>4. JobAccounted(run[j].lines, movement', j, i)
      BY <3>2, <3>3, SameAccounts
    <3> QED  BY <1>2, <3>4
  <2>3. JobsAccounted'
    BY <2>2 DEF JobsAccounted
  <2>4. (CompletionAccounted <=> JobsAccounted)'
    BY AccountedByJob, PTL
  <2> QED  BY <2>3, <2>4
<1> QED  BY <1>0, <1>7, <1>9, <1>11, <1>12, <1>13, RequestFresh DEF Sound, Tables
-----------------------------------------------------------------------------
(* The commit of a completion records its run and, if it drew on a place,   *)
(* its operation.                                                           *)
LEMMA CommitCompletionDoes ==
  ASSUME Tables, NEW s \in Session, CommitCompletion(s), NEW t, t = tx[s], NEW j, j = t.key
  PROVE  /\ j \in Job /\ j \in Key /\ t \in CompletionTx(j) /\ tx[s] # Idle
         /\ operation[j] = NoRequest /\ run[j] = NoRun
         /\ run' \in [Job -> RunRow] /\ run'[j] = CompletionRun(t) /\ run'[j].lines = RunLines(t)
         /\ \A c \in Job : c # j => run'[c] = run[c] /\ job'[c] = job[c]
         /\ job' \in [Job -> {"in_progress", "completed"}] /\ job'[j] = "completed"
         /\ operation' \in [Key -> Request \cup Job \cup {NoRequest}]
         /\ \A c \in Key : c # j => operation'[c] = operation[c]
         /\ movement' = movement \/ operation'[j] = j
         /\ tx' = [tx EXCEPT ![s] = Idle]
         /\ UNCHANGED <<active, linked, default, template, expense>>
<1>1. t.kind = "completion" /\ tx[s].kind = "completion"
  BY DEF CommitCompletion
<1>2. /\ j \in Job /\ t \in CompletionTx(j) /\ tx[s] # Idle /\ j \in Key
      /\ operation[j] = NoRequest /\ run[j] = NoRun
  BY <1>1, CompletionOf
<1>3. /\ run' = [run EXCEPT ![j] = CompletionRun(t)]
      /\ job' = [job EXCEPT ![j] = "completed"]
      /\ tx' = [tx EXCEPT ![s] = Idle]
      /\ UNCHANGED <<active, linked, default, template, expense>>
      /\ \/ UNCHANGED <<operation, movement>>
         \/ operation' = [operation EXCEPT ![j] = j]
  BY DEF CommitCompletion
<1>4. /\ run \in [Job -> RunRow] /\ job \in [Job -> {"in_progress", "completed"}]
      /\ operation \in [Key -> Request \cup Job \cup {NoRequest}]
  BY DEF Tables, TypeOK
<1>5. CompletionRun(t) \in RunRow
  BY <1>2, RunType
<1>6. /\ run' \in [Job -> RunRow] /\ run'[j] = CompletionRun(t)
      /\ \A c \in Job : c # j => run'[c] = run[c]
  BY <1>2, <1>3, <1>4, <1>5
<1>7. /\ job' \in [Job -> {"in_progress", "completed"}] /\ job'[j] = "completed"
      /\ \A c \in Job : c # j => job'[c] = job[c]
  BY <1>2, <1>3, <1>4
<1>8. /\ operation' \in [Key -> Request \cup Job \cup {NoRequest}]
      /\ \A c \in Key : c # j => operation'[c] = operation[c]
      /\ movement' = movement \/ operation'[j] = j
  BY <1>2, <1>3, <1>4
<1>9. run'[j].lines = RunLines(t)
  BY <1>6 DEF CompletionRun
<1> QED  BY <1>2, <1>3, <1>6, <1>7, <1>8, <1>9

(* A completion adds movements of its own job, which no other one holds.    *)
LEMMA CompletionFresh ==
  ASSUME Sound, NEW s \in Session, CommitCompletion(s)
  PROVE  Fresh'
<1>0. Tables
  BY DEF Sound
<1>1. PICK t : t = tx[s]
  OBVIOUS
<1>2. PICK j : j = t.key
  OBVIOUS
<1>3. tx[s] # Idle /\ tx' = [tx EXCEPT ![s] = Idle]
  BY <1>0, <1>1, <1>2, CommitCompletionDoes
<1>4. \E new : movement' = movement \cup new /\ \A m \in new : m.job = j
  <2>1. PICK drawn : drawn = Movements(j, "usage", t.source.at, Applied(t), j)
    OBVIOUS
  <2>2. \A m \in drawn : m.job = j
    BY <2>1 DEF Movements
  <2>3. movement' = movement \/ movement' = movement \cup drawn
    BY <1>1, <1>2, <2>1 DEF CommitCompletion
  <2>4. CASE movement' = movement
    <3>1. PICK new : new = {}
      OBVIOUS
    <3>2. movement' = movement \cup new /\ \A m \in new : m.job = j
      BY <2>4, <3>1
    <3> QED  BY <3>2
  <2> QED  BY <2>2, <2>3, <2>4
<1>5. PICK new : movement' = movement \cup new /\ \A m \in new : m.job = j
  BY <1>4
<1>6. ASSUME NEW p \in Session, tx'[p].kind = "completion"
      PROVE  tx'[p] = tx[p] /\ \A m \in new : m.job # tx[p].key
  <2>1. DOMAIN tx = Session
    BY DEF Sound, Tables, TypeOK
  <2>2. p # s /\ tx'[p] = tx[p] /\ tx[p] # Idle
    BY <1>3, <1>6, <2>1 DEF Idle
  <2>3. tx[p].key # j
    BY <1>0, <1>1, <1>2, <1>3, <2>2 DEF Tables, Sessions
  <2> QED  BY <1>5, <2>2, <2>3
<1> QED  BY <1>5, <1>6, StaysFresh DEF Sound

(* CommitCompletion adds them and the lines of one job.                     *)
LEMMA CommitCompletionSound ==
  ASSUME Sound, NEW s \in Session, CommitCompletion(s)
  PROVE  Sound'
<1>0. Tables
  BY DEF Sound
<1>1. PICK t : t = tx[s]
  OBVIOUS
<1>2. PICK j : j = t.key
  OBVIOUS
<1>3. /\ j \in Job /\ j \in Key /\ t \in CompletionTx(j) /\ tx[s] # Idle /\ tx[s].key = j
      /\ operation[j] = NoRequest /\ run[j] = NoRun
      /\ run' \in [Job -> RunRow] /\ run'[j].lines = RunLines(t)
      /\ job' \in [Job -> {"in_progress", "completed"}] /\ job'[j] = "completed"
      /\ operation' \in [Key -> Request \cup Job \cup {NoRequest}]
      /\ movement' = movement \/ operation'[j] = j
      /\ tx' = [tx EXCEPT ![s] = Idle]
      /\ UNCHANGED <<active, linked, default, template, expense>>
  BY <1>0, <1>1, <1>2, CommitCompletionDoes
<1>4. /\ \A c \in Job : c # j => run'[c] = run[c] /\ job'[c] = job[c]
      /\ \A c \in Key : c # j => operation'[c] = operation[c]
  BY <1>0, <1>1, <1>2, CommitCompletionDoes
<1>5. Writes(j)
  BY <1>0, <1>1, <1>2, CompletionWrites
<1>6. Sessions' /\ DOMAIN tx' = Session /\ \A p \in Session : TxRow(tx'[p])
  <2>1. \A c \in Key : c # j => operation'[c] = operation[c]
    BY <1>4
  <2>2. \A c \in Job : c # j => job'[c] = job[c]
    BY <1>4
  <2> QED  BY <1>0, <1>3, <2>1, <2>2, EndSessions
<1>7. LedgerExplainsStock' /\ movement' \subseteq MovementRow /\ IsFiniteSet(movement')
  BY <1>5, WritesLedger
<1>8. stock' \in [StockRow -> Nat]
  BY <1>5 DEF Writes
<1>9. TypeOK'
  BY <1>0, <1>3, <1>6, <1>7, <1>8 DEF Tables, TypeOK
<1>10. Recorded'
  <2>1. j # NoRequest
    BY <1>0, <1>3 DEF Tables, RequestAssumption
  <2>2. ASSUME NEW m \in movement'
        PROVE  operation'[m.key] # NoRequest
    <3>1. CASE m \in movement
      <4>1. m.key \in Key /\ operation[m.key] # NoRequest
        BY <1>0, <3>1 DEF Tables, TypeOK, MovementRow, Recorded
      <4>2. m.key # j
        BY <1>3, <4>1
      <4> QED  BY <1>4, <4>1, <4>2
    <3>2. CASE m \notin movement
      BY <1>3, <1>5, <2>1, <3>2 DEF Writes
    <3> QED  BY <3>1, <3>2
  <2>3. ASSUME NEW c \in Job, job'[c] = "in_progress"
        PROVE  run'[c] = NoRun
    BY <1>0, <1>3, <1>4, <2>3 DEF Tables, Recorded
  <2> QED  BY <1>7, <2>2, <2>3 DEF Recorded
<1>11. CompletionAccounted'
  <2>1. JobsAccounted
    BY AccountedByJob DEF Sound
  <2>2. ASSUME NEW c \in Job, NEW i \in Item
        PROVE  JobAccounted(run'[c].lines, movement', c, i)
    <3>1. CASE c = j
      <4>1. JobAccounted(RunLines(t), movement', j, i)
        BY <1>0, <1>1, <1>2, NewAccounts
      <4> QED  BY <1>3, <3>1, <4>1
    <3>2. CASE c # j
      <4>1. {m \in movement' : m.key = c} = {m \in movement : m.key = c}
        BY <1>5, <3>2, WritesKeep
      <4>2. JobAccounted(run[c].lines, movement, c, i)
        BY <2>1 DEF JobsAccounted
      <4>3. JobAccounted(run[c].lines, movement', c, i)
        BY <4>1, <4>2, SameAccounts
      <4> QED  BY <1>4, <3>2, <4>3
    <3> QED  BY <3>1, <3>2
  <2>3. JobsAccounted'
    BY <2>2 DEF JobsAccounted
  <2>4. (CompletionAccounted <=> JobsAccounted)'
    BY AccountedByJob, PTL
  <2> QED  BY <2>3, <2>4
<1> QED  BY <1>0, <1>6, <1>7, <1>9, <1>10, <1>11, CompletionFresh DEF Sound, Tables

(* A review marks a run that exists.                                        *)
LEMMA ReviewSound ==
  ASSUME Sound, NEW j \in Job, ReviewConsumption(j)
  PROVE  Sound'
<1>0. Tables
  BY DEF Sound
<1>1. /\ run[j].status # "none" /\ run' = [run EXCEPT ![j].reviewed = TRUE]
      /\ UNCHANGED <<active, linked, default, template, stock, operation, movement, expense,
                     job, tx>>
  BY DEF ReviewConsumption
<1>2. run \in [Job -> RunRow] /\ run[j] \in RunRow
  BY <1>0 DEF Tables, TypeOK
<1>3. /\ run' \in [Job -> RunRow]
      /\ \A c \in Job : run'[c].lines = run[c].lines
      /\ \A c \in Job : c # j => run'[c] = run[c]
  <2>1. [run[j] EXCEPT !.reviewed = TRUE] \in RunRow
        /\ [run[j] EXCEPT !.reviewed = TRUE].lines = run[j].lines
    BY <1>2 DEF RunRow
  <2>2. run' = [run EXCEPT ![j] = [run[j] EXCEPT !.reviewed = TRUE]]
    BY <1>1
  <2> QED  BY <1>2, <2>1, <2>2
<1>4. TypeOK' /\ Sessions'
  BY <1>0, <1>1, <1>3 DEF Tables, TypeOK, Sessions
<1>5. Recorded'
  <2>1. job[j] # "in_progress"
    BY <1>0, <1>1 DEF Tables, Recorded, NoRun
  <2> QED  BY <1>0, <1>1, <1>3, <2>1 DEF Tables, Recorded
<1>6. LedgerExplainsStock'
  BY <1>0, <1>1 DEF Tables, LedgerExplainsStock
<1>7. CompletionAccounted'
  <2>1. JobsAccounted
    BY AccountedByJob DEF Sound
  <2>2. JobsAccounted'
    BY <1>1, <1>3, <2>1 DEF JobsAccounted
  <2>3. (CompletionAccounted <=> JobsAccounted)'
    BY AccountedByJob, PTL
  <2> QED  BY <2>2, <2>3
<1>8. Fresh'
  BY <1>1, QuietFresh
<1> QED  BY <1>0, <1>4, <1>5, <1>6, <1>7, <1>8 DEF Sound, Tables

(* The catalogue says nothing of what was recorded.                         *)
LEMMA CatalogueSound ==
  ASSUME Sound, UNCHANGED <<stock, operation, movement, expense, job, run, tx>>, TypeOK'
  PROVE  Sound'
<1>1. Sessions'
  BY DEF Sound, Tables, Sessions
<1>2. Fresh'
  BY QuietFresh
<1> QED  BY <1>1, <1>2, QuietSound

(* The catalogue may change at any time.                                    *)
LEMMA UpdateSound ==
  ASSUME Sound,
         \/ \E i \in Item : UpdateItem(i)
         \/ \E l \in Location, t \in Teams : \/ UpdateLocation(l, active \cup {l}, t)
                                             \/ UpdateLocation(l, active \ {l}, t)
         \/ \E t \in Templates : UpdateServiceTemplate(t)
         \/ \E l \in Location \cup {NoLocation} : SetDefault(l)
  PROVE  Sound'
<1>0. TypeOK
  BY DEF Sound, Tables
<1>1. ASSUME NEW i \in Item, UpdateItem(i)
      PROVE  Sound'
  <2>1. TypeOK'
    BY <1>0, <1>1 DEF UpdateItem, TypeOK
  <2> QED  BY <1>1, <2>1, CatalogueSound DEF UpdateItem
<1>2. ASSUME NEW l \in Location, NEW t \in Teams, NEW on \in {active \cup {l}, active \ {l}},
             UpdateLocation(l, on, t)
      PROVE  Sound'
  <2>1. on \subseteq Item \cup Location
    BY <1>0 DEF TypeOK
  <2>2. TypeOK'
    BY <1>0, <1>2, <2>1 DEF UpdateLocation, TypeOK
  <2> QED  BY <1>2, <2>2, CatalogueSound DEF UpdateLocation
<1>3. ASSUME NEW t \in Templates, UpdateServiceTemplate(t)
      PROVE  Sound'
  <2>1. TypeOK'
    BY <1>0, <1>3 DEF UpdateServiceTemplate, TypeOK
  <2> QED  BY <1>3, <2>1, CatalogueSound DEF UpdateServiceTemplate
<1>4. ASSUME NEW l \in Location \cup {NoLocation}, SetDefault(l)
      PROVE  Sound'
  <2>1. TypeOK'
    BY <1>0, <1>4 DEF SetDefault, TypeOK
  <2> QED  BY <1>4, <2>1, CatalogueSound DEF SetDefault
<1> QED  BY <1>1, <1>2, <1>3, <1>4

(* Every step preserves the invariant.                                      *)
LEMMA NextSound ==
  ASSUME Sound, [Next]_vars
  PROVE  Sound'
<1>1. CASE Next
  <2>1. ASSUME NEW s \in Session, NEW r \in Request, BeginRequest(s, r)
        PROVE  Sound'
    BY <2>1, BeginRequestSound
  <2>2. ASSUME NEW s \in Session, NEW j \in Job, BeginCompletion(s, j)
        PROVE  Sound'
    BY <2>2, BeginCompletionSound
  <2>3. ASSUME NEW s \in Session, CommitRequest(s) \/ CommitCompletion(s) \/ Abort(s)
        PROVE  Sound'
    BY <2>3, CommitRequestSound, CommitCompletionSound, AbortSound
  <2>4. ASSUME NEW j \in Job, ReviewConsumption(j)
        PROVE  Sound'
    BY <2>4, ReviewSound
  <2> QED  BY <1>1, <2>1, <2>2, <2>3, <2>4, UpdateSound DEF Next
<1>2. CASE UNCHANGED vars
  <2>1. TypeOK'
    BY <1>2 DEF vars, Sound, Tables, TypeOK
  <2> QED  BY <1>2, <2>1, CatalogueSound DEF vars
<1> QED  BY <1>1, <1>2

(* A business starts without stock and without movements.                   *)
LEMMA InitSound ==
  ASSUME RequestAssumption, JobAssumption, StockAssumption, Init
  PROVE  Sound
<1>1. NoRun \in RunRow
  BY DEF NoRun, RunRow
<1>2. TypeOK
  <2>1. NoTeam \in Teams
    <3>1. PICK S : S = UNION {TeamsOf[e] : e \in DOMAIN TeamsOf}
      OBVIOUS
    <3> QED  BY <3>1 DEF Teams
  <2> QED  BY <1>1, <2>1 DEF Init, TypeOK, TxRow
<1>3. Sessions
  BY DEF Init, Sessions, Idle
<1>4. Recorded
  BY FS_EmptySet DEF Init, Recorded
<1>5. LedgerExplainsStock
  <2>1. ASSUME NEW i \in Item, NEW l \in Location
        PROVE  stock[i, l] = Balance(movement, i, l)
    <3>1. Moves(movement, i, l) = {}
      BY DEF Init, Moves
    <3>2. PICK none : none = Moves(movement, i, l)
      OBVIOUS
    <3>3. PICK f : f = [m \in none |-> Signed(m)]
      OBVIOUS
    <3>4. DOMAIN f = {}
      BY <3>1, <3>2, <3>3
    <3>5. Balance(movement, i, l) = SumFunctionOnSet(f, DOMAIN f)
      BY <3>2, <3>3 DEF Balance, SumFunction
    <3>6. Balance(movement, i, l) = 0
      BY <3>4, <3>5, SumEmpty
    <3>7. <<i, l>> \in StockRow
      BY DEF StockRow
    <3> QED  BY <3>6, <3>7 DEF Init
  <2> QED  BY <2>1 DEF LedgerExplainsStock, Balance
<1>6. JobsAccounted
  <2>1. ASSUME NEW j \in Job, NEW i \in Item
        PROVE  JobAccounted(run[j].lines, movement, j, i)
    <3>1. run[j].lines = {}
      BY DEF Init, NoRun
    <3>2. PICK lines : lines = LinesOf(run[j].lines, i)
      OBVIOUS
    <3>3. PICK taken : taken = TakenOf(movement, j, i)
      OBVIOUS
    <3>4. lines = {} /\ taken = {}
      BY <3>1, <3>2, <3>3 DEF LinesOf, TakenOf, Init
    <3>5. PICK f : f = [x \in lines |-> x.automatic]
      OBVIOUS
    <3>6. PICK g : g = [m \in taken |-> m.quantity]
      OBVIOUS
    <3>7. DOMAIN f = {} /\ DOMAIN g = {}
      BY <3>4, <3>5, <3>6
    <3>8. /\ AutomaticOf(run[j].lines, i) = SumFunctionOnSet(f, DOMAIN f)
          /\ QuantityOf(movement, j, i) = SumFunctionOnSet(g, DOMAIN g)
      BY <3>2, <3>3, <3>5, <3>6 DEF AutomaticOf, QuantityOf, SumFunction
    <3>9. AutomaticOf(run[j].lines, i) = 0 /\ QuantityOf(movement, j, i) = 0
      BY <3>7, <3>8, SumEmpty
    <3> QED  BY <3>2, <3>4, <3>9 DEF JobAccounted
  <2> QED  BY <2>1 DEF JobsAccounted
<1>7. Fresh
  BY DEF Init, Fresh, Idle
<1> QED  BY <1>2, <1>3, <1>4, <1>5, <1>6, <1>7, AccountedByJob DEF Sound, Tables
-----------------------------------------------------------------------------
(* The invariant holds in every reachable state.                            *)
LEMMA AlwaysSound == Spec => []Sound
<1>1. Init => Sound
  BY InitSound, RequestAssumption, JobAssumption, StockAssumption
<1>2. Sound /\ [Next]_vars => Sound'
  BY NextSound
<1> QED  BY <1>1, <1>2, PTL DEF Spec

(* Every table and every open transaction has its type in every state that *)
(* the inventory reaches.                                                   *)
THEOREM InventoryTypes == Spec => []TypeOK
<1>1. Sound => TypeOK
  BY DEF Sound, Tables
<1> QED  BY <1>1, AlwaysSound, PTL

(* The balance of every stock row is the sum of its movements.              *)
THEOREM StockIsExplained == Spec => []LedgerExplainsStock
<1>1. Sound => LedgerExplainsStock
  BY DEF Sound, Tables
<1> QED  BY <1>1, AlwaysSound, PTL

(* The lines of a completed job account for what its services expect, and  *)
(* their automatic parts for what the completion took from the stock.      *)
THEOREM CompletionIsAccounted == Spec => []CompletionAccounted
<1>1. Sound => CompletionAccounted
  BY DEF Sound
<1> QED  BY <1>1, AlwaysSound, PTL
-----------------------------------------------------------------------------
(* What was recorded.                                                       *)

(* Only a commit writes under a key.                                        *)
KeyKept(k) ==
  operation'[k] = operation[k] /\ {m \in movement' : m.key = k} = {m \in movement : m.key = k}

(* Only a completion writes lines; a review adds its mark.                  *)
RunKept(j) == run'[j].lines = run[j].lines /\ (run[j].reviewed => run'[j].reviewed)

(* A request writes under its own key, and no lines.                        *)
LEMMA RequestKeeps ==
  ASSUME Sound, NEW s \in Session, CommitRequest(s)
  PROVE  /\ \A k \in Key : operation[k] # NoRequest => KeyKept(k)
         /\ \A j \in Job : RunKept(j)
<1>0. Tables
  BY DEF Sound
<1>1. PICK r : r = tx[s].request
  OBVIOUS
<1>2. /\ tx[s].kind = "request" /\ operation' = [operation EXCEPT ![r.key] = r]
      /\ run' = run
  BY <1>1 DEF CommitRequest
<1>3. operation[r.key] = NoRequest /\ r.key \in Key
  BY <1>0, <1>1, <1>2, RequestOf
<1>4. Writes(r.key)
  BY <1>0, <1>1, RequestWrites
<1>5. ASSUME NEW k \in Key, operation[k] # NoRequest
      PROVE  KeyKept(k)
  <2>1. k # r.key
    BY <1>3, <1>5
  <2>2. operation'[k] = operation[k]
    BY <1>0, <1>2, <2>1 DEF Tables, TypeOK
  <2> QED  BY <1>4, <2>1, <2>2, WritesKeep DEF KeyKept
<1> QED  BY <1>2, <1>5 DEF RunKept

(* A completion writes under its job, which had no run.                     *)
LEMMA CompletionKeeps ==
  ASSUME Sound, NEW s \in Session, CommitCompletion(s)
  PROVE  /\ \A k \in Key : operation[k] # NoRequest => KeyKept(k)
         /\ \A j \in Job : run[j].status # "none" => RunKept(j)
<1>0. Tables
  BY DEF Sound
<1>1. PICK t : t = tx[s]
  OBVIOUS
<1>2. PICK j : j = t.key
  OBVIOUS
<1>3. /\ operation[j] = NoRequest /\ run[j] = NoRun
      /\ \A c \in Job : c # j => run'[c] = run[c]
      /\ \A c \in Key : c # j => operation'[c] = operation[c]
  BY <1>0, <1>1, <1>2, CommitCompletionDoes
<1>4. Writes(j)
  BY <1>0, <1>1, <1>2, CompletionWrites
<1>5. ASSUME NEW k \in Key, operation[k] # NoRequest
      PROVE  KeyKept(k)
  <2>1. k # j
    BY <1>3, <1>5
  <2> QED  BY <1>3, <1>4, <2>1, WritesKeep DEF KeyKept
<1>6. ASSUME NEW c \in Job, run[c].status # "none"
      PROVE  RunKept(c)
  <2>1. c # j
    BY <1>3, <1>6 DEF NoRun
  <2> QED  BY <1>3, <2>1 DEF RunKept
<1> QED  BY <1>5, <1>6

(* A review keeps the lines.                                                *)
LEMMA ReviewKeeps ==
  ASSUME Sound, NEW j \in Job, ReviewConsumption(j)
  PROVE  (\A k \in Key : KeyKept(k)) /\ \A c \in Job : RunKept(c)
<1>1. run \in [Job -> RunRow]
  BY DEF Sound, Tables, TypeOK
<1>2. operation' = operation /\ movement' = movement /\ run' = [run EXCEPT ![j].reviewed = TRUE]
  BY DEF ReviewConsumption
<1>3. run' = [run EXCEPT ![j] = [run[j] EXCEPT !.reviewed = TRUE]]
  BY <1>2
<1>4. run[j] \in RunRow
  BY <1>1
<1>5. [run[j] EXCEPT !.reviewed = TRUE].lines = run[j].lines
      /\ [run[j] EXCEPT !.reviewed = TRUE].reviewed
  BY <1>4 DEF RunRow
<1>6. ASSUME NEW c \in Job
      PROVE  RunKept(c)
  BY <1>1, <1>3, <1>5 DEF RunKept
<1> QED  BY <1>2, <1>6 DEF KeyKept

(* Other steps leave the operations and the runs alone, or review one.      *)
LEMMA OthersQuiet ==
  ASSUME Sound, [Next]_vars,
         ~ \E s \in Session : CommitRequest(s) \/ CommitCompletion(s)
  PROVE  UNCHANGED <<operation, movement, run>> \/ \E j \in Job : ReviewConsumption(j)
<1>3. ASSUME NEW s \in Session, NEW r \in Request, BeginRequest(s, r)
      PROVE  UNCHANGED <<operation, movement, run>>
  BY <1>3 DEF BeginRequest
<1>4. ASSUME NEW s \in Session, NEW j \in Job, BeginCompletion(s, j)
      PROVE  UNCHANGED <<operation, movement, run>>
  BY <1>4 DEF BeginCompletion
<1>5. ASSUME NEW s \in Session, Abort(s)
      PROVE  UNCHANGED <<operation, movement, run>>
  BY <1>5 DEF Abort
<1>6. ASSUME NEW i \in Item, UpdateItem(i)
      PROVE  UNCHANGED <<operation, movement, run>>
  BY <1>6 DEF UpdateItem
<1>7. ASSUME NEW l \in Location, NEW t \in Teams,
             UpdateLocation(l, active \cup {l}, t) \/ UpdateLocation(l, active \ {l}, t)
      PROVE  UNCHANGED <<operation, movement, run>>
  BY <1>7 DEF UpdateLocation
<1>8. ASSUME NEW t \in Templates, UpdateServiceTemplate(t)
      PROVE  UNCHANGED <<operation, movement, run>>
  BY <1>8 DEF UpdateServiceTemplate
<1>9. ASSUME NEW l \in Location \cup {NoLocation}, SetDefault(l)
      PROVE  UNCHANGED <<operation, movement, run>>
  BY <1>9 DEF SetDefault
<1>10. CASE Next
  BY <1>3, <1>4, <1>5, <1>6, <1>7, <1>8, <1>9, <1>10 DEF Next
<1>11. CASE UNCHANGED vars
  BY <1>11 DEF vars
<1> QED  BY <1>10, <1>11

(* No other step writes under a key.                                        *)
LEMMA OthersKeep ==
  ASSUME Sound, [Next]_vars,
         ~ \E s \in Session : CommitRequest(s) \/ CommitCompletion(s)
  PROVE  (\A k \in Key : KeyKept(k)) /\ \A j \in Job : RunKept(j)
<1>1. CASE UNCHANGED <<operation, movement, run>>
  BY <1>1 DEF KeyKept, RunKept
<1>2. CASE \E j \in Job : ReviewConsumption(j)
  BY <1>2, ReviewKeeps
<1> QED  BY <1>1, <1>2, OthersQuiet

(* Whatever the step, what was recorded stays.                              *)
LEMMA NextKeeps ==
  ASSUME Sound, [Next]_vars
  PROVE  /\ \A k \in Key : operation[k] # NoRequest => KeyKept(k)
         /\ \A j \in Job : run[j].status # "none" => RunKept(j)
<1>1. CASE \E s \in Session : CommitRequest(s)
  BY <1>1, RequestKeeps
<1>2. CASE \E s \in Session : CommitCompletion(s)
  BY <1>2, CompletionKeeps
<1>3. CASE ~ \E s \in Session : CommitRequest(s) \/ CommitCompletion(s)
  BY <1>3, OthersKeep
<1> QED  BY <1>1, <1>2, <1>3

(* Whatever the step, a new shortfall is one of an empty place.             *)
LEMMA NextEmpties ==
  ASSUME Sound, [Next]_vars, NEW j \in Job, NEW line \in run'[j].lines,
         line \notin run[j].lines, line.issue = "INSUFFICIENT_RECORDED_STOCK"
  PROVE  stock'[line.item, run'[j].source] = 0
<1>0. Tables
  BY DEF Sound
<1>1. PICK s \in Session : CommitCompletion(s)
  <2>1. ASSUME NEW s \in Session, CommitRequest(s)
        PROVE  FALSE
    BY <2>1, RequestKeeps DEF RunKept
  <2>2. CASE ~ \E s \in Session : CommitRequest(s) \/ CommitCompletion(s)
    BY <2>2, OthersKeep DEF RunKept
  <2> QED  BY <2>1, <2>2
<1>2. PICK t : t = tx[s]
  OBVIOUS
<1>3. PICK c : c = t.key
  OBVIOUS
<1>4. run'[c].lines = RunLines(t) /\ \A o \in Job : o # c => run'[o] = run[o]
  BY <1>0, <1>1, <1>2, <1>3, CommitCompletionDoes
<1>5. j = c
  BY <1>4
<1>6. line \in RunLines(t)
  BY <1>4, <1>5
<1>7. stock'[line.item, run'[c].source] = 0
  BY <1>0, <1>1, <1>2, <1>3, <1>6, CompletionEmpties
<1> QED  BY <1>5, <1>7

(* Whatever the step, a run that appears counts the manual usage first.     *)
LEMMA NextCounts ==
  ASSUME Sound, [Next]_vars, NEW j \in Job, NEW i \in Item,
         run[j].status = "none", run'[j].status # "none"
  PROVE  ManualOf(run'[j].lines, i) = Least(ManualUsage(j)[i], ExpectedOf(run'[j].lines, i))
<1>0. Tables
  BY DEF Sound
<1>1. PICK s \in Session : CommitCompletion(s)
  <2>1. ASSUME NEW s \in Session, CommitRequest(s)
        PROVE  run' = run
    BY <2>1 DEF CommitRequest
  <2>2. ASSUME NEW c \in Job, ReviewConsumption(c)
        PROVE  run'[j] = run[j]
    <3>1. run \in [Job -> RunRow]
      BY <1>0 DEF Tables, TypeOK
    <3>2. c # j
      BY <2>2 DEF ReviewConsumption
    <3> QED  BY <2>2, <3>1, <3>2 DEF ReviewConsumption
  <2>3. CASE ~ \E s \in Session : CommitRequest(s) \/ CommitCompletion(s)
    BY <2>2, <2>3, OthersQuiet
  <2> QED  BY <2>1, <2>3
<1>2. PICK t : t = tx[s]
  OBVIOUS
<1>3. PICK c : c = t.key
  OBVIOUS
<1>4. /\ c \in Job /\ t \in CompletionTx(c) /\ run'[c].lines = RunLines(t)
      /\ \A o \in Job : o # c => run'[o] = run[o]
  BY <1>0, <1>1, <1>2, <1>3, CommitCompletionDoes
<1>5. j = c
  BY <1>4
<1>6. t.manual = ManualUsage(j)
  <2>1. tx[s].kind = "completion"
    BY <1>1 DEF CommitCompletion
  <2> QED  BY <1>2, <1>3, <1>5, <2>1, ManualIsUsage DEF Sound, Fresh
<1>7. ManualOf(RunLines(t), i) = Least(t.manual[i], ExpectedOf(RunLines(t), i))
  BY <1>0, <1>4, ManualIsSpread
<1> QED  BY <1>4, <1>5, <1>6, <1>7

(* A line that calls the stock insufficient is written only when the place  *)
(* that the completion drew on is left with none of its item.               *)
THEOREM ShortfallsEmptyTheSource == Spec => ShortfallOnlyAtZero
<1>1. Sound /\ [Next]_vars =>
        [\A j \in Job : \A x \in run'[j].lines :
           x \notin run[j].lines /\ x.issue = "INSUFFICIENT_RECORDED_STOCK" =>
             stock'[x.item, run'[j].source] = 0]_vars
  BY NextEmpties
<1> QED  BY <1>1, AlwaysSound, PTL DEF Spec, ShortfallOnlyAtZero

(* Usage of a job that was recorded by hand satisfies what its services     *)
(* expect first, also when it was under way as the completion began: a      *)
(* completed job never takes it from the stock a second time.               *)
THEOREM ManualUsageIsCounted == Spec => ManualUsageCountsFirst
<1>1. Sound /\ [Next]_vars =>
        [\A j \in Job, i \in Item :
           run[j].status = "none" /\ run'[j].status # "none" =>
             ManualOf(run'[j].lines, i)
               = Least(ManualUsage(j)[i], ExpectedOf(run'[j].lines, i))]_vars
  BY NextCounts
<1> QED
  BY <1>1, AlwaysSound, PTL DEF Spec, ManualUsageCountsFirst, ManualOf, ExpectedOf, LinesOf

(* What an operation recorded under its key, and the lines and the review   *)
(* of a completed job, are never changed again.                             *)
THEOREM RecordsAreKept == Spec => HistoryIsKept
<1>1. Sound /\ [Next]_vars =>
        [/\ \A k \in Key : operation[k] # NoRequest =>
              /\ operation'[k] = operation[k]
              /\ {m \in movement' : m.key = k} = {m \in movement : m.key = k}
         /\ \A j \in Job : run[j].status # "none" =>
              /\ run'[j].lines = run[j].lines
              /\ run[j].reviewed => run'[j].reviewed]_vars
  BY NextKeeps DEF KeyKept, RunKept
<1> QED  BY <1>1, AlwaysSound, PTL DEF Spec, HistoryIsKept
=============================================================================
