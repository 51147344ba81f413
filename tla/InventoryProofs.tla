--------------------------- MODULE InventoryProofs ---------------------------
(***************************************************************************)
(* Proofs about Inventory, for any fills, any trades and any prices.       *)
(*                                                                         *)
(* The loops of the code are functions on 0 .. n, one entry for each turn: *)
(* the first part shows that such functions exist and what they satisfy.   *)
(***************************************************************************)
EXTENDS Inventory, WellFoundedInduction, SequenceTheorems, TLAPS

----------------------------------------------------------------------------
(* Induction and loops.                                                     *)

Below == {pair \in Nat \X Nat : pair[1] < pair[2]}

LEMMA BelowWellFounded == IsWellFoundedOn(Below, Nat)
  BY NatLessThanWellFounded DEF OpToRel, Below

LEMMA Induction ==
    ASSUME NEW S, 0 \in S, \A n \in Nat : n \in S => n + 1 \in S
    PROVE  \A n \in Nat : n \in S
<1> SUFFICES ASSUME Nat \ S # {}
             PROVE  FALSE
  OBVIOUS
<1>1. Nat \ S \subseteq Nat
  OBVIOUS
<1>2. \E x \in Nat \ S : \A y \in Nat \ S : ~(<<y, x>> \in Below)
  BY <1>1, BelowWellFounded, WFMin, Zenon
<1>3. PICK x \in Nat \ S : \A y \in Nat \ S : ~(<<y, x>> \in Below)
  BY <1>2
<1>4. x # 0 /\ x \in Nat
  OBVIOUS
<1>5. x - 1 \in Nat /\ (x - 1) + 1 = x
  BY <1>4
<1>6. x - 1 \in Nat \ S
  BY <1>5
<1>7. <<x - 1, x>> \in Below
  BY <1>4, <1>5 DEF Below
<1> QED
  BY <1>3, <1>6, <1>7

(* The loops of N turns that start with a and whose turn i is F[i].         *)
Loops(N, D, a, F) ==
    {f \in [0 .. N -> D] : f[0] = a /\ \A i \in 1 .. N : f[i] = F[i][f[i - 1]]}

LEMMA Loop ==
    ASSUME NEW N \in Nat, NEW D, NEW a \in D, NEW F \in [1 .. N -> [D -> D]]
    PROVE  \E f : f \in Loops(N, D, a, F)
<1> DEFINE Good(f, n) == /\ f \in [0 .. n -> D] /\ f[0] = a
                         /\ \A i \in 1 .. n : f[i] = F[i][f[i - 1]]
           S == {n \in Nat : n <= N => \E f : Good(f, n)}
<1>1. 0 \in S
  <2>1. Good([i \in 0 .. 0 |-> a], 0)
    OBVIOUS
  <2> QED
    BY <2>1
<1>2. ASSUME NEW n \in Nat, n \in S
      PROVE  n + 1 \in S
  <2> SUFFICES ASSUME n + 1 <= N
               PROVE  \E f : Good(f, n + 1)
    OBVIOUS
  <2>1. PICK f : Good(f, n)
    BY <1>2
  <2> DEFINE last == F[n + 1][f[n]]
             g == [i \in 0 .. n + 1 |-> IF i = n + 1 THEN last ELSE f[i]]
  <2>2. n + 1 \in 1 .. N /\ n \in 0 .. n
    OBVIOUS
  <2>3. f[n] \in D
    BY <2>1, <2>2
  <2>4. last \in D
    BY <2>2, <2>3
  <2> HIDE DEF last
  <2>5. g \in [0 .. n + 1 -> D]
    <3>1. \A i \in 0 .. n + 1 : i # n + 1 => i \in 0 .. n
      OBVIOUS
    <3> QED
      BY <2>1, <2>4, <3>1
  <2>6. g[0] = a
    BY <2>1
  <2>7. ASSUME NEW i \in 1 .. n + 1
        PROVE  g[i] = F[i][g[i - 1]]
    <3>1. i - 1 \in 0 .. n /\ g[i - 1] = f[i - 1]
      OBVIOUS
    <3>2. CASE i = n + 1
      <4>1. g[i] = last /\ i - 1 = n
        BY <3>2
      <4> QED
        BY <3>1, <3>2, <4>1 DEF last
    <3>3. CASE i # n + 1
      <4>1. i \in 1 .. n /\ g[i] = f[i]
        BY <3>3
      <4> QED
        BY <2>1, <3>1, <4>1
    <3> QED
      BY <3>2, <3>3
  <2> HIDE DEF g
  <2> QED
    BY <2>5, <2>6, <2>7
<1> HIDE DEF S
<1>3. N \in S
  BY <1>1, <1>2, Induction
<1> QED
  BY <1>3 DEF S, Loops

(* Induction over the turns of a loop.                                      *)
LEMMA Turns ==
    ASSUME NEW N \in Nat, NEW S, 0 \in S, \A i \in 1 .. N : i - 1 \in S => i \in S
    PROVE  \A i \in 0 .. N : i \in S
<1> DEFINE T == {n \in Nat : n <= N => n \in S}
<1>1. 0 \in T
  OBVIOUS
<1>2. \A n \in Nat : n \in T => n + 1 \in T
  <2> SUFFICES ASSUME NEW n \in Nat, n \in T, n + 1 <= N
               PROVE  n + 1 \in S
    OBVIOUS
  <2>1. n \in S /\ n + 1 \in 1 .. N /\ (n + 1) - 1 = n
    OBVIOUS
  <2> QED
    BY <2>1
<1> HIDE DEF T
<1>3. \A n \in Nat : n \in T
  BY <1>1, <1>2, Induction
<1> QED
  BY <1>3 DEF T

----------------------------------------------------------------------------
(* The size of the lots.                                                    *)

LEMMA SizeLoop ==
    ASSUME NEW ls \in Seq(Lot)
    PROVE  \E f \in [0 .. Len(ls) -> Nat] :
               /\ f[0] = 0
               /\ \A i \in 1 .. Len(ls) : f[i] = f[i - 1] + ls[i].size
               /\ SizeOf(ls) = f[Len(ls)]
<1> DEFINE N == Len(ls)
           F == [i \in 1 .. N |-> [x \in Nat |-> x + ls[i].size]]
           Body(g) == [i \in 0 .. N |-> IF i = 0 THEN 0 ELSE g[i - 1] + ls[i].size]
           upTo == CHOOSE g : g = Body(g)
<1>0. N \in Nat
  OBVIOUS
<1>1. \A i \in 1 .. N : ls[i].size \in Nat
  <2> SUFFICES ASSUME NEW i \in 1 .. N
               PROVE  ls[i].size \in Nat
    OBVIOUS
  <2>1. ls[i] \in Lot
    OBVIOUS
  <2> QED
    BY <2>1 DEF Lot
<1>2. F \in [1 .. N -> [Nat -> Nat]]
  <2>1. \A i \in 1 .. N : [x \in Nat |-> x + ls[i].size] \in [Nat -> Nat]
    BY <1>1
  <2> QED
    BY <2>1
<1>3. PICK f \in [0 .. N -> Nat] :
          f[0] = 0 /\ \A i \in 1 .. N : f[i] = F[i][f[i - 1]]
  <2> DEFINE D == Nat
             a == 0
  <2>1. a \in D /\ F \in [1 .. N -> [D -> D]]
    BY <1>2
  <2> HIDE DEF D, a, F, N
  <2>2. \E f : f \in Loops(N, D, a, F)
    BY <1>0, <2>1, Loop
  <2> QED
    BY <2>2 DEF D, a, Loops
<1>4. \A i \in 1 .. N : f[i - 1] \in Nat /\ f[i] = f[i - 1] + ls[i].size
  <2> TAKE i \in 1 .. N
  <2>1. i - 1 \in 0 .. N
    BY <1>0
  <2>2. f[i - 1] \in Nat
    BY <1>3, <2>1
  <2> QED
    BY <1>3, <2>2
<1>5. f = Body(f)
  BY <1>0, <1>1, <1>3, <1>4
<1>6. upTo = Body(upTo)
  <2> HIDE DEF Body
  <2> QED
    BY <1>5
<1>7. SizeOf(ls) = upTo[N]
  BY DEF SizeOf
<1> HIDE DEF upTo
<1>8. \A i \in 0 .. N : upTo[i] = f[i]
  <2>1. upTo[0] = 0 /\ \A i \in 1 .. N : upTo[i] = upTo[i - 1] + ls[i].size
    BY <1>0, <1>6
  <2>2. upTo[0] = f[0] /\ \A i \in 1 .. N : upTo[i - 1] = f[i - 1] => upTo[i] = f[i]
    BY <1>0, <1>3, <1>4, <2>1
  <2> DEFINE S == {i \in 0 .. N : upTo[i] = f[i]}
  <2>3. 0 \in S /\ \A i \in 1 .. N : i - 1 \in S => i \in S
    BY <1>0, <2>2
  <2> HIDE DEF N, S
  <2>4. \A i \in 0 .. N : i \in S
    BY ONLY <1>0, <2>3, Turns
  <2> QED
    BY <2>4 DEF S
<1> QED
  BY <1>0, <1>3, <1>4, <1>7, <1>8

LEMMA SizeType ==
    ASSUME NEW ls \in Seq(Lot)
    PROVE  SizeOf(ls) \in Nat
  BY SizeLoop

LEMMA PositionType ==
    ASSUME NEW ls \in Seq(Lot)
    PROVE  PositionOf(ls) \in Int
  BY SizeType DEF PositionOf, Sign


----------------------------------------------------------------------------
(* The lots after a trade.                                                  *)

OneSided(ls) == \A i \in 1 .. Len(ls) : ls[i].side = ls[1].side

(* What the loop of _update_lots_and_pnl works on.                          *)
LoopState == {s \in [lots : Seq(Lot), remaining : Nat, profit : Int] :
                OneSided(s.lots)}

LEMMA TradeType ==
    ASSUME NEW t \in Trades
    PROVE  /\ t = [side |-> t.side, size |-> t.size, price |-> t.price]
           /\ t.side \in {"long", "short"}
           /\ t.size \in Nat \ {0}
           /\ t.price \in Prices /\ t.price \in Nat
  BY InventoryAssumption

LEMMA LotType ==
    ASSUME NEW l \in Lot
    PROVE  /\ l = [side |-> l.side, price |-> l.price, size |-> l.size]
           /\ l.side \in {"long", "short"}
           /\ l.size \in Nat \ {0}
           /\ l.price \in Prices /\ l.price \in Nat
  BY InventoryAssumption DEF Lot

(* The oldest lot, closed by n of its units.                                *)
LEMMA ReducedType ==
    ASSUME NEW ls \in Seq(Lot), ls # <<>>, OneSided(ls),
           NEW n \in Nat \ {0}, n <= ls[1].size
    PROVE  /\ Reduced(ls, n) \in Seq(Lot)
           /\ OneSided(Reduced(ls, n))
           /\ Reduced(ls, n) # <<>> => Reduced(ls, n)[1].side = ls[1].side
<1> DEFINE rest == Tail(ls)
           l == [ls[1] EXCEPT !.size = @ - n]
<1>1. ls[1] \in Lot /\ Len(ls) \in Nat /\ Len(ls) # 0
  OBVIOUS
<1>2. rest \in Seq(Lot) /\ Len(rest) = Len(ls) - 1
  BY <1>1
<1>3. \A i \in 1 .. Len(rest) : rest[i].side = ls[1].side
  <2> SUFFICES ASSUME NEW i \in 1 .. Len(rest)
               PROVE  rest[i].side = ls[1].side
    OBVIOUS
  <2>1. rest[i] = ls[i + 1] /\ i + 1 \in 1 .. Len(ls)
    BY <1>1, <1>2
  <2> QED
    BY <2>1 DEF OneSided
<1>4. CASE ls[1].size = n
  <2>1. Reduced(ls, n) = rest
    BY <1>4 DEF Reduced
  <2>2. rest # <<>> => 1 \in 1 .. Len(rest)
    BY <1>2
  <2> HIDE DEF rest
  <2> QED
    BY <1>2, <1>3, <2>1, <2>2 DEF OneSided
<1>5. CASE ls[1].size # n
  <2>1. Reduced(ls, n) = <<l>> \o rest
    BY <1>5 DEF Reduced
  <2>2. ls[1].size \in Nat /\ ls[1].size - n \in Nat \ {0}
    BY <1>1, <1>5, LotType
  <2>3. l \in Lot /\ l.side = ls[1].side
    BY <1>1, <2>2, LotType DEF Lot
  <2> HIDE DEF l, rest
  <2> DEFINE r == <<l>> \o rest
  <2>4. r \in Seq(Lot) /\ r[1] = l /\ Len(r) = Len(rest) + 1
    BY <1>2, <2>3
  <2>5. \A i \in 1 .. Len(r) : r[i].side = ls[1].side
    <3> SUFFICES ASSUME NEW i \in 1 .. Len(r), i # 1
                 PROVE  r[i].side = ls[1].side
      BY <2>3, <2>4
    <3>1. i - 1 \in 1 .. Len(rest) /\ r[i] = rest[i - 1]
      BY <1>2, <2>3, <2>4
    <3> QED
      BY <1>3, <3>1
  <2> HIDE DEF r
  <2> QED
    BY <2>1, <2>3, <2>4, <2>5 DEF OneSided, r
<1> QED
  BY <1>4, <1>5

LEMMA AppendType ==
    ASSUME NEW ls \in Seq(Lot), OneSided(ls), NEW l \in Lot,
           ls = <<>> \/ ls[1].side = l.side
    PROVE  Append(ls, l) \in Seq(Lot) /\ OneSided(Append(ls, l))
<1> DEFINE r == Append(ls, l)
<1>1. /\ r \in Seq(Lot) /\ Len(ls) \in Nat /\ Len(r) = Len(ls) + 1
      /\ r[Len(ls) + 1] = l /\ \A i \in 1 .. Len(ls) : r[i] = ls[i]
  OBVIOUS
<1> HIDE DEF r
<1>2. CASE ls = <<>>
  <2>1. Len(r) = 1
    BY <1>1, <1>2
  <2> QED
    BY <1>1, <2>1 DEF OneSided, r
<1>3. CASE ls # <<>>
  <2>1. 1 \in 1 .. Len(ls)
    BY <1>3
  <2>2. r[1] = ls[1]
    BY <1>1, <2>1
  <2>3. \A i \in 1 .. Len(r) : i \in 1 .. Len(ls) \/ i = Len(ls) + 1
    BY <1>1
  <2>4. OneSided(r)
    BY <1>1, <1>3, <2>2, <2>3 DEF OneSided
  <2> QED
    BY <1>1, <2>4 DEF r
<1> QED
  BY <1>2, <1>3

(* What one turn of the loop does.                                          *)
LEMMA TurnType ==
    ASSUME NEW s \in LoopState, NEW t \in Trades
    PROVE  Turn(s, t) \in LoopState
<1>1. /\ s = [lots |-> s.lots, remaining |-> s.remaining, profit |-> s.profit]
      /\ s.lots \in Seq(Lot) /\ s.remaining \in Nat /\ s.profit \in Int
      /\ OneSided(s.lots)
  BY DEF LoopState
<1>2. CASE s.remaining = 0
  BY <1>2 DEF Turn
<1>3. CASE s.remaining # 0 /\ (s.lots = <<>> \/ s.lots[1].side = t.side)
  <2> DEFINE l == [t EXCEPT !.size = s.remaining]
  <2>1. l \in Lot /\ l.side = t.side
    BY <1>1, <1>3, TradeType DEF Lot
  <2> HIDE DEF l
  <2> DEFINE more == Append(s.lots, l)
  <2>2. more \in Seq(Lot) /\ OneSided(more)
    BY <1>1, <1>3, <2>1, AppendType
  <2>3. Turn(s, t) = [s EXCEPT !.lots = more, !.remaining = 0]
    BY <1>3 DEF Turn, l
  <2> HIDE DEF more
  <2>4. Turn(s, t) = [lots |-> more, remaining |-> 0, profit |-> s.profit]
    BY <1>1, <2>3
  <2> QED
    BY <1>1, <2>2, <2>4 DEF LoopState
<1>4. CASE s.remaining # 0 /\ s.lots # <<>> /\ s.lots[1].side # t.side
  <2> DEFINE lot == s.lots[1]
             m == Matched(lot, s.remaining)
             p == Profit(lot, t, m)
  <2>1. lot \in Lot
    BY <1>1, <1>4
  <2>2. m \in Nat \ {0} /\ m <= lot.size /\ m <= s.remaining
    BY <1>1, <1>4, <2>1, LotType DEF Matched
  <2>3. p \in Int
    <3>1. Sign(lot.side) \in Int /\ t.price - lot.price \in Int
      BY <2>1, LotType, TradeType DEF Sign
    <3> HIDE DEF lot, m
    <3> QED
      BY <2>2, <3>1 DEF Profit
  <2>4. Turn(s, t) = [lots |-> Reduced(s.lots, m),
                      remaining |-> s.remaining - m, profit |-> s.profit + p]
    BY <1>4 DEF Turn
  <2>5. Reduced(s.lots, m) \in Seq(Lot) /\ OneSided(Reduced(s.lots, m))
    <3> HIDE DEF m
    <3> QED
      BY <1>1, <1>4, <2>2, ReducedType
  <2> HIDE DEF m, p, lot
  <2> QED
    BY <1>1, <2>2, <2>3, <2>4, <2>5 DEF LoopState
<1> QED
  BY <1>2, <1>3, <1>4


(* The while loop of _update_lots_and_pnl, from its first state on.         *)
LEMMA TurnLoop ==
    ASSUME NEW N \in Nat, NEW a \in LoopState, NEW t \in Trades
    PROVE  \E f \in [0 .. N -> LoopState] :
               f[0] = a /\ \A i \in 1 .. N : f[i] = Turn(f[i - 1], t)
<1> DEFINE D == LoopState
           turn == [s \in D |-> Turn(s, t)]
           F == [i \in 1 .. N |-> turn]
<1>0. N \in Nat
  OBVIOUS
<1>1. turn \in [D -> D] /\ a \in D
  BY TurnType
<1>2. F \in [1 .. N -> [D -> D]]
  <2> HIDE DEF turn, D
  <2> QED
    BY <1>1
<1>3. PICK f \in [0 .. N -> D] :
          f[0] = a /\ \A i \in 1 .. N : f[i] = F[i][f[i - 1]]
  <2> HIDE DEF F, D, turn
  <2>1. \E f : f \in Loops(N, D, a, F)
    BY <1>0, <1>1, <1>2, Loop
  <2> QED
    BY <2>1 DEF Loops
<1>4. \A i \in 1 .. N : f[i] = Turn(f[i - 1], t)
  <2> SUFFICES ASSUME NEW i \in 1 .. N
               PROVE  f[i] = Turn(f[i - 1], t)
    OBVIOUS
  <2>1. i - 1 \in 0 .. N
    OBVIOUS
  <2>2. f[i - 1] \in D
    BY <1>3, <2>1
  <2>3. f[i] = turn[f[i - 1]]
    BY <1>3
  <2> QED
    BY <2>2, <2>3
<1> QED
  BY <1>3, <1>4

LEMMA AbsorbedLoop ==
    ASSUME NEW ls \in Seq(Lot), OneSided(ls), NEW t \in Trades
    PROVE  \E f \in [0 .. Len(ls) + 1 -> LoopState] :
               /\ f[0] = [lots |-> ls, remaining |-> t.size, profit |-> 0]
               /\ \A i \in 1 .. Len(ls) + 1 : f[i] = Turn(f[i - 1], t)
               /\ Absorbed(ls, t) = f[Len(ls) + 1]
<1> DEFINE N == Len(ls) + 1
           a == [lots |-> ls, remaining |-> t.size, profit |-> 0]
           Body(g) == [i \in 0 .. N |-> IF i = 0 THEN a ELSE Turn(g[i - 1], t)]
           after == CHOOSE g : g = Body(g)
<1>0. N \in Nat
  OBVIOUS
<1>1. a \in LoopState
  BY TradeType DEF LoopState
<1> HIDE DEF a
<1>2. PICK f \in [0 .. N -> LoopState] :
          f[0] = a /\ \A i \in 1 .. N : f[i] = Turn(f[i - 1], t)
  <2> HIDE DEF N
  <2> QED
    BY <1>0, <1>1, TurnLoop
<1> HIDE DEF N
<1>3. f = Body(f)
  <2>1. \A i \in 0 .. N : i # 0 => i \in 1 .. N
    BY <1>0
  <2> QED
    BY <1>0, <1>2, <2>1
<1>4. after = Body(after)
  <2> HIDE DEF Body
  <2> QED
    BY <1>3
<1>5. Absorbed(ls, t) = after[N]
  BY DEF Absorbed, N, a
<1> HIDE DEF after
<1>6. \A i \in 0 .. N : after[i] = f[i]
  <2>1. after[0] = a /\ \A i \in 1 .. N : after[i] = Turn(after[i - 1], t)
    BY <1>0, <1>4
  <2> DEFINE S == {i \in 0 .. N : after[i] = f[i]}
  <2>2. 0 \in S
    BY <1>0, <1>2, <2>1
  <2>3. \A i \in 1 .. N : i - 1 \in S => i \in S
    BY <1>0, <1>2, <2>1
  <2> HIDE DEF S
  <2>4. \A i \in 0 .. N : i \in S
    BY ONLY <1>0, <2>2, <2>3, Turns
  <2> QED
    BY <2>4 DEF S
<1>7. Absorbed(ls, t) = f[N]
  BY <1>0, <1>5, <1>6
<1> QED
  BY <1>2, <1>7 DEF N, a

LEMMA AbsorbedType ==
    ASSUME NEW ls \in Seq(Lot), OneSided(ls), NEW t \in Trades
    PROVE  Absorbed(ls, t) \in LoopState
<1>1. PICK f \in [0 .. Len(ls) + 1 -> LoopState] :
          Absorbed(ls, t) = f[Len(ls) + 1]
  BY AbsorbedLoop
<1>2. Len(ls) + 1 \in 0 .. Len(ls) + 1
  OBVIOUS
<1> QED
  BY <1>1, <1>2

----------------------------------------------------------------------------
(* The invariants.                                                          *)

(* The fills on their way to the books are fills the exchange made, and the *)
(* answer of get_position comes with a price unless the position is flat.   *)
Delivered ==
    /\ handling \subseteq DOMAIN made
    /\ \A i \in 1 .. Len(inbox) : inbox[i].fills \subseteq DOMAIN made

Answered == api.size # 0 => api.price \in Prices

Inv == TypeOK /\ LotsMatchPosition /\ Delivered /\ Answered

LEMMA LotsOneSided ==
    ASSUME NEW ls \in Seq(Lot)
    PROVE  (\A i \in DOMAIN ls : ls[i].side = ls[1].side /\ ls[i].size > 0)
              <=> OneSided(ls)
<1>1. DOMAIN ls = 1 .. Len(ls)
  OBVIOUS
<1>2. \A i \in 1 .. Len(ls) : ls[i].size > 0
  <2> SUFFICES ASSUME NEW i \in 1 .. Len(ls)
               PROVE  ls[i].size > 0
    OBVIOUS
  <2>1. ls[i] \in Lot
    OBVIOUS
  <2> QED
    BY <2>1, LotType
<1> QED
  BY <1>1, <1>2 DEF OneSided

LEMMA InvInit == Init => Inv
<1> SUFFICES ASSUME Init
             PROVE  Inv
  OBVIOUS
<1>1. TypeOK
  <2> DEFINE Message == [snap : BOOLEAN, fills : SUBSET Fills]
  <2>1. DOMAIN made = {}
    BY DEF Init
  <2> HIDE DEF Message
  <2>2. lots \in Seq(Lot) /\ inbox \in Seq(Message)
    BY DEF Init
  <2> USE DEF Message
  <2>3. api \in [size : Int, price : Prices \cup {0}] /\ drops \in 0 .. MaxDrops
    BY InventoryAssumption DEF Init
  <2>4. truePos \in Int
    BY InventoryAssumption DEF Init
  <2> QED
    BY <2>1, <2>2, <2>3, <2>4 DEF Init, TypeOK
<1>2. LotsMatchPosition
  BY DEF Init, LotsMatchPosition, PositionOf
<1> QED
  BY <1>1, <1>2 DEF Init, Inv, Delivered, Answered


(* OneLot, a repair's single lot, is an honest list of lots.                *)
LEMMA OneLotType ==
    ASSUME api \in [size : Int, price : Prices \cup {0}], Answered
    PROVE  OneLot \in Seq(Lot) /\ OneSided(OneLot)
<1> DEFINE l == [side |-> IF api.size > 0 THEN "long" ELSE "short",
                 price |-> api.price, size |-> Abs(api.size)]
<1>1. CASE api.size = 0
  BY <1>1 DEF OneLot, OneSided
<1>2. CASE api.size # 0
  <2>1. api.price \in Prices /\ api.size \in Int
    BY <1>2 DEF Answered
  <2>2. Abs(api.size) \in Nat \ {0}
    BY <1>2, <2>1 DEF Abs
  <2>3. l \in Lot
    BY <2>1, <2>2 DEF Lot
  <2>4. OneLot = <<l>>
    BY <1>2 DEF OneLot
  <2> HIDE DEF l
  <2> QED
    BY <2>3, <2>4 DEF OneSided
<1> QED
  BY <1>1, <1>2

(* Wherever the lots change, the position is refreshed from them.           *)
LEMMA Refreshed ==
    ASSUME lots' \in Seq(Lot), OneSided(lots'), position' = PositionOf(lots')
    PROVE  lots' \in Seq(Lot) /\ position' \in Int /\ LotsMatchPosition'
<1>1. position' \in Int
  BY PositionType
<1>2. \A i \in DOMAIN lots' : lots'[i].side = lots'[1].side /\ lots'[i].size > 0
  BY LotsOneSided
<1> QED
  BY <1>1, <1>2 DEF LotsMatchPosition

LEMMA InvNext == Inv /\ [Next]_vars => Inv'
<1> SUFFICES ASSUME Inv, [Next]_vars
             PROVE  Inv'
  OBVIOUS
<1> DEFINE Message == [snap : BOOLEAN, fills : SUBSET Fills]
<1>t. /\ lots \in Seq(Lot) /\ realized \in Int /\ position \in Int
      /\ seen \subseteq Fills /\ pc \in {"boot", "bootGot", "sleep", "got"}
      /\ api \in [size : Int, price : Prices \cup {0}]
      /\ session \in {"off", "down", "up"} /\ snapshotted \in BOOLEAN
      /\ inbox \in Seq(Message) /\ handling \subseteq Fills
      /\ DOMAIN made \subseteq Fills /\ \A f \in DOMAIN made : made[f] \in Trades
      /\ truePos \in Int /\ drops \in 0 .. MaxDrops
  BY DEF Inv, TypeOK
<1>l. LotsMatchPosition /\ Delivered /\ Answered
  BY DEF Inv
<1>m. ASSUME NEW msg \in Message
      PROVE  msg.snap \in BOOLEAN /\ msg.fills \subseteq Fills
  OBVIOUS
<1> HIDE DEF Message
<1>c. OneSided(lots)
  BY <1>t, <1>l, LotsOneSided DEF LotsMatchPosition
<1>1. ASSUME NEW f \in Fills, NEW t \in Trades, ExchangeFill(f, t)
      PROVE  Inv'
  <2> USE <1>1 DEF ExchangeFill
  <2>1. DOMAIN made' = DOMAIN made \cup {f}
    OBVIOUS
  <2>2. DOMAIN made' \subseteq Fills /\ \A g \in DOMAIN made' : made'[g] \in Trades
    BY <1>t, <2>1
  <2>3. truePos' \in Int
    BY <1>t, TradeType DEF Sign
  <2> DEFINE msg == [snap |-> FALSE, fills |-> {f}]
  <2>4. msg \in Message /\ msg.fills \subseteq DOMAIN made'
    BY <2>1 DEF Message
  <2>5. inbox' = IF session = "up" THEN Append(inbox, msg) ELSE inbox
    OBVIOUS
  <2> HIDE DEF msg
  <2>6. inbox' \in Seq(Message)
    BY <1>t, <2>4, <2>5
  <2>7. \A i \in 1 .. Len(inbox') : inbox'[i].fills \subseteq DOMAIN made'
    BY <1>t, <1>l, <2>1, <2>4, <2>5 DEF Delivered
  <2>8. TypeOK'
    BY <1>t, <2>2, <2>3, <2>6 DEF TypeOK, books, Message
  <2>9. LotsMatchPosition' /\ Delivered' /\ Answered'
    BY <1>l, <2>1, <2>7 DEF LotsMatchPosition, Delivered, Answered, books
  <2> QED
    BY <2>8, <2>9 DEF Inv
<1>2. CASE Drop
  <2> USE <1>2 DEF Drop
  <2>1. drops' \in 0 .. MaxDrops
    BY <1>t, InventoryAssumption
  <2>2. inbox' \in Seq(Message) /\ inbox' = <<>>
    OBVIOUS
  <2>3. TypeOK'
    BY <1>t, <2>1, <2>2 DEF TypeOK, books, exchange, Message
  <2>4. LotsMatchPosition' /\ Delivered' /\ Answered'
    BY <1>l, <2>2 DEF LotsMatchPosition, Delivered, Answered, books, exchange
  <2> QED
    BY <2>3, <2>4 DEF Inv
<1>3. CASE Connect
  <2> USE <1>3 DEF Connect
  <2> DEFINE msg == [snap |-> TRUE, fills |-> DOMAIN made]
  <2>1. msg \in Message /\ msg.fills \subseteq DOMAIN made
    BY <1>t DEF Message
  <2>2. inbox' = <<msg>>
    OBVIOUS
  <2> HIDE DEF msg
  <2>3. inbox' \in Seq(Message)
        /\ \A i \in 1 .. Len(inbox') : inbox'[i].fills \subseteq DOMAIN made
    <3>0. <<msg>> \in Seq(Message) /\ Len(<<msg>>) = 1 /\ <<msg>>[1] = msg
      BY ONLY <2>1
    <3>1. inbox' \in Seq(Message) /\ Len(inbox') = 1 /\ inbox'[1] = msg
      BY ONLY <2>2, <3>0
    <3>2. \A i \in 1 .. Len(inbox') : i = 1
      BY <3>1
    <3> QED
      BY <2>1, <3>1, <3>2
  <2>4. TypeOK'
    BY <1>t, <2>3 DEF TypeOK, books, exchange, Message
  <2>5. LotsMatchPosition' /\ Delivered' /\ Answered'
    BY <1>l, <2>3 DEF LotsMatchPosition, Delivered, Answered, books, exchange
  <2> QED
    BY <2>4, <2>5 DEF Inv
<1>4. CASE Receive
  <2> USE <1>4 DEF Receive
  <2> DEFINE msg == Head(inbox)
  <2>1. msg \in Message /\ msg.fills \subseteq DOMAIN made
    BY <1>t, <1>l DEF Delivered
  <2>2. \/ seen' = seen \cup msg.fills /\ snapshotted' = TRUE /\ handling' = handling
        \/ handling' = msg.fills /\ seen' = seen /\ snapshotted' = snapshotted
    OBVIOUS
  <2>3. inbox' = Tail(inbox) /\ inbox # <<>>
    OBVIOUS
  <2> HIDE DEF msg
  <2>4. inbox' \in Seq(Message)
    BY <1>t, <2>3
  <2>5. \A i \in 1 .. Len(inbox') : inbox'[i].fills \subseteq DOMAIN made
    <3>1. \A i \in 1 .. Len(inbox') : inbox'[i] = inbox[i + 1] /\ i + 1 \in 1 .. Len(inbox)
      BY <1>t, <2>3
    <3> QED
      BY <1>l, <3>1 DEF Delivered
  <2>6. TypeOK'
    BY <1>t, <1>m, <2>1, <2>2, <2>4 DEF TypeOK, books, exchange, Message
  <2>7. LotsMatchPosition' /\ Delivered' /\ Answered'
    BY <1>l, <2>1, <2>2, <2>5 DEF LotsMatchPosition, Delivered, Answered, books, exchange
  <2> QED
    BY <2>6, <2>7 DEF Inv
<1>5. ASSUME NEW f \in Fills, ApplyFill(f)
      PROVE  Inv'
  <2> USE <1>5 DEF ApplyFill
  <2>1. handling' \subseteq handling /\ seen' \subseteq Fills
    BY <1>t
  <2>2. Delivered' /\ Answered'
    BY <1>l, <2>1 DEF Delivered, Answered, exchange
  <2>3. lots' \in Seq(Lot) /\ realized' \in Int /\ position' \in Int /\ LotsMatchPosition'
    <3>1. CASE IsNew(f)
      <4> DEFINE after == Absorbed(lots, made[f])
      <4>1. made[f] \in Trades
        BY <1>t, <1>l DEF Delivered
      <4>2. after \in LoopState
        BY <1>t, <1>c, <4>1, AbsorbedType
      <4>3. /\ lots' = after.lots /\ realized' = realized + after.profit
            /\ position' = PositionOf(lots')
        BY <3>1
      <4> HIDE DEF after
      <4>4. lots' \in Seq(Lot) /\ OneSided(lots') /\ realized' \in Int
        BY <1>t, <4>2, <4>3 DEF LoopState
      <4> QED
        BY <4>3, <4>4, Refreshed
    <3>2. CASE ~IsNew(f)
      BY <1>t, <1>l, <3>2 DEF books, LotsMatchPosition
    <3> QED
      BY <3>1, <3>2
  <2>4. TypeOK'
    BY <1>t, <2>1, <2>3 DEF TypeOK, exchange, Message
  <2> QED
    BY <2>2, <2>3, <2>4 DEF Inv
<1>6. CASE ReadPosition
  <2> USE <1>6 DEF ReadPosition
  <2>1. api' \in [size : Int, price : Prices \cup {0}] /\ Answered'
    BY <1>t DEF Answered
  <2>2. pc' \in {"boot", "bootGot", "sleep", "got"}
    OBVIOUS
  <2>3. TypeOK'
    BY <1>t, <2>1, <2>2 DEF TypeOK, books, stream, exchange, Message
  <2>4. LotsMatchPosition' /\ Delivered'
    BY <1>l DEF LotsMatchPosition, Delivered, books, stream, exchange
  <2> QED
    BY <2>1, <2>3, <2>4 DEF Inv
<1>7. CASE BootFails
  <2> USE <1>7 DEF BootFails
  <2>1. TypeOK'
    BY <1>t DEF TypeOK, books, exchange, Message
  <2>2. LotsMatchPosition' /\ Delivered' /\ Answered'
    BY <1>l DEF LotsMatchPosition, Delivered, Answered, books, exchange
  <2> QED
    BY <2>1, <2>2 DEF Inv
<1>8. CASE Compare
  <2> USE <1>8 DEF Compare
  <2>1. lots' \in Seq(Lot) /\ position' \in Int /\ LotsMatchPosition' /\ realized' = realized
    <3>1. CASE Differs
      <4>1. lots' = OneLot /\ position' = PositionOf(lots') /\ realized' = realized
        BY <3>1
      <4>2. lots' \in Seq(Lot) /\ OneSided(lots')
        BY <1>t, <1>l, <4>1, OneLotType
      <4> QED
        BY <4>1, <4>2, Refreshed
    <3>2. CASE ~Differs
      BY <1>t, <1>l, <3>2 DEF books, LotsMatchPosition
    <3> QED
      BY <3>1, <3>2
  <2>2. api' \in [size : Int, price : Prices \cup {0}] /\ Answered'
    BY DEF Answered
  <2>3. session' \in {"off", "down", "up"}
    BY <1>t
  <2>4. TypeOK'
    BY <1>t, <2>1, <2>2, <2>3 DEF TypeOK, exchange, Message
  <2>5. Delivered'
    BY <1>l DEF Delivered, exchange
  <2> QED
    BY <2>1, <2>2, <2>4, <2>5 DEF Inv
<1>9. CASE UNCHANGED vars
  BY <1>9 DEF Inv, TypeOK, LotsMatchPosition, Delivered, Answered, vars, books,
     stream, exchange
<1> QED
  BY <1>1, <1>2, <1>3, <1>4, <1>5, <1>6, <1>7, <1>8, <1>9
     DEF Next, Exchange, Socket

LEMMA InvAlways == Spec => []Inv
  BY InvInit, InvNext, PTL DEF Spec

(* The lots, the position, the profit and the messages keep their types,    *)
(* whatever the loop over a fill, the reconnect snapshots and the repairs   *)
(* do to them (inventory.py: _update_lots_and_pnl, reconcile).              *)
THEOREM InventoryTypeOK == Spec => []TypeOK
<1>1. Inv => TypeOK
  BY DEF Inv
<1> QED
  BY <1>1, InvAlways, PTL

(* The cached position is the signed sum of the lots, which are all on one  *)
(* side, after every fill and every repair (inventory.py: _Lot,             *)
(* _refresh_cached_position).                                               *)
THEOREM PositionIsLots == Spec => []LotsMatchPosition
<1>1. Inv => LotsMatchPosition
  BY DEF Inv
<1> QED
  BY <1>1, InvAlways, PTL


----------------------------------------------------------------------------
(* The lots are the abstract ledger: first, its units.                      *)

(* The units of a lot.                                                      *)
Rep(p, n) == [k \in 1 .. n |-> p]

LEMMA RepType ==
    ASSUME NEW p \in Nat, NEW n \in Nat
    PROVE  /\ Rep(p, n) \in Seq(Nat)
           /\ Len(Rep(p, n)) = n
           /\ \A k \in 1 .. n : Rep(p, n)[k] = p
  BY DEF Rep

LEMMA RepZero ==
    ASSUME NEW p \in Nat
    PROVE  Rep(p, 0) = <<>>
  BY DEF Rep

LEMMA RepMore ==
    ASSUME NEW p \in Nat, NEW n \in Nat
    PROVE  Append(Rep(p, n), p) = Rep(p, n + 1)
<1> DEFINE q == Rep(p, n)
           r == Rep(p, n + 1)
           s == Append(q, p)
<1>1. n + 1 \in Nat
  OBVIOUS
<1>2. r \in Seq(Nat) /\ Len(r) = n + 1 /\ \A k \in 1 .. n + 1 : r[k] = p
  BY <1>1, RepType
<1>3. q \in Seq(Nat) /\ Len(q) = n /\ \A k \in 1 .. n : q[k] = p
  BY RepType
<1> HIDE DEF q, r
<1>4. /\ s \in Seq(Nat) /\ Len(s) = n + 1 /\ s[n + 1] = p
      /\ \A k \in 1 .. n : s[k] = q[k]
  BY <1>3, AppendProperties
<1> HIDE DEF s
<1>5. \A k \in 1 .. n + 1 : k \in 1 .. n \/ k = n + 1
  OBVIOUS
<1>6. \A k \in 1 .. Len(s) : s[k] = r[k]
  BY <1>2, <1>3, <1>4, <1>5
<1>7. s = r
  BY <1>2, <1>4, <1>6, SeqEqual
<1> QED
  BY <1>7 DEF s, r, q

LEMMA AppendConcat ==
    ASSUME NEW s \in Seq(Nat), NEW u \in Seq(Nat), NEW x \in Nat
    PROVE  Append(s \o u, x) = s \o Append(u, x)
<1>1. s \o u \in Seq(Nat) /\ <<x>> \in Seq(Nat)
  BY ConcatProperties
<1>2. Append(s \o u, x) = (s \o u) \o <<x>>
  BY <1>1, AppendIsConcat
<1>3. Append(u, x) = u \o <<x>>
  BY AppendIsConcat
<1>4. (s \o u) \o <<x>> = s \o (u \o <<x>>)
  BY <1>1, ConcatAssociative
<1> QED
  BY <1>2, <1>3, <1>4

(* A sequence with one more at its front.                                   *)
LEMMA FirstAndRest ==
    ASSUME NEW S, NEW x \in S, NEW u \in Seq(S)
    PROVE  /\ <<x>> \o u \in Seq(S) /\ <<x>> \o u # <<>>
           /\ Len(<<x>> \o u) = Len(u) + 1
           /\ (<<x>> \o u)[1] = x
           /\ Head(<<x>> \o u) = x
           /\ Tail(<<x>> \o u) = u
<1> DEFINE s == <<x>> \o u
           one == <<x>>
           w == Tail(s)
<1>0. Len(u) \in Nat
  OBVIOUS
<1>1. one \in Seq(S) /\ Len(one) = 1 /\ one[1] = x
  OBVIOUS
<1>2. s = one \o u
  OBVIOUS
<1> HIDE DEF one, s
<1>3. /\ s \in Seq(S) /\ Len(s) = 1 + Len(u)
      /\ \A i \in 1 .. 1 + Len(u) : s[i] = IF i <= 1 THEN one[i] ELSE u[i - 1]
  BY <1>1, <1>2, ConcatProperties
<1>4. s # <<>>
  BY <1>0, <1>3
<1>5. s[1] = x
  BY <1>0, <1>1, <1>3
<1>6. Head(s) = s[1]
  BY <1>3, <1>4
<1>7. /\ w \in Seq(S) /\ Len(w) = Len(s) - 1
      /\ \A i \in 1 .. Len(w) : w[i] = s[i + 1]
  BY <1>3, <1>4, HeadTailProperties
<1> HIDE DEF w
<1>8. Len(w) = Len(u)
  BY <1>0, <1>3, <1>7
<1>9. ASSUME NEW i \in 1 .. Len(w)
      PROVE  w[i] = u[i]
  <2>1. i \in Int /\ 1 <= i /\ i <= Len(u)
    BY <1>0, <1>8
  <2>2. i + 1 \in 1 .. 1 + Len(u) /\ ~(i + 1 <= 1) /\ (i + 1) - 1 = i
    BY <1>0, <2>1
  <2>3. s[i + 1] = u[i]
    BY <1>3, <2>2
  <2> QED
    BY <1>7, <2>3
<1>10. w = u
  BY <1>7, <1>8, <1>9, SeqEqual
<1> QED
  BY <1>0, <1>3, <1>4, <1>5, <1>6, <1>10 DEF s, w, one

(* The oldest unit of a lot with n units that others follow.                *)
LEMMA RepFirst ==
    ASSUME NEW p \in Nat, NEW n \in Nat \ {0}
    PROVE  Rep(p, n) = <<p>> \o Rep(p, n - 1)
<1> DEFINE r == Rep(p, n)
           q == Rep(p, n - 1)
           one == <<p>>
           s == one \o q
<1>0. n - 1 \in Nat
  OBVIOUS
<1>1. r \in Seq(Nat) /\ Len(r) = n /\ \A k \in 1 .. n : r[k] = p
  BY RepType
<1>2. q \in Seq(Nat) /\ Len(q) = n - 1 /\ \A k \in 1 .. n - 1 : q[k] = p
  BY <1>0, RepType
<1>3. one \in Seq(Nat) /\ Len(one) = 1 /\ one[1] = p
  OBVIOUS
<1> HIDE DEF r, q, one
<1>4. /\ s \in Seq(Nat) /\ Len(s) = Len(one) + Len(q)
      /\ \A i \in 1 .. Len(one) + Len(q) : s[i] = IF i <= Len(one) THEN one[i] ELSE q[i - Len(one)]
  BY <1>2, <1>3, ConcatProperties
<1> HIDE DEF s
<1>5. Len(s) = n /\ \A i \in 1 .. n : s[i] = IF i <= 1 THEN one[i] ELSE q[i - 1]
  BY <1>0, <1>2, <1>3, <1>4
<1>6. ASSUME NEW i \in 1 .. n
      PROVE  s[i] = p
  <2>1. CASE i = 1
    BY <1>3, <1>5, <2>1
  <2>2. CASE i # 1
    <3>1. i - 1 \in 1 .. n - 1 /\ ~(i <= 1)
      BY <2>2
    <3> QED
      BY <1>2, <1>5, <3>1
  <2> QED
    BY <2>1, <2>2
<1>7. r = s
  BY <1>1, <1>4, <1>5, <1>6, SeqEqual
<1> QED
  BY <1>7 DEF s, r, q, one

LEMMA OldestUnit ==
    ASSUME NEW p \in Nat, NEW n \in Nat \ {0}, NEW u \in Seq(Nat)
    PROVE  /\ Rep(p, n) \o u \in Seq(Nat)
           /\ Len(Rep(p, n) \o u) = n + Len(u)
           /\ Head(Rep(p, n) \o u) = p
           /\ Tail(Rep(p, n) \o u) = Rep(p, n - 1) \o u
<1> DEFINE r == Rep(p, n)
           q == Rep(p, n - 1)
           v == q \o u
<1>0. n - 1 \in Nat /\ <<p>> \in Seq(Nat)
  OBVIOUS
<1>1. r \in Seq(Nat) /\ Len(r) = n
  BY RepType
<1>2. q \in Seq(Nat)
  BY <1>0, RepType
<1>3. r = <<p>> \o q
  BY RepFirst
<1> HIDE DEF r, q
<1>4. r \o u = <<p>> \o v
  BY <1>0, <1>2, <1>3, ConcatAssociative
<1>5. v \in Seq(Nat)
  BY <1>2, ConcatProperties
<1>6. r \o u \in Seq(Nat) /\ Len(r \o u) = n + Len(u)
  BY <1>1, ConcatProperties
<1> HIDE DEF v
<1>7. Head(<<p>> \o v) = p /\ Tail(<<p>> \o v) = v
  BY <1>5, FirstAndRest
<1>8. Head(r \o u) = p /\ Tail(r \o u) = v
  BY <1>4, <1>7
<1> QED
  BY <1>6, <1>8 DEF r, q, v


LEMMA Regroup ==
    \A x, y, z \in Seq(Nat) : x \o (y \o z) = (x \o y) \o z
<1> SUFFICES ASSUME NEW x \in Seq(Nat), NEW y \in Seq(Nat), NEW z \in Seq(Nat)
             PROVE  x \o (y \o z) = (x \o y) \o z
  OBVIOUS
<1> QED
  BY ConcatAssociative

(* The loops that collect the units of the lots.                            *)
UnitLoops(ls) ==
    {g \in [0 .. Len(ls) -> Seq(Nat)] :
        /\ g[0] = <<>>
        /\ \A i \in 1 .. Len(ls) : g[i] = g[i - 1] \o Rep(ls[i].price, ls[i].size)}

LEMMA LotUnits ==
    ASSUME NEW ls \in Seq(Lot), NEW i \in 1 .. Len(ls)
    PROVE  /\ ls[i] \in Lot
           /\ Rep(ls[i].price, ls[i].size) \in Seq(Nat)
           /\ Len(Rep(ls[i].price, ls[i].size)) = ls[i].size
<1>1. ls[i] \in Lot
  OBVIOUS
<1>2. ls[i].price \in Nat /\ ls[i].size \in Nat
  BY <1>1, LotType
<1> QED
  BY <1>1, <1>2, RepType

LEMMA UnitsLoop ==
    ASSUME NEW ls \in Seq(Lot)
    PROVE  \E g : g \in UnitLoops(ls)
<1> DEFINE N == Len(ls)
           D == Seq(Nat)
           a == <<>>
           add(i) == [s \in D |-> s \o Rep(ls[i].price, ls[i].size)]
           F == [i \in 1 .. N |-> add(i)]
<1>0. N \in Nat /\ a \in D
  OBVIOUS
<1>1. ASSUME NEW i \in 1 .. N
      PROVE  add(i) \in [D -> D]
  <2> DEFINE r == Rep(ls[i].price, ls[i].size)
  <2>1. r \in Seq(Nat)
    BY LotUnits
  <2> HIDE DEF r
  <2>2. \A s \in Seq(Nat) : s \o r \in Seq(Nat)
    BY <2>1, ConcatProperties
  <2>3. add(i) = [s \in D |-> s \o r]
    BY DEF r
  <2> QED
    BY <2>2, <2>3
<1>2. F \in [1 .. N -> [D -> D]]
  <2> HIDE DEF add, D
  <2> QED
    BY <1>1
<1>3. PICK g : g \in Loops(N, D, a, F)
  <2> HIDE DEF F, D, a, N
  <2> QED
    BY <1>0, <1>2, Loop
<1>4. \A i \in 1 .. N : g[i] = g[i - 1] \o Rep(ls[i].price, ls[i].size)
  <2> SUFFICES ASSUME NEW i \in 1 .. N
               PROVE  g[i] = g[i - 1] \o Rep(ls[i].price, ls[i].size)
    OBVIOUS
  <2>0. g \in [0 .. N -> D]
    BY <1>3 DEF Loops
  <2>1. i - 1 \in 0 .. N
    BY <1>0
  <2>2. g[i - 1] \in D
    BY <2>0, <2>1
  <2>3. g[i] = F[i][g[i - 1]] /\ F[i] = add(i)
    BY <1>3 DEF Loops
  <2> QED
    BY <2>2, <2>3
<1> QED
  BY <1>3, <1>4 DEF Loops, UnitLoops

LEMMA UnitsIs ==
    ASSUME NEW ls \in Seq(Lot), NEW g \in UnitLoops(ls)
    PROVE  UnitsOf(ls) = g[Len(ls)] /\ UnitsOf(ls) \in Seq(Nat)
<1> DEFINE N == Len(ls)
           Body(h) == [i \in 0 .. N |->
                          IF i = 0 THEN <<>>
                          ELSE h[i - 1] \o Rep(ls[i].price, ls[i].size)]
           upTo == CHOOSE h : h = Body(h)
<1>0. N \in Nat
  OBVIOUS
<1>1. /\ g \in [0 .. N -> Seq(Nat)] /\ g[0] = <<>>
      /\ \A i \in 1 .. N : g[i] = g[i - 1] \o Rep(ls[i].price, ls[i].size)
  BY DEF UnitLoops
<1>2. UnitsOf(ls) = upTo[N]
  BY DEF UnitsOf, Rep
<1> HIDE DEF N
<1>3. g = Body(g)
  <2>1. \A i \in 0 .. N : i # 0 => i \in 1 .. N
    BY <1>0
  <2> QED
    BY <1>0, <1>1, <2>1
<1>4. upTo = Body(upTo)
  <2> HIDE DEF Body
  <2> QED
    BY <1>3
<1> HIDE DEF upTo
<1>5. /\ upTo[0] = <<>>
      /\ \A i \in 1 .. N : upTo[i] = upTo[i - 1] \o Rep(ls[i].price, ls[i].size)
  BY <1>0, <1>4
<1> DEFINE S == {i \in 0 .. N : upTo[i] = g[i]}
<1>6. 0 \in S /\ \A i \in 1 .. N : i - 1 \in S => i \in S
  <2>1. 0 \in S
    BY <1>0, <1>1, <1>5
  <2>2. ASSUME NEW i \in 1 .. N, i - 1 \in S
        PROVE  i \in S
    <3>1. upTo[i - 1] = g[i - 1]
      BY <2>2
    <3>2. upTo[i] = g[i]
      BY <1>1, <1>5, <3>1
    <3> QED
      BY <1>0, <3>2
  <2> HIDE DEF S
  <2> QED
    BY <2>1, <2>2
<1> HIDE DEF S
<1>7. \A i \in 0 .. N : i \in S
  BY ONLY <1>0, <1>6, Turns
<1>8. N \in 0 .. N
  BY <1>0
<1>9. upTo[N] = g[N] /\ g[N] \in Seq(Nat)
  BY <1>1, <1>7, <1>8 DEF S
<1> QED
  BY <1>2, <1>9 DEF N

LEMMA UnitsEmpty == UnitsOf(<<>>) = <<>>
<1> DEFINE ls == <<>>
<1>1. ls \in Seq(Lot) /\ Len(ls) = 0
  OBVIOUS
<1>2. PICK g : g \in UnitLoops(ls)
  <2> HIDE DEF ls
  <2> QED
    BY <1>1, UnitsLoop
<1>3. UnitsOf(ls) = g[0]
  <2> HIDE DEF ls
  <2> QED
    BY <1>1, <1>2, UnitsIs
<1>4. g[0] = <<>>
  BY <1>2 DEF UnitLoops
<1> QED
  BY <1>3, <1>4

(* A new lot brings its units to the end of the queue.                      *)
LEMMA UnitsAppend ==
    ASSUME NEW ls \in Seq(Lot), NEW l \in Lot
    PROVE  UnitsOf(Append(ls, l)) = UnitsOf(ls) \o Rep(l.price, l.size)
<1> DEFINE N == Len(ls)
           more == Append(ls, l)
           r == Rep(l.price, l.size)
<1>0. N \in Nat /\ r \in Seq(Nat)
  BY LotType, RepType
<1>1. /\ more \in Seq(Lot) /\ Len(more) = N + 1 /\ more[N + 1] = l
      /\ \A i \in 1 .. N : more[i] = ls[i]
  BY AppendProperties
<1>2. PICK g : g \in UnitLoops(ls)
  BY UnitsLoop
<1>3. /\ g \in [0 .. N -> Seq(Nat)] /\ g[0] = <<>>
      /\ \A i \in 1 .. N : g[i] = g[i - 1] \o Rep(ls[i].price, ls[i].size)
  BY <1>2 DEF UnitLoops
<1>4. UnitsOf(ls) = g[N]
  BY <1>2, UnitsIs
<1> HIDE DEF N, more, r
<1> DEFINE last == g[N] \o r
           h == [i \in 0 .. N + 1 |-> IF i = N + 1 THEN last ELSE g[i]]
<1>5. last \in Seq(Nat)
  <2>1. g[N] \in Seq(Nat)
    BY <1>0, <1>3
  <2> QED
    BY <1>0, <2>1, ConcatProperties
<1> HIDE DEF last
<1>6. \A i \in 0 .. N : h[i] = g[i]
  BY <1>0
<1>7. h[N + 1] = last
  BY <1>0
<1>8. h \in [0 .. N + 1 -> Seq(Nat)]
  <2>1. \A i \in 0 .. N + 1 : i # N + 1 => i \in 0 .. N
    BY <1>0
  <2> QED
    BY <1>3, <1>5, <2>1
<1> HIDE DEF h
<1>9. ASSUME NEW i \in 1 .. N + 1
      PROVE  h[i] = h[i - 1] \o Rep(more[i].price, more[i].size)
  <2>1. i - 1 \in 0 .. N /\ h[i - 1] = g[i - 1]
    BY <1>0, <1>6
  <2>2. CASE i = N + 1
    <3>1. more[i] = l /\ h[i] = last /\ i - 1 = N
      BY <1>0, <1>1, <1>7, <2>2
    <3> QED
      BY <2>1, <3>1 DEF last, r
  <2>3. CASE i # N + 1
    <3>1. i \in 1 .. N /\ h[i] = g[i] /\ more[i] = ls[i]
      BY <1>0, <1>1, <1>6, <2>3
    <3> QED
      BY <1>3, <2>1, <3>1
  <2> QED
    BY <2>2, <2>3
<1>10. h \in UnitLoops(more)
  <2>1. h[0] = <<>>
    BY <1>0, <1>3, <1>6
  <2> QED
    BY <1>1, <1>8, <1>9, <2>1 DEF UnitLoops
<1>11. UnitsOf(more) = h[N + 1]
  BY <1>1, <1>10, UnitsIs
<1> QED
  BY <1>4, <1>7, <1>11 DEF last, more, r

(* The units of the oldest lot are at the front of the queue.               *)
LEMMA UnitsFirst ==
    ASSUME NEW l \in Lot, NEW rest \in Seq(Lot)
    PROVE  UnitsOf(<<l>> \o rest) = Rep(l.price, l.size) \o UnitsOf(rest)
<1> DEFINE N == Len(rest)
           all == <<l>> \o rest
           r == Rep(l.price, l.size)
<1>0. N \in Nat /\ r \in Seq(Nat)
  BY LotType, RepType
<1>1. all \in Seq(Lot) /\ Len(all) = N + 1 /\ all[1] = l /\ Tail(all) = rest /\ all # <<>>
  BY FirstAndRest
<1>2. \A i \in 1 .. N : rest[i] = all[i + 1]
  <2> HIDE DEF all
  <2> QED
    BY <1>1, HeadTailProperties
<1>3. PICK g : g \in UnitLoops(rest)
  BY UnitsLoop
<1>4. /\ g \in [0 .. N -> Seq(Nat)] /\ g[0] = <<>>
      /\ \A i \in 1 .. N : g[i] = g[i - 1] \o Rep(rest[i].price, rest[i].size)
  BY <1>3 DEF UnitLoops
<1>5. UnitsOf(rest) = g[N]
  BY <1>3, UnitsIs
<1>6. \A i \in 1 .. N : Rep(rest[i].price, rest[i].size) \in Seq(Nat)
  BY LotUnits
<1> HIDE DEF N, all, r
<1> DEFINE h == [i \in 0 .. N + 1 |-> IF i = 0 THEN <<>> ELSE r \o g[i - 1]]
<1>7. \A i \in 0 .. N : r \o g[i] \in Seq(Nat)
  BY <1>0, <1>4, ConcatProperties
<1>8. h[0] = <<>> /\ \A i \in 1 .. N + 1 : h[i] = r \o g[i - 1]
  BY <1>0
<1>9. h \in [0 .. N + 1 -> Seq(Nat)]
  <2>1. \A i \in 0 .. N + 1 : i # 0 => i - 1 \in 0 .. N
    BY <1>0
  <2>2. \A i \in 0 .. N + 1 : i # 0 => r \o g[i - 1] \in Seq(Nat)
    BY <1>7, <2>1
  <2>3. <<>> \in Seq(Nat)
    OBVIOUS
  <2> QED
    BY <2>2, <2>3
<1> HIDE DEF h
<1>10. ASSUME NEW i \in 1 .. N + 1
       PROVE  h[i] = h[i - 1] \o Rep(all[i].price, all[i].size)
  <2>1. CASE i = 1
    <3>1. h[i] = r \o <<>> /\ h[i - 1] = <<>> /\ all[i] = l
      <4>1. i - 1 = 0
        BY <2>1
      <4> QED
        BY <1>1, <1>4, <1>8, <2>1, <4>1
    <3>2. r \o <<>> = <<>> \o r
      BY <1>0, ConcatEmptySeq
    <3> QED
      BY <3>1, <3>2 DEF r
  <2>2. CASE i # 1
    <3> DEFINE k == i - 1
               q == Rep(rest[k].price, rest[k].size)
    <3>1. k \in 1 .. N /\ k \in 1 .. N + 1 /\ k - 1 \in 0 .. N /\ i = k + 1
      BY <1>0, <2>2
    <3> HIDE DEF k
    <3> DEFINE before == g[k - 1]
    <3>2. h[i] = r \o g[k] /\ h[k] = r \o before
      BY <1>8, <3>1
    <3>3. g[k] = before \o q /\ before \in Seq(Nat) /\ q \in Seq(Nat)
      BY <1>4, <1>6, <3>1
    <3>4. all[i] = rest[k]
      BY <1>2, <3>1
    <3> HIDE DEF q, before
    <3>5. r \o (before \o q) = (r \o before) \o q
      <4>1. r \in Seq(Nat) /\ before \in Seq(Nat) /\ q \in Seq(Nat)
        BY <1>0, <3>3
      <4> QED
        BY ONLY <4>1, Regroup, Zenon
    <3>6. h[i] = h[k] \o q
      BY <3>2, <3>3, <3>5
    <3>7. q = Rep(all[i].price, all[i].size)
      BY <3>4 DEF q
    <3> QED
      BY <3>6, <3>7 DEF k
  <2> QED
    BY <2>1, <2>2
<1>11. h \in UnitLoops(all)
  BY <1>1, <1>8, <1>9, <1>10 DEF UnitLoops
<1>12. UnitsOf(all) = h[N + 1]
  BY <1>1, <1>11, UnitsIs
<1>13. h[N + 1] = r \o g[N]
  <2>1. N + 1 \in 1 .. N + 1 /\ (N + 1) - 1 = N
    BY <1>0
  <2> QED
    BY <1>8, <2>1
<1> QED
  BY <1>5, <1>12, <1>13 DEF all, r


LEMMA OldestLot ==
    ASSUME NEW ls \in Seq(Lot), ls # <<>>
    PROVE  ls[1] \in Lot /\ Tail(ls) \in Seq(Lot) /\ ls = <<ls[1]>> \o Tail(ls)
<1> DEFINE one == <<ls[1]>>
           rest == Tail(ls)
           s == one \o rest
<1>0. ls[1] \in Lot /\ Len(ls) \in Nat \ {0}
  OBVIOUS
<1>1. one \in Seq(Lot) /\ Len(one) = 1 /\ one[1] = ls[1]
  BY <1>0
<1>2. /\ rest \in Seq(Lot) /\ Len(rest) = Len(ls) - 1
      /\ \A i \in 1 .. Len(rest) : rest[i] = ls[i + 1]
  BY HeadTailProperties
<1> HIDE DEF one, rest, s
<1>3. /\ s \in Seq(Lot) /\ Len(s) = Len(one) + Len(rest)
      /\ \A i \in 1 .. Len(one) + Len(rest) : s[i] = IF i <= Len(one) THEN one[i] ELSE rest[i - Len(one)]
  <2>1. one \in Seq(Lot) /\ rest \in Seq(Lot)
    BY <1>1, <1>2
  <2> QED
    BY ONLY <2>1, ConcatProperties DEF s
<1>4. Len(s) = Len(ls)
  BY <1>0, <1>1, <1>2, <1>3
<1>5. ASSUME NEW i \in 1 .. Len(s)
      PROVE  s[i] = ls[i]
  <2>1. s[i] = IF i <= 1 THEN one[i] ELSE rest[i - 1]
    BY <1>1, <1>3
  <2>2. CASE i = 1
    BY <1>1, <2>1, <2>2
  <2>3. CASE i # 1
    <3>1. i - 1 \in 1 .. Len(rest) /\ ~(i <= 1) /\ (i - 1) + 1 = i
      BY <1>0, <1>2, <1>4, <2>3
    <3> QED
      BY <1>2, <2>1, <3>1
  <2> QED
    BY <2>2, <2>3
<1>6. s = ls
  BY <1>3, <1>4, <1>5, SeqEqual
<1> QED
  BY <1>0, <1>2, <1>6 DEF s, one, rest

LEMMA UnitsType ==
    ASSUME NEW ls \in Seq(Lot)
    PROVE  UnitsOf(ls) \in Seq(Nat) /\ (UnitsOf(ls) = <<>> <=> ls = <<>>)
<1>1. UnitsOf(ls) \in Seq(Nat)
  BY UnitsLoop, UnitsIs
<1>2. ASSUME ls # <<>>
      PROVE  UnitsOf(ls) # <<>>
  <2> DEFINE l == ls[1]
             rest == Tail(ls)
             u == UnitsOf(rest)
  <2>1. l \in Lot /\ rest \in Seq(Lot) /\ ls = <<l>> \o rest
    BY <1>2, OldestLot
  <2> HIDE DEF l, rest
  <2>2. UnitsOf(ls) = Rep(l.price, l.size) \o u
    BY <2>1, UnitsFirst
  <2>3. u \in Seq(Nat)
    BY <2>1, UnitsLoop, UnitsIs
  <2> HIDE DEF u
  <2>4. l.size \in Nat \ {0} /\ l.price \in Nat
    BY <2>1, LotType
  <2>5. Len(UnitsOf(ls)) = l.size + Len(u)
    <3>1. Len(Rep(l.price, l.size) \o u) = l.size + Len(u)
      BY ONLY <2>3, <2>4, OldestUnit
    <3> QED
      BY <2>2, <3>1
  <2>6. Len(u) \in Nat
    BY <2>3
  <2> QED
    BY <2>4, <2>5, <2>6
<1> QED
  BY <1>1, <1>2, UnitsEmpty

----------------------------------------------------------------------------
(* Then, a trade: the turns of the code are units of the ledger.            *)

SideOf(ls) == IF ls = <<>> THEN "flat" ELSE ls[1].side

Booked(ls, profit) == [side |-> SideOf(ls), units |-> UnitsOf(ls), pnl |-> profit]

Books == {b \in [side : {"long", "short", "flat"}, units : Seq(Nat), pnl : Int] :
            b.side = "flat" <=> b.units = <<>>}

LEMMA BookedType ==
    ASSUME NEW ls \in Seq(Lot), NEW profit \in Int
    PROVE  Booked(ls, profit) \in Books
<1>1. UnitsOf(ls) \in Seq(Nat) /\ (UnitsOf(ls) = <<>> <=> ls = <<>>)
  BY UnitsType
<1>2. SideOf(ls) \in {"long", "short", "flat"} /\ (SideOf(ls) = "flat" <=> ls = <<>>)
  <2>1. ls # <<>> => ls[1] \in Lot
    OBVIOUS
  <2> QED
    BY <2>1, LotType DEF SideOf
<1> QED
  BY <1>1, <1>2 DEF Booked, Books

LEMMA UnitType ==
    ASSUME NEW b \in Books, NEW s \in {"long", "short"}, NEW p \in Nat
    PROVE  Abstract!Unit(b, s, p) \in Books
<1>1. /\ b = [side |-> b.side, units |-> b.units, pnl |-> b.pnl]
      /\ b.side \in {"long", "short", "flat"} /\ b.units \in Seq(Nat)
      /\ b.pnl \in Int /\ (b.side = "flat" <=> b.units = <<>>)
  BY DEF Books
<1>2. CASE b.side \in {s, "flat"}
  <2> DEFINE more == Append(b.units, p)
  <2>1. Abstract!Unit(b, s, p) = [b EXCEPT !.side = s, !.units = more]
    BY <1>2 DEF Abstract!Unit
  <2>2. more \in Seq(Nat) /\ more # <<>>
    BY <1>1, AppendProperties
  <2> HIDE DEF more
  <2>3. Abstract!Unit(b, s, p) = [side |-> s, units |-> more, pnl |-> b.pnl]
    BY <1>1, <2>1
  <2> QED
    BY <1>1, <2>2, <2>3 DEF Books
<1>3. CASE b.side \notin {s, "flat"}
  <2> DEFINE v == IF Len(b.units) = 1 THEN "flat" ELSE b.side
             w == Tail(b.units)
             x == b.pnl + IF s = "short" THEN p - Head(b.units)
                                          ELSE Head(b.units) - p
  <2>1. Abstract!Unit(b, s, p) = [side |-> v, units |-> w, pnl |-> x]
    BY <1>3 DEF Abstract!Unit
  <2>2. b.units # <<>>
    BY <1>1, <1>3
  <2>3. Head(b.units) \in Nat /\ w \in Seq(Nat) /\ Len(w) = Len(b.units) - 1
    BY <1>1, <2>2, HeadTailProperties
  <2>4. x \in Int
    BY <1>1, <2>3
  <2>5. Len(w) = 0 <=> w = <<>>
    <3>1. w \in Seq(Nat)
      BY <2>3
    <3> HIDE DEF w
    <3> QED
      BY ONLY <3>1, EmptySeq
  <2>6. Len(b.units) \in Nat
    BY <1>1
  <2>7. v \in {"long", "short", "flat"} /\ (v = "flat" <=> w = <<>>)
    BY <1>1, <1>3, <2>3, <2>5, <2>6
  <2> HIDE DEF v, w, x
  <2> QED
    BY <2>1, <2>3, <2>4, <2>7 DEF Books
<1> QED
  BY <1>2, <1>3

(* The units of a trade, one after the other.                               *)
LEMMA TradedLoop ==
    ASSUME NEW b \in Books, NEW t \in Trades
    PROVE  \E u \in [0 .. t.size -> Books] :
               /\ u[0] = b
               /\ \A n \in 1 .. t.size : u[n] = Abstract!Unit(u[n - 1], t.side, t.price)
               /\ Abstract!Traded(b, t) = u[t.size]
<1> DEFINE N == t.size
           D == Books
           step == [c \in D |-> Abstract!Unit(c, t.side, t.price)]
           F == [i \in 1 .. N |-> step]
           Body(h) == [n \in 0 .. N |->
                          IF n = 0 THEN b ELSE Abstract!Unit(h[n - 1], t.side, t.price)]
           after == CHOOSE h : h = Body(h)
<1>0. N \in Nat /\ b \in D
  BY TradeType
<1>1. step \in [D -> D]
  BY TradeType, UnitType
<1>2. F \in [1 .. N -> [D -> D]]
  <2> HIDE DEF step, D, N
  <2> QED
    BY <1>1
<1>3. PICK u : u \in Loops(N, D, b, F)
  <2> HIDE DEF F, D, N
  <2> QED
    BY <1>0, <1>2, Loop
<1>4. u \in [0 .. N -> D] /\ u[0] = b
  BY <1>3 DEF Loops
<1>5. \A n \in 1 .. N : u[n] = Abstract!Unit(u[n - 1], t.side, t.price)
  <2> SUFFICES ASSUME NEW n \in 1 .. N
               PROVE  u[n] = Abstract!Unit(u[n - 1], t.side, t.price)
    OBVIOUS
  <2>1. n - 1 \in 0 .. N
    BY <1>0
  <2>2. u[n - 1] \in D
    BY <1>4, <2>1
  <2>3. u[n] = F[n][u[n - 1]] /\ F[n] = step
    BY <1>3 DEF Loops
  <2> QED
    BY <2>2, <2>3
<1>6. Abstract!Traded(b, t) = after[N]
  BY DEF Abstract!Traded
<1> HIDE DEF N
<1>7. u = Body(u)
  <2>1. \A i \in 0 .. N : i # 0 => i \in 1 .. N
    BY <1>0
  <2> QED
    BY <1>0, <1>4, <1>5, <2>1
<1>8. after = Body(after)
  <2> HIDE DEF Body
  <2> QED
    BY <1>7
<1> HIDE DEF after
<1>9. /\ after[0] = b
      /\ \A n \in 1 .. N : after[n] = Abstract!Unit(after[n - 1], t.side, t.price)
  BY <1>0, <1>8
<1> DEFINE S == {i \in 0 .. N : after[i] = u[i]}
<1>10. 0 \in S /\ \A i \in 1 .. N : i - 1 \in S => i \in S
  BY <1>0, <1>4, <1>5, <1>9
<1> HIDE DEF S
<1>11. \A i \in 0 .. N : i \in S
  BY ONLY <1>0, <1>10, Turns
<1>12. after[N] = u[N]
  <2>1. N \in 0 .. N
    BY <1>0
  <2> QED
    BY <1>11, <2>1 DEF S
<1> QED
  BY <1>4, <1>5, <1>6, <1>12 DEF N


(* The units of the ledger while n units of a trade open a lot.             *)
LEMMA OpensUnits ==
    ASSUME NEW ls \in Seq(Lot), NEW profit \in Int, NEW t \in Trades,
           ls = <<>> \/ ls[1].side = t.side,
           NEW n \in Nat \ {0}, NEW v, v[0] = Booked(ls, profit),
           \A k \in 1 .. n : v[k] = Abstract!Unit(v[k - 1], t.side, t.price),
           NEW l \in Lot, l.side = t.side, l.price = t.price, l.size = n
    PROVE  v[n] = Booked(Append(ls, l), profit)
<1> DEFINE u == UnitsOf(ls)
           p == t.price
           At(k) == [side |-> IF k = 0 THEN SideOf(ls) ELSE t.side,
                     units |-> u \o Rep(p, k), pnl |-> profit]
           S == {k \in 0 .. n : v[k] = At(k)}
<1>1. u \in Seq(Nat) /\ p \in Nat
  BY UnitsType, TradeType
<1>2. SideOf(ls) \in {t.side, "flat"}
  BY DEF SideOf
<1>0. v[0] = [side |-> SideOf(ls), units |-> u, pnl |-> profit]
  BY DEF Booked
<1> HIDE DEF u, p
<1>3. 0 \in S
  <2>1. u \o Rep(p, 0) = u
    BY <1>1, RepZero, ConcatEmptySeq
  <2>2. v[0] = At(0)
    BY <1>0, <2>1
  <2> HIDE DEF At
  <2> QED
    BY <2>2
<1>4. ASSUME NEW k \in 1 .. n, k - 1 \in S
      PROVE  k \in S
  <2> DEFINE j == k - 1
             b == v[j]
             seq == u \o Rep(p, j)
  <2>1. j \in Nat /\ j + 1 = k
    OBVIOUS
  <2>2. b = At(j)
    BY <1>4
  <2>3. Append(seq, p) = u \o Rep(p, k)
    <3>1. Rep(p, j) \in Seq(Nat)
      BY <1>1, <2>1, RepType
    <3>2. Append(seq, p) = u \o Append(Rep(p, j), p)
      BY <1>1, <3>1, AppendConcat
    <3>3. Append(Rep(p, j), p) = Rep(p, j + 1)
      BY <1>1, <2>1, RepMore
    <3> QED
      BY <2>1, <3>2, <3>3
  <2>4. b.side \in {t.side, "flat"} /\ b.units = seq /\ b.pnl = profit
    BY <1>2, <2>2
  <2>5. v[k] = Abstract!Unit(b, t.side, p)
    BY DEF p
  <2> HIDE DEF j, seq
  <2>6. v[k] = [b EXCEPT !.side = t.side, !.units = Append(b.units, p)]
    BY <2>4, <2>5 DEF Abstract!Unit
  <2> DEFINE q == u \o Rep(p, k)
  <2>7. v[k] = [b EXCEPT !.side = t.side, !.units = q]
    BY <2>3, <2>4, <2>6
  <2>8. v[k] = [side |-> t.side, units |-> q, pnl |-> profit]
    <3> HIDE DEF q
    <3> DEFINE x == IF j = 0 THEN SideOf(ls) ELSE t.side
               y == u \o Rep(p, j)
    <3>1. b = [side |-> x, units |-> y, pnl |-> profit]
      BY <2>2
    <3> HIDE DEF x, y, b
    <3> QED
      BY <2>7, <3>1
  <2>9. v[k] = At(k)
    <3>1. (IF k = 0 THEN SideOf(ls) ELSE t.side) = t.side
      BY <2>1
    <3>2. At(k) = [side |-> t.side, units |-> q, pnl |-> profit]
      BY ONLY <3>1, Zenon
    <3> QED
      BY ONLY <2>8, <3>2, Zenon
  <2> HIDE DEF At
  <2> QED
    BY <2>9
<1> HIDE DEF S
<1>5. \A k \in 0 .. n : k \in S
  BY <1>3, <1>4, Turns
<1>6. v[n] = [side |-> t.side, units |-> u \o Rep(p, n), pnl |-> profit]
  <2>1. v[n] = At(n)
    <3> HIDE DEF At
    <3> QED
      BY <1>5 DEF S
  <2> QED
    BY <2>1
<1>7. UnitsOf(Append(ls, l)) = u \o Rep(p, n)
  BY UnitsAppend DEF u, p
<1>8. SideOf(Append(ls, l)) = t.side
  <2>1. Append(ls, l) # <<>> /\ Append(ls, l)[1] = IF ls = <<>> THEN l ELSE ls[1]
    <3>1. CASE ls = <<>>
      BY <3>1
    <3>2. CASE ls # <<>>
      <4>1. 1 \in 1 .. Len(ls)
        BY <3>2
      <4> QED
        BY <3>2, <4>1, AppendProperties
    <3> QED
      BY <3>1, <3>2
  <2> QED
    BY <2>1 DEF SideOf
<1> QED
  BY <1>6, <1>7, <1>8 DEF Booked

(* What a unit of a trade earns on a lot.                                   *)
Gain(l, t) == Sign(l.side) * (t.price - l.price)

(* The units of the ledger while m units of a trade close the oldest lot.   *)
LEMMA ClosesUnits ==
    ASSUME NEW ls \in Seq(Lot), OneSided(ls), ls # <<>>, NEW profit \in Int,
           NEW t \in Trades, ls[1].side # t.side,
           NEW m \in Nat \ {0}, m <= ls[1].size, NEW v, v[0] = Booked(ls, profit),
           \A k \in 1 .. m : v[k] = Abstract!Unit(v[k - 1], t.side, t.price)
    PROVE  v[m] = Booked(Reduced(ls, m), profit + Profit(ls[1], t, m))
<1> DEFINE lot == ls[1]
           rest == Tail(ls)
           u == UnitsOf(rest)
           p == lot.price
           z == lot.size
           g == Gain(lot, t)
           At(k) == [side |-> IF k = z + Len(u) THEN "flat" ELSE lot.side,
                     units |-> Rep(p, z - k) \o u, pnl |-> profit + g * k]
           S == {k \in 0 .. m : v[k] = At(k)}
<1>1. lot \in Lot /\ rest \in Seq(Lot) /\ ls = <<lot>> \o rest
  BY OldestLot
<1> HIDE DEF lot, rest
<1>2. /\ p \in Nat /\ z \in Nat \ {0} /\ lot.side \in {"long", "short"}
      /\ lot = [side |-> lot.side, price |-> p, size |-> z]
  BY <1>1, LotType
<1>3. u \in Seq(Nat) /\ Len(u) \in Nat /\ (u = <<>> <=> rest = <<>>)
  BY <1>1, UnitsType
<1>4. m <= z /\ lot.side # t.side
  BY DEF lot
<1>5. t.side \in {"long", "short"} /\ t.price \in Nat
  BY TradeType
<1>6. /\ g \in Int
      /\ g = IF t.side = "short" THEN t.price - p ELSE p - t.price
  BY <1>2, <1>4, <1>5 DEF Gain, Sign
<1>7. v[0] = [side |-> lot.side, units |-> Rep(p, z) \o u, pnl |-> profit]
  <2>1. UnitsOf(ls) = Rep(p, z) \o u
    BY <1>1, UnitsFirst
  <2>2. SideOf(ls) = lot.side
    BY DEF SideOf, lot
  <2> QED
    BY <2>1, <2>2 DEF Booked
<1> HIDE DEF u, p, z, g
<1>8. 0 \in S
  <2>1. 0 # z + Len(u) /\ z - 0 = z /\ profit + g * 0 = profit
    BY <1>2, <1>3, <1>6
  <2>2. v[0] = At(0)
    BY <1>7, <2>1
  <2> HIDE DEF At
  <2> QED
    BY <2>2
<1>9. ASSUME NEW k \in 1 .. m, k - 1 \in S
      PROVE  k \in S
  <2> DEFINE j == z - (k - 1)
             b == v[k - 1]
  <2>1. j \in Nat \ {0} /\ j - 1 = z - k /\ k - 1 # z + Len(u) /\ k \in Nat
    BY <1>2, <1>3, <1>4
  <2>2. b = [side |-> lot.side, units |-> Rep(p, j) \o u, pnl |-> profit + g * (k - 1)]
    BY <1>9, <2>1
  <2>3. v[k] = Abstract!Unit(b, t.side, t.price)
    OBVIOUS
  <2> HIDE DEF j, b
  <2> DEFINE q == Rep(p, j) \o u
             r == Rep(p, z - k) \o u
             was == profit + g * (k - 1)
  <2>4. Len(q) = j + Len(u) /\ Head(q) = p /\ Tail(q) = Rep(p, j - 1) \o u
    BY <1>2, <1>3, <2>1, OldestUnit
  <2>5. Tail(q) = r
    BY <2>1, <2>4
  <2>6. b.side = lot.side /\ b.units = q /\ b.pnl = was
    BY <2>2
  <2> HIDE DEF q, r
  <2>7. Len(q) = 1 <=> k = z + Len(u)
    <3> DEFINE more == Len(u)
    <3>1. Len(q) = j + more /\ more \in Nat
      BY <1>3, <2>4
    <3> HIDE DEF more
    <3>2. Len(q) = 1 <=> k = z + more
      BY ONLY <1>2, <2>1, <3>1
    <3> QED
      BY <3>2 DEF more
  <2>8. was + g = profit + g * k
    BY <1>6
  <2> HIDE DEF was
  <2>9. b.side \notin {t.side, "flat"}
    BY <1>2, <1>4, <2>6
  <2>10. v[k] = [side |-> IF Len(q) = 1 THEN "flat" ELSE lot.side,
                 units |-> Tail(q),
                 pnl |-> was + IF t.side = "short" THEN t.price - Head(q)
                                                   ELSE Head(q) - t.price]
    BY <2>3, <2>6, <2>9 DEF Abstract!Unit
  <2>11. v[k] = [side |-> IF k = z + Len(u) THEN "flat" ELSE lot.side,
                 units |-> r, pnl |-> was + g]
    BY <1>6, <2>4, <2>5, <2>7, <2>10
  <2>12. v[k] = At(k)
    BY <2>8, <2>11 DEF r
  <2> HIDE DEF At
  <2> QED
    BY <2>12
<1> HIDE DEF S
<1>10. \A k \in 0 .. m : k \in S
  BY <1>8, <1>9, Turns
<1>11. v[m] = [side |-> IF m = z + Len(u) THEN "flat" ELSE lot.side,
               units |-> Rep(p, z - m) \o u, pnl |-> profit + g * m]
  <2>1. v[m] = At(m)
    <3> HIDE DEF At
    <3> QED
      BY <1>10 DEF S
  <2> QED
    BY <2>1
<1>12. Profit(ls[1], t, m) = g * m
  BY DEF Profit, Gain, g, lot
<1>13. CASE z = m
  <2>1. Reduced(ls, m) = rest
    BY <1>13 DEF Reduced, lot, rest, z
  <2>2. Rep(p, z - m) \o u = u
    <3>1. z - m = 0
      BY <1>2, <1>13
    <3> QED
      BY <1>2, <1>3, <3>1, RepZero, ConcatEmptySeq
  <2>3. m = z + Len(u) <=> rest = <<>>
    <3>1. Len(u) = 0 <=> u = <<>>
      BY <1>3, EmptySeq
    <3> QED
      BY <1>2, <1>3, <1>13, <3>1
  <2>4. rest # <<>> => rest[1].side = lot.side
    BY <2>1, ReducedType DEF lot
  <2>5. SideOf(rest) = IF m = z + Len(u) THEN "flat" ELSE lot.side
    BY <2>3, <2>4 DEF SideOf
  <2> QED
    BY <1>11, <1>12, <2>1, <2>2, <2>5 DEF Booked, u
<1>14. CASE z # m
  <2> DEFINE l == [lot EXCEPT !.size = @ - m]
             all == <<l>> \o rest
  <2>1. Reduced(ls, m) = all
    BY <1>14 DEF Reduced, lot, rest, z
  <2>2. l = [side |-> lot.side, price |-> p, size |-> z - m]
    BY <1>2
  <2>3. z - m \in Nat \ {0}
    BY <1>2, <1>4, <1>14
  <2>4. l \in Lot /\ l.price = p /\ l.size = z - m /\ l.side = lot.side
    BY <1>1, <1>2, <2>2, <2>3, LotType DEF Lot, p
  <2> HIDE DEF l
  <2>5. UnitsOf(all) = Rep(p, z - m) \o u
    BY <1>1, <2>4, UnitsFirst DEF u
  <2>6. all # <<>> /\ all[1] = l
    BY <1>1, <2>4, FirstAndRest
  <2>7. SideOf(all) = lot.side
    BY <2>4, <2>6 DEF SideOf
  <2>8. m # z + Len(u)
    BY <1>2, <1>3, <1>4, <1>14
  <2> QED
    BY <1>11, <1>12, <2>1, <2>5, <2>7, <2>8 DEF Booked
<1> QED
  BY <1>13, <1>14


(* The units of the ledger from its unit c on.                              *)
LEMMA UnitsFrom ==
    ASSUME NEW t \in Trades, NEW u, NEW c \in Nat, NEW n \in Nat, c + n <= t.size,
           \A i \in 1 .. t.size : u[i] = Abstract!Unit(u[i - 1], t.side, t.price)
    PROVE  \E v : /\ v[0] = u[c] /\ v[n] = u[c + n]
                  /\ \A k \in 1 .. n : v[k] = Abstract!Unit(v[k - 1], t.side, t.price)
<1> DEFINE v == [k \in 0 .. n |-> u[c + k]]
<1>1. v[0] = u[c] /\ v[n] = u[c + n]
  <2>1. v[0] = u[c + 0] /\ c + 0 = c
    OBVIOUS
  <2> QED
    BY <2>1
<1>2. ASSUME NEW k \in 1 .. n
      PROVE  v[k] = Abstract!Unit(v[k - 1], t.side, t.price)
  <2>1. k \in 0 .. n /\ k - 1 \in 0 .. n
    OBVIOUS
  <2>2. c + k \in 1 .. t.size /\ c + (k - 1) = (c + k) - 1
    BY TradeType
  <2>3. v[k] = u[c + k] /\ v[k - 1] = u[(c + k) - 1]
    BY <2>1, <2>2
  <2> HIDE DEF v
  <2> QED
    BY <2>2, <2>3
<1> HIDE DEF v
<1> QED
  BY <1>1, <1>2

(* One turn of the loop of _update_lots_and_pnl is some units of the ledger. *)
LEMMA TurnIsUnits ==
    ASSUME NEW s \in LoopState, NEW profit \in Int, NEW t \in Trades, NEW u,
           \A i \in 1 .. t.size : u[i] = Abstract!Unit(u[i - 1], t.side, t.price),
           s.remaining <= t.size,
           u[t.size - s.remaining] = Booked(s.lots, profit + s.profit)
    PROVE  /\ Turn(s, t).remaining <= t.size
           /\ u[t.size - Turn(s, t).remaining]
                 = Booked(Turn(s, t).lots, profit + Turn(s, t).profit)
<1> DEFINE c == t.size - s.remaining
           r == s.remaining
           earned == profit + s.profit
<1>1. /\ s = [lots |-> s.lots, remaining |-> s.remaining, profit |-> s.profit]
      /\ s.lots \in Seq(Lot) /\ s.remaining \in Nat /\ s.profit \in Int
      /\ OneSided(s.lots)
  BY DEF LoopState
<1>2. t.size \in Nat
  BY TradeType
<1>3. c \in Nat /\ r \in Nat /\ c + r = t.size /\ earned \in Int
  BY <1>1, <1>2
<1>4. CASE s.remaining = 0
  BY <1>4 DEF Turn
<1>5. CASE s.remaining # 0 /\ (s.lots = <<>> \/ s.lots[1].side = t.side)
  <2> DEFINE l == [t EXCEPT !.size = s.remaining]
             more == Append(s.lots, l)
  <2>1. l \in Lot /\ l.side = t.side /\ l.price = t.price /\ l.size = r
    BY <1>1, <1>5, TradeType DEF Lot
  <2>2. Turn(s, t) = [s EXCEPT !.lots = more, !.remaining = 0]
    BY <1>5 DEF Turn
  <2> HIDE DEF more
  <2>3. Turn(s, t) = [lots |-> more, remaining |-> 0, profit |-> s.profit]
    BY <1>1, <2>2
  <2>4. u[c] = Booked(s.lots, earned)
    OBVIOUS
  <2> HIDE DEF c, r, earned, l
  <2>5. PICK v : /\ v[0] = u[c] /\ v[r] = u[c + r]
                 /\ \A k \in 1 .. r : v[k] = Abstract!Unit(v[k - 1], t.side, t.price)
    <3>1. c + r <= t.size
      BY <1>2, <1>3
    <3> QED
      BY <1>3, <3>1, UnitsFrom
  <2>6. v[0] = Booked(s.lots, earned) /\ r \in Nat \ {0}
    BY <1>3, <1>5, <2>4, <2>5 DEF r
  <2>7. v[r] = Booked(Append(s.lots, l), earned)
    <3> DEFINE ls == s.lots
    <3>1. ls \in Seq(Lot) /\ (ls = <<>> \/ ls[1].side = t.side) /\ t \in Trades
      BY <1>1, <1>5
    <3>2. v[0] = Booked(ls, earned)
      BY <2>6
    <3> HIDE DEF ls
    <3>3. v[r] = Booked(Append(ls, l), earned)
      BY ONLY <1>3, <2>1, <2>5, <2>6, <3>1, <3>2, OpensUnits
    <3> QED
      BY <3>3 DEF ls
  <2>8. u[t.size] = Booked(more, earned)
    BY <1>3, <2>5, <2>7 DEF more
  <2> QED
    BY <1>2, <2>3, <2>8 DEF earned
<1>6. CASE s.remaining # 0 /\ s.lots # <<>> /\ s.lots[1].side # t.side
  <2> DEFINE lot == s.lots[1]
             m == Matched(lot, s.remaining)
             p == Profit(lot, t, m)
             left == Reduced(s.lots, m)
  <2>1. lot \in Lot
    BY <1>1, <1>6
  <2>2. m \in Nat \ {0} /\ m <= lot.size /\ m <= s.remaining
    BY <1>1, <1>6, <2>1, LotType DEF Matched
  <2>3. Turn(s, t) = [lots |-> left, remaining |-> s.remaining - m,
                      profit |-> s.profit + p]
    BY <1>6 DEF Turn
  <2>4. u[c] = Booked(s.lots, earned)
    OBVIOUS
  <2>5. p \in Int
    <3>1. Sign(lot.side) \in Int /\ t.price - lot.price \in Int
      BY <2>1, LotType, TradeType DEF Sign
    <3> HIDE DEF lot, m
    <3> QED
      BY <2>2, <3>1 DEF Profit
  <2> HIDE DEF m, p, left
  <2>6. s.remaining - m <= t.size /\ t.size - (s.remaining - m) = c + m
        /\ profit + (s.profit + p) = earned + p /\ c + m <= t.size
    BY <1>1, <1>2, <2>2, <2>5
  <2> HIDE DEF c, r, earned
  <2>7. PICK v : /\ v[0] = u[c] /\ v[m] = u[c + m]
                 /\ \A k \in 1 .. m : v[k] = Abstract!Unit(v[k - 1], t.side, t.price)
    BY <1>3, <2>2, <2>6, UnitsFrom
  <2>8. v[0] = Booked(s.lots, earned)
    BY <2>4, <2>7
  <2>9. v[m] = Booked(Reduced(s.lots, m), earned + Profit(s.lots[1], t, m))
    <3> DEFINE ls == s.lots
    <3>1. ls \in Seq(Lot) /\ OneSided(ls) /\ ls # <<>> /\ ls[1].side # t.side
      BY <1>1, <1>6
    <3>2. v[0] = Booked(ls, earned) /\ m <= ls[1].size /\ m \in Nat \ {0}
      BY <2>2, <2>8 DEF lot
    <3>3. earned \in Int /\ t \in Trades
      BY <1>3
    <3>4. \A k \in 1 .. m : v[k] = Abstract!Unit(v[k - 1], t.side, t.price)
      BY <2>7
    <3> HIDE DEF ls
    <3>5. v[m] = Booked(Reduced(ls, m), earned + Profit(ls[1], t, m))
      BY ONLY <3>1, <3>2, <3>3, <3>4, ClosesUnits
    <3> QED
      BY <3>5 DEF ls
  <2>10. u[c + m] = Booked(left, earned + p)
    BY <2>7, <2>9 DEF left, p, lot
  <2> QED
    BY <2>3, <2>6, <2>10
<1> QED
  BY <1>4, <1>5, <1>6

(* Every turn but the last uses up a lot.                                   *)
LEMMA TurnEnds ==
    ASSUME NEW s \in LoopState, NEW t \in Trades
    PROVE  \/ Turn(s, t).remaining = 0
           \/ /\ s.lots # <<>> /\ s.remaining # 0
              /\ Len(Turn(s, t).lots) = Len(s.lots) - 1
<1>1. /\ s.lots \in Seq(Lot) /\ s.remaining \in Nat
  BY DEF LoopState
<1>2. CASE s.remaining = 0
  BY <1>2 DEF Turn
<1>3. CASE s.remaining # 0 /\ (s.lots = <<>> \/ s.lots[1].side = t.side)
  <2> DEFINE more == Append(s.lots, [t EXCEPT !.size = s.remaining])
  <2>1. Turn(s, t) = [s EXCEPT !.lots = more, !.remaining = 0]
    BY <1>3 DEF Turn
  <2>2. s = [lots |-> s.lots, remaining |-> s.remaining, profit |-> s.profit]
    BY DEF LoopState
  <2> HIDE DEF more
  <2> QED
    BY <2>1, <2>2
<1>4. CASE s.remaining # 0 /\ s.lots # <<>> /\ s.lots[1].side # t.side
  <2> DEFINE lot == s.lots[1]
             m == Matched(lot, s.remaining)
             p == s.profit + Profit(lot, t, m)
             left == Reduced(s.lots, m)
  <2>1. Turn(s, t) = [lots |-> left, remaining |-> s.remaining - m, profit |-> p]
    BY <1>4 DEF Turn
  <2>2. lot \in Lot /\ lot.size \in Nat
    BY <1>1, <1>4, LotType
  <2> HIDE DEF p
  <2>3. CASE s.remaining <= lot.size
    <3>1. s.remaining - m = 0
      BY <1>1, <2>2, <2>3 DEF Matched
    <3> HIDE DEF left, m
    <3> QED
      BY <2>1, <3>1
  <2>4. CASE s.remaining > lot.size
    <3>1. m = lot.size
      BY <1>1, <2>2, <2>4 DEF Matched
    <3>2. left = Tail(s.lots)
      BY <3>1 DEF Reduced
    <3>3. Len(left) = Len(s.lots) - 1
      BY <1>1, <1>4, <3>2, HeadTailProperties
    <3> HIDE DEF left, m
    <3> QED
      BY <1>4, <2>1, <3>3
  <2> QED
    BY <1>1, <2>2, <2>3, <2>4
<1> QED
  BY <1>2, <1>3, <1>4

(* The loop ends with nothing left of the fill.                             *)
LEMMA AbsorbedEnds ==
    ASSUME NEW ls \in Seq(Lot), OneSided(ls), NEW t \in Trades
    PROVE  Absorbed(ls, t).remaining = 0
<1> DEFINE N == Len(ls) + 1
           size == Len(ls)
<1>0. N \in Nat /\ size \in Nat /\ N = size + 1
  OBVIOUS
<1>1. PICK f \in [0 .. N -> LoopState] :
         /\ f[0] = [lots |-> ls, remaining |-> t.size, profit |-> 0]
         /\ \A i \in 1 .. N : f[i] = Turn(f[i - 1], t)
         /\ Absorbed(ls, t) = f[N]
  BY AbsorbedLoop
<1> HIDE DEF N
<1>2. N \in 0 .. N
  BY <1>0
<1>3. \A i \in 1 .. N : f[i - 1] \in LoopState /\ i - 1 \in 0 .. N
  BY <1>0, <1>1
<1> DEFINE R == {i \in 0 .. N : f[i].remaining = 0 \/ Len(f[i].lots) = size - i}
<1>4. 0 \in R
  <2>1. Len(f[0].lots) = size - 0
    BY <1>0, <1>1
  <2> QED
    BY <1>0, <2>1
<1>5. ASSUME NEW i \in 1 .. N, i - 1 \in R
       PROVE  i \in R
  <2>1. f[i - 1] \in LoopState /\ f[i] = Turn(f[i - 1], t)
    BY <1>1, <1>3
  <2>2. \/ f[i].remaining = 0
        \/ f[i - 1].remaining # 0 /\ Len(f[i].lots) = Len(f[i - 1].lots) - 1
    BY <2>1, TurnEnds
  <2>3. f[i - 1].remaining # 0 => Len(f[i - 1].lots) = size - (i - 1)
    BY <1>5
  <2>4. size - (i - 1) - 1 = size - i
    BY <1>0
  <2>5. f[i].remaining = 0 \/ Len(f[i].lots) = size - i
    <3> DEFINE was == Len(f[i - 1].lots)
               now == Len(f[i].lots)
               left == f[i - 1].remaining
    <3>1. f[i].remaining = 0 \/ (left # 0 /\ now = was - 1)
      BY ONLY <2>2
    <3>2. left # 0 => was = size - (i - 1)
      BY ONLY <2>3
    <3> HIDE DEF was, now, left, size
    <3>3. f[i].remaining = 0 \/ now = size - i
      BY ONLY <2>4, <3>1, <3>2
    <3> QED
      BY ONLY <3>3 DEF now
  <2>6. i \in 0 .. N
    BY <1>0
  <2> QED
    BY ONLY <2>5, <2>6
<1> HIDE DEF R
<1>6. \A i \in 0 .. N : i \in R
  BY <1>0, <1>4, <1>5, Turns
<1>7. f[N].remaining = 0
  <2>1. f[N].remaining = 0 \/ Len(f[N].lots) = size - N
    BY <1>2, <1>6 DEF R
  <2>2. f[N].lots \in Seq(Lot)
    BY <1>1, <1>2 DEF LoopState
  <2>3. Len(f[N].lots) \in Nat
    BY <2>2
  <2>4. size - N < 0
    BY <1>0
  <2> HIDE DEF size
  <2> QED
    BY <2>1, <2>3, <2>4
<1> QED
  BY <1>1, <1>7

(* A fill moves the lots exactly as its units move the ledger.              *)
LEMMA TradeIsUnits ==
    ASSUME NEW ls \in Seq(Lot), OneSided(ls), NEW profit \in Int, NEW t \in Trades
    PROVE  Abstract!Traded(Booked(ls, profit), t)
              = Booked(Absorbed(ls, t).lots, profit + Absorbed(ls, t).profit)
<1> DEFINE N == Len(ls) + 1
<1>0. N \in Nat
  OBVIOUS
<1>1. PICK f \in [0 .. N -> LoopState] :
         /\ f[0] = [lots |-> ls, remaining |-> t.size, profit |-> 0]
         /\ \A i \in 1 .. N : f[i] = Turn(f[i - 1], t)
         /\ Absorbed(ls, t) = f[N]
  BY AbsorbedLoop
<1> HIDE DEF N
<1>2. PICK u \in [0 .. t.size -> Books] :
         /\ u[0] = Booked(ls, profit)
         /\ \A n \in 1 .. t.size : u[n] = Abstract!Unit(u[n - 1], t.side, t.price)
         /\ Abstract!Traded(Booked(ls, profit), t) = u[t.size]
  BY BookedType, TradedLoop
<1>3. t.size \in Nat /\ N \in 0 .. N
  BY <1>0, TradeType
<1>4. \A i \in 1 .. N : f[i - 1] \in LoopState /\ i - 1 \in 0 .. N
  BY <1>0, <1>1
<1> DEFINE InStepAt(s) == /\ s.remaining <= t.size
                          /\ u[t.size - s.remaining] = Booked(s.lots, profit + s.profit)
           S == {i \in 0 .. N : InStepAt(f[i])}
<1>5. 0 \in S
  <2>1. t.size - t.size = 0 /\ profit + 0 = profit /\ t.size <= t.size
    BY <1>3
  <2>2. InStepAt(f[0])
    BY <1>1, <1>2, <2>1
  <2> HIDE DEF InStepAt
  <2> QED
    BY <1>0, <2>2
<1>6. ASSUME NEW i \in 1 .. N, i - 1 \in S
      PROVE  i \in S
  <2>1. InStepAt(f[i - 1])
    <3> HIDE DEF InStepAt
    <3> QED
      BY <1>6
  <2>2. f[i - 1] \in LoopState /\ f[i] = Turn(f[i - 1], t)
    BY <1>1, <1>4
  <2>3. InStepAt(Turn(f[i - 1], t))
    <3> DEFINE s == f[i - 1]
    <3>1. s \in LoopState /\ InStepAt(s)
      BY <2>1, <2>2
    <3> HIDE DEF s
    <3>2. InStepAt(Turn(s, t))
      BY <1>2, <3>1, TurnIsUnits
    <3> QED
      BY <3>2 DEF s
  <2> HIDE DEF InStepAt
  <2> QED
    BY <1>0, <2>2, <2>3
<1> HIDE DEF S
<1>7. \A i \in 0 .. N : i \in S
  BY <1>0, <1>5, <1>6, Turns
<1>8. InStepAt(f[N])
  <2> HIDE DEF InStepAt
  <2> QED
    BY <1>3, <1>7 DEF S
<1>9. f[N].remaining = 0
  BY <1>1, AbsorbedEnds
<1> QED
  <2>1. t.size - 0 = t.size
    BY <1>3
  <2> QED
    BY <1>1, <1>2, <1>8, <1>9, <2>1


----------------------------------------------------------------------------
(* Every step of the inventory is a step of the ledger, or none.            *)

LEMMA LedgerInit == Init => Abstract!Init
  BY UnitsEmpty DEF Init, Abstract!Init

(* A step that leaves the books and the seen fills alone.                   *)
LEMMA LedgerStutters ==
    ASSUME UNCHANGED <<books, seen>>
    PROVE  UNCHANGED Abstract!vars
  BY DEF books, Abstract!vars

LEMMA LedgerNext == Inv /\ [Next]_vars => [Abstract!Next]_(Abstract!vars)
<1> SUFFICES ASSUME Inv, [Next]_vars
             PROVE  [Abstract!Next]_(Abstract!vars)
  OBVIOUS
<1>t. /\ lots \in Seq(Lot) /\ realized \in Int /\ handling \subseteq DOMAIN made
      /\ \A f \in DOMAIN made : made[f] \in Trades
      /\ api \in [size : Int, price : Prices \cup {0}] /\ Answered
  BY DEF Inv, TypeOK, Delivered
<1>c. OneSided(lots)
  BY <1>t, LotsOneSided DEF Inv, LotsMatchPosition
<1>1. ASSUME NEW f \in Fills, NEW t \in Trades, ExchangeFill(f, t)
      PROVE  UNCHANGED <<books, seen>>
  BY <1>1 DEF ExchangeFill
<1>2. CASE Drop
  BY <1>2, LedgerStutters DEF Drop
<1>3. CASE Connect
  BY <1>3, LedgerStutters DEF Connect
<1>4. CASE Receive
  <2>1. seen \subseteq seen' /\ books' = books
    BY <1>4 DEF Receive
  <2>2. Abstract!Skip
    BY <2>1 DEF Abstract!Skip, books
  <2> QED
    BY <2>2 DEF Abstract!Next
<1>5. ASSUME NEW f \in Fills, ApplyFill(f)
      PROVE  [Abstract!Next]_(Abstract!vars)
  <2>1. CASE IsNew(f)
    <3> DEFINE t == made[f]
               after == Absorbed(lots, t)
    <3>1. t \in Trades
      BY <1>t, <1>5 DEF ApplyFill
    <3>2. lots' = after.lots /\ realized' = realized + after.profit
      BY <1>5, <2>1 DEF ApplyFill
    <3>3. f \notin seen /\ seen' = seen \cup {f}
      BY <1>5, <2>1 DEF ApplyFill, IsNew
    <3>4. Abstract!Traded(Booked(lots, realized), t)
             = Booked(after.lots, realized + after.profit)
      <4> HIDE DEF t
      <4> QED
        BY <1>t, <1>c, <3>1, TradeIsUnits
    <3> HIDE DEF after, t
    <3>5. Booked(lots', realized') = Abstract!Traded(Booked(lots, realized), t)
      BY <3>2, <3>4
    <3>6. Abstract!Settle(f, t)
      BY <3>3, <3>5 DEF Abstract!Settle, Booked, SideOf
    <3> QED
      BY <3>1, <3>6 DEF Abstract!Next
  <2>2. CASE ~IsNew(f)
    <3>1. UNCHANGED <<books, seen>>
      BY <1>5, <2>2 DEF ApplyFill, IsNew, books
    <3> QED
      BY <3>1, LedgerStutters
  <2> QED
    BY <2>1, <2>2
<1>6. CASE ReadPosition
  BY <1>6, LedgerStutters DEF ReadPosition
<1>7. CASE BootFails
  BY <1>7, LedgerStutters DEF BootFails
<1>8. CASE Compare
  <2>1. CASE Differs
    <3>1. lots' = OneLot /\ realized' = realized /\ seen' = seen
      BY <1>8, <2>1 DEF Compare
    <3>2. lots' \in Seq(Lot)
      BY <1>t, <3>1, OneLotType
    <3>3. /\ UnitsOf(lots') \in Seq(Nat)
          /\ UnitsOf(lots') = <<>> <=> lots' = <<>>
          /\ SideOf(lots') \in {"long", "short", "flat"}
          /\ SideOf(lots') = "flat" <=> UnitsOf(lots') = <<>>
      BY <3>2, UnitsType, OldestLot, LotType DEF SideOf
    <3>4. \A i, j \in DOMAIN UnitsOf(lots') : UnitsOf(lots')[i] = UnitsOf(lots')[j]
      <4>1. CASE api.size = 0
        <5>1. UnitsOf(lots') = <<>>
          BY <3>1, <4>1, UnitsEmpty DEF OneLot
        <5> QED
          BY <5>1
      <4>2. CASE api.size # 0
        <5> DEFINE l == [side |-> IF api.size > 0 THEN "long" ELSE "short",
                         price |-> api.price, size |-> Abs(api.size)]
                   r == Rep(l.price, l.size)
        <5>1. lots' = <<l>>
          BY <3>1, <4>2 DEF OneLot
        <5> HIDE DEF l
        <5>2. l \in Lot
          BY <3>2, <5>1
        <5>3. UnitsOf(<<l>> \o <<>>) = r \o UnitsOf(<<>>)
          <6> DEFINE none == <<>>
          <6>1. none \in Seq(Lot)
            OBVIOUS
          <6> HIDE DEF none
          <6>2. UnitsOf(<<l>> \o none) = r \o UnitsOf(none)
            BY <5>2, <6>1, UnitsFirst
          <6> QED
            BY <6>2 DEF none
        <5>4. <<l>> \o <<>> = <<l>>
          BY <5>2, ConcatEmptySeq
        <5>5. l.price \in Nat /\ l.size \in Nat
          BY <5>2, LotType
        <5>6. r \in Seq(Nat)
          BY <5>5, RepType
        <5>7. r \o <<>> = r
          BY <5>6, ConcatEmptySeq
        <5>8. UnitsOf(lots') = r
          BY <5>1, <5>3, <5>4, <5>7, UnitsEmpty
        <5>9. \A i, j \in DOMAIN r : r[i] = r[j]
          BY DEF Rep
        <5> QED
          BY <5>8, <5>9
      <4> QED
        BY <4>1, <4>2
    <3>5. Abstract!Rebase
      BY <3>1, <3>3, <3>4 DEF Abstract!Rebase, SideOf
    <3> QED
      BY <3>5 DEF Abstract!Next
  <2>2. CASE ~Differs
    <3>1. UNCHANGED <<books, seen>>
      BY <1>8, <2>2 DEF Compare
    <3> QED
      BY <3>1, LedgerStutters
  <2> QED
    BY <2>1, <2>2
<1>9. CASE UNCHANGED vars
  BY <1>9, LedgerStutters DEF vars
<1>10. ASSUME NEW f \in Fills, NEW t \in Trades, ExchangeFill(f, t)
       PROVE  [Abstract!Next]_(Abstract!vars)
  BY <1>1, <1>10, LedgerStutters
<1> QED
  BY <1>2, <1>3, <1>4, <1>5, <1>6, <1>7, <1>8, <1>9, <1>10
     DEF Next, Exchange, Socket

(* Whatever the partial matches, the flips, the reconnect snapshots and the *)
(* repairs, the lots are the FIFO ledger: a fill counts once, unit by unit, *)
(* and closes the oldest unit first (inventory.py: _handle_message,         *)
(* _update_lots_and_pnl, reconcile).                                        *)
THEOREM LotsAreLedger == Spec => IsLedger
  BY LedgerInit, LedgerNext, InvAlways, PTL DEF Spec, IsLedger, Abstract!Spec


----------------------------------------------------------------------------
(* The position after a fill.                                               *)

(* The size of the lots is the number of their units.                       *)
LEMMA SizeIsUnits ==
    ASSUME NEW ls \in Seq(Lot)
    PROVE  SizeOf(ls) = Len(UnitsOf(ls))
<1> DEFINE N == Len(ls)
<1>0. N \in Nat /\ N \in 0 .. N
  OBVIOUS
<1>1. PICK f \in [0 .. N -> Nat] :
         /\ f[0] = 0
         /\ \A i \in 1 .. N : f[i] = f[i - 1] + ls[i].size
         /\ SizeOf(ls) = f[N]
  BY SizeLoop
<1>2. PICK g : g \in UnitLoops(ls)
  BY UnitsLoop
<1>3. /\ g \in [0 .. N -> Seq(Nat)] /\ g[0] = <<>>
      /\ \A i \in 1 .. N : g[i] = g[i - 1] \o Rep(ls[i].price, ls[i].size)
  BY <1>2 DEF UnitLoops
<1>4. UnitsOf(ls) = g[N]
  BY <1>2, UnitsIs
<1> DEFINE R == {i \in 0 .. N : f[i] = Len(g[i])}
<1>5. 0 \in R
  BY <1>0, <1>1, <1>3
<1>6. ASSUME NEW i \in 1 .. N, i - 1 \in R
      PROVE  i \in R
  <2> DEFINE r == Rep(ls[i].price, ls[i].size)
             before == g[i - 1]
  <2>1. r \in Seq(Nat) /\ Len(r) = ls[i].size
    BY LotUnits
  <2>2. before \in Seq(Nat) /\ g[i] = before \o r
    <3>1. i - 1 \in 0 .. N
      BY <1>0
    <3> QED
      BY <1>3, <3>1
  <2>3. f[i] = f[i - 1] + Len(r) /\ f[i - 1] = Len(before)
    BY <1>1, <1>6, <2>1
  <2> HIDE DEF r, before
  <2>4. Len(before \o r) = Len(before) + Len(r)
    BY <2>1, <2>2, ConcatProperties
  <2>5. i \in 0 .. N
    BY <1>0
  <2> QED
    BY <2>2, <2>3, <2>4, <2>5
<1> HIDE DEF R, N
<1>7. \A i \in 0 .. N : i \in R
  BY <1>0, <1>5, <1>6, Turns
<1>8. f[N] = Len(g[N])
  BY <1>0, <1>7 DEF R
<1> QED
  BY <1>1, <1>4, <1>8

LEMMA SizeAppend ==
    ASSUME NEW ls \in Seq(Lot), NEW l \in Lot
    PROVE  SizeOf(Append(ls, l)) = SizeOf(ls) + l.size
<1> DEFINE more == Append(ls, l)
           u == UnitsOf(ls)
           r == Rep(l.price, l.size)
<1>1. more \in Seq(Lot)
  OBVIOUS
<1>2. UnitsOf(more) = u \o r
  BY UnitsAppend
<1>3. u \in Seq(Nat) /\ r \in Seq(Nat) /\ Len(r) = l.size
  BY UnitsType, LotType, RepType
<1>4. SizeOf(ls) = Len(u)
  BY SizeIsUnits
<1> HIDE DEF more
<1>5. SizeOf(more) = Len(UnitsOf(more))
  BY <1>1, SizeIsUnits
<1> HIDE DEF u, r
<1>6. Len(u \o r) = Len(u) + Len(r)
  BY <1>3, ConcatProperties
<1>7. SizeOf(more) = SizeOf(ls) + l.size
  BY <1>2, <1>3, <1>4, <1>5, <1>6
<1> QED
  BY <1>7 DEF more

LEMMA SizeFirst ==
    ASSUME NEW l \in Lot, NEW rest \in Seq(Lot)
    PROVE  SizeOf(<<l>> \o rest) = l.size + SizeOf(rest)
<1> DEFINE all == <<l>> \o rest
           u == UnitsOf(rest)
           r == Rep(l.price, l.size)
<1>1. all \in Seq(Lot)
  BY FirstAndRest
<1>2. UnitsOf(all) = r \o u
  BY UnitsFirst
<1>3. u \in Seq(Nat) /\ r \in Seq(Nat) /\ Len(r) = l.size
  BY UnitsType, LotType, RepType
<1>4. SizeOf(rest) = Len(u)
  BY SizeIsUnits
<1> HIDE DEF all
<1>5. SizeOf(all) = Len(UnitsOf(all))
  BY <1>1, SizeIsUnits
<1> HIDE DEF u, r
<1>6. Len(r \o u) = Len(r) + Len(u)
  BY <1>3, ConcatProperties
<1>7. SizeOf(all) = l.size + SizeOf(rest)
  BY <1>2, <1>3, <1>4, <1>5, <1>6
<1> QED
  BY <1>7 DEF all

LEMMA SizeEmpty == SizeOf(<<>>) = 0
<1> DEFINE ls == <<>>
<1>1. ls \in Seq(Lot)
  OBVIOUS
<1> HIDE DEF ls
<1>2. SizeOf(ls) = Len(UnitsOf(ls))
  BY <1>1, SizeIsUnits
<1> QED
  BY <1>2, UnitsEmpty DEF ls

(* The position of lots that are all on side s, none or some.               *)
LEMMA PositionOnSide ==
    ASSUME NEW ls \in Seq(Lot), NEW s, ls # <<>> => ls[1].side = s,
           s \in {"long", "short"}
    PROVE  PositionOf(ls) = Sign(s) * SizeOf(ls)
<1>1. Sign(s) \in Int /\ Sign(s) * 0 = 0
  BY DEF Sign
<1>2. CASE ls = <<>>
  BY <1>1, <1>2, SizeEmpty DEF PositionOf
<1>3. CASE ls # <<>>
  BY <1>3 DEF PositionOf
<1> QED
  BY <1>2, <1>3

(* What a turn takes from the fill it adds to the position.                 *)
LEMMA TurnMoves ==
    ASSUME NEW s \in LoopState, NEW t \in Trades
    PROVE  PositionOf(Turn(s, t).lots) + Sign(t.side) * Turn(s, t).remaining
              = PositionOf(s.lots) + Sign(t.side) * s.remaining
<1> DEFINE ls == s.lots
           r == s.remaining
           g == Sign(t.side)
<1>1. /\ s = [lots |-> ls, remaining |-> r, profit |-> s.profit]
      /\ ls \in Seq(Lot) /\ r \in Nat /\ OneSided(ls)
  BY DEF LoopState
<1>2. t.side \in {"long", "short"}
  BY TradeType
<1>3. CASE r = 0
  BY <1>3 DEF Turn
<1>4. CASE r # 0 /\ (ls = <<>> \/ ls[1].side = t.side)
  <2> DEFINE l == [t EXCEPT !.size = r]
             more == Append(ls, l)
  <2>1. l \in Lot /\ l.side = t.side /\ l.size = r
    BY <1>1, <1>4, TradeType DEF Lot
  <2>2. Turn(s, t) = [s EXCEPT !.lots = more, !.remaining = 0]
    BY <1>4 DEF Turn
  <2> HIDE DEF ls, r, l
  <2>3. more \in Seq(Lot) /\ more # <<>> /\ more[1].side = t.side
    <3>1. more \in Seq(Lot) /\ more # <<>> /\ Len(more) = Len(ls) + 1
          /\ more[Len(ls) + 1] = l /\ \A i \in 1 .. Len(ls) : more[i] = ls[i]
      BY <1>1, <2>1, AppendProperties
    <3> HIDE DEF more
    <3>2. ls = <<>> \/ 1 \in 1 .. Len(ls)
      BY <1>1
    <3>3. ls = <<>> => Len(ls) + 1 = 1
      OBVIOUS
    <3> QED
      BY <1>4, <2>1, <3>1, <3>2, <3>3
  <2>4. SizeOf(more) = SizeOf(ls) + r
    BY <1>1, <2>1, SizeAppend
  <2> HIDE DEF more
  <2>5. PositionOf(more) = g * SizeOf(more)
    BY <1>2, <2>3, PositionOnSide
  <2>6. PositionOf(ls) = g * SizeOf(ls)
    BY <1>1, <1>2, <1>4, PositionOnSide
  <2>7. Turn(s, t).lots = more /\ Turn(s, t).remaining = 0
    BY <1>1, <2>2
  <2>8. SizeOf(ls) \in Nat /\ (g = 1 \/ g = -1)
    BY <1>1, SizeType DEF Sign
  <2> HIDE DEF g
  <2>9. g * SizeOf(more) + g * 0 = g * SizeOf(ls) + g * r
    <3> DEFINE z == SizeOf(ls)
    <3> HIDE DEF z
    <3>1. z \in Nat /\ SizeOf(more) = z + r
      BY <2>4, <2>8 DEF z
    <3>2. CASE g = 1
      BY <1>1, <3>1, <3>2 DEF z
    <3>3. CASE g = -1
      BY <1>1, <3>1, <3>3 DEF z
    <3> QED
      BY <2>8, <3>2, <3>3
  <2> QED
    BY <2>5, <2>6, <2>7, <2>9 DEF ls, r, g
<1>5. CASE r # 0 /\ ls # <<>> /\ ls[1].side # t.side
  <2> DEFINE lot == ls[1]
             rest == Tail(ls)
             m == Matched(lot, r)
             p == s.profit + Profit(lot, t, m)
             left == Reduced(ls, m)
             h == Sign(lot.side)
  <2>1. lot \in Lot /\ rest \in Seq(Lot) /\ ls = <<lot>> \o rest
    BY <1>1, <1>5, OldestLot
  <2>2. /\ m \in Nat \ {0} /\ m <= lot.size /\ lot.size \in Nat
        /\ lot.side \in {"long", "short"}
    BY <1>1, <1>5, <2>1, LotType DEF Matched
  <2>3. Turn(s, t).lots = left /\ Turn(s, t).remaining = r - m
    BY <1>5 DEF Turn
  <2>4. left \in Seq(Lot) /\ (left # <<>> => left[1].side = lot.side)
    <3> HIDE DEF m
    <3> QED
      BY <1>1, <1>5, <2>2, ReducedType
  <2>5. SizeOf(ls) = lot.size + SizeOf(rest)
    <3> HIDE DEF lot, rest
    <3> QED
      BY <2>1, SizeFirst
  <2>6. SizeOf(left) = SizeOf(ls) - m
    <3>1. SizeOf(rest) \in Nat
      <4> HIDE DEF rest
      <4> QED
        BY <2>1, SizeType
    <3>2. CASE lot.size = m
      <4>1. left = rest
        BY <3>2 DEF Reduced
      <4> HIDE DEF rest, left, lot, m, ls
      <4> QED
        BY <2>2, <2>5, <3>1, <3>2, <4>1
    <3>3. CASE lot.size # m
      <4> DEFINE l == [lot EXCEPT !.size = @ - m]
      <4>1. left = <<l>> \o rest
        BY <3>3 DEF Reduced
      <4>2. lot.size - m \in Nat \ {0}
        <5> HIDE DEF m, lot
        <5> QED
          BY <2>2, <3>3
      <4>3. l \in Lot /\ l.size = lot.size - m
        <5> HIDE DEF m
        <5> QED
          BY <2>1, <4>2, LotType DEF Lot
      <4> HIDE DEF l, rest, left
      <4>4. SizeOf(left) = l.size + SizeOf(rest)
        BY <2>1, <4>1, <4>3, SizeFirst
      <4> HIDE DEF lot, m, ls
      <4> QED
        BY <2>2, <2>5, <3>1, <4>3, <4>4
    <3> QED
      BY <3>2, <3>3
  <2> HIDE DEF left, rest
  <2>7. PositionOf(left) = h * SizeOf(left)
    BY <2>2, <2>4, PositionOnSide
  <2>8. PositionOf(ls) = h * SizeOf(ls)
    BY <1>1, <2>2, PositionOnSide
  <2>9. SizeOf(ls) \in Nat
    BY <1>1, SizeType
  <2>10. (h = 1 /\ g = -1) \/ (h = -1 /\ g = 1)
    BY <1>2, <1>5, <2>2 DEF Sign
  <2> HIDE DEF g, h, m, lot, ls, r
  <2>11. h * SizeOf(left) + g * (r - m) = h * SizeOf(ls) + g * r
    <3> DEFINE z == SizeOf(ls)
    <3> HIDE DEF z
    <3>1. z \in Nat /\ SizeOf(left) = z - m /\ m \in Nat /\ r \in Nat
      BY <1>1, <2>2, <2>6, <2>9 DEF z
    <3>2. CASE h = 1 /\ g = -1
      BY <3>1, <3>2 DEF z
    <3>3. CASE h = -1 /\ g = 1
      BY <3>1, <3>3 DEF z
    <3> QED
      BY <2>10, <3>2, <3>3
  <2> QED
    BY <2>3, <2>7, <2>8, <2>11 DEF g, r, ls
<1> QED
  BY <1>3, <1>4, <1>5


LEMMA AbsorbedMoves ==
    ASSUME NEW ls \in Seq(Lot), OneSided(ls), NEW t \in Trades
    PROVE  PositionOf(Absorbed(ls, t).lots) = PositionOf(ls) + Sign(t.side) * t.size
<1> DEFINE N == Len(ls) + 1
           g == Sign(t.side)
           Total(s) == PositionOf(s.lots) + g * s.remaining
<1>0. N \in Nat
  OBVIOUS
<1>1. PICK f \in [0 .. N -> LoopState] :
         /\ f[0] = [lots |-> ls, remaining |-> t.size, profit |-> 0]
         /\ \A i \in 1 .. N : f[i] = Turn(f[i - 1], t)
         /\ Absorbed(ls, t) = f[N]
  BY AbsorbedLoop
<1> HIDE DEF N
<1>2. \A i \in 1 .. N : f[i - 1] \in LoopState
  BY <1>0, <1>1
<1>3. \A s \in LoopState : Total(Turn(s, t)) = Total(s)
  BY TurnMoves
<1> HIDE DEF Total
<1> DEFINE S == {i \in 0 .. N : Total(f[i]) = Total(f[0])}
<1>4. 0 \in S
  BY <1>0
<1>5. \A i \in 1 .. N : i - 1 \in S => i \in S
  BY <1>0, <1>1, <1>2, <1>3
<1> HIDE DEF S
<1>6. \A i \in 0 .. N : i \in S
  BY <1>0, <1>4, <1>5, Turns
<1>7. N \in 0 .. N
  BY <1>0
<1>8. Total(f[N]) = Total(f[0])
  BY <1>6, <1>7 DEF S
<1>9. f[N].remaining = 0 /\ f[N].lots \in Seq(Lot)
  BY <1>1, <1>7, AbsorbedEnds DEF LoopState
<1>10. PositionOf(f[N].lots) \in Int /\ g * 0 = 0
  BY <1>9, PositionType DEF Sign
<1>11. Total(f[0]) = PositionOf(ls) + g * t.size
  BY <1>1 DEF Total
<1>12. Total(f[N]) = PositionOf(f[N].lots)
  BY <1>9, <1>10 DEF Total
<1> QED
  BY <1>1, <1>8, <1>11, <1>12

(* A fill that is applied moves the cached position by exactly its signed   *)
(* size, however many lots it closes and whether or not it flips the side   *)
(* (inventory.py: apply_fill).                                              *)
THEOREM FillMovesPosition ==
    Spec => [][\A f \in Fills : ApplyFill(f) /\ IsNew(f) =>
                  position' = position + Sign(made[f].side) * made[f].size]_vars
<1>1. ASSUME Inv, NEW f \in Fills, ApplyFill(f), IsNew(f)
      PROVE  position' = position + Sign(made[f].side) * made[f].size
  <2> DEFINE t == made[f]
             after == Absorbed(lots, t)
  <2>1. t \in Trades
    BY <1>1 DEF Inv, TypeOK, Delivered, ApplyFill
  <2>2. position' = PositionOf(after.lots)
    BY <1>1 DEF ApplyFill
  <2>3. position = PositionOf(lots) /\ lots \in Seq(Lot) /\ OneSided(lots)
    BY <1>1, LotsOneSided DEF Inv, TypeOK, LotsMatchPosition
  <2> HIDE DEF t
  <2>4. PositionOf(after.lots) = PositionOf(lots) + Sign(t.side) * t.size
    BY <2>1, <2>3, AbsorbedMoves
  <2> QED
    BY <2>2, <2>3, <2>4 DEF t
<1>2. Inv => \A f \in Fills : ApplyFill(f) /\ IsNew(f) =>
                 position' = position + Sign(made[f].side) * made[f].size
  BY <1>1
<1> QED
  BY <1>2, InvAlways, PTL
=============================================================================
