---------------------------- MODULE RefundsProofs ----------------------------
(***************************************************************************)
(* Theorems about Refunds, for any orders, items, sellers, prices, returns *)
(* and confirmations.                                                      *)
(*                                                                         *)
(* The properties add up tables, so a step is followed through each sum it *)
(* touches: a confirmed refund enters the columns of merchandise, fees and *)
(* debits under a key that added nothing before, a payout enters the sum   *)
(* of its seller, and a return enters or leaves the units taken back.      *)
(***************************************************************************)
EXTENDS Refunds, SumTheorems

\* A return that was made is of an order that was paid, and its items' shares of what
\* was approved add up; one that is closed as refunded has all of it.
ReturnsAreWhole ==
    \A r \in Returns :
        /\ return[r].status = "none" => return[r] = NoReturn
        /\ return[r].status # "none" =>
              return[r].order \in Orders /\ payment[return[r].order] # "pending"
        /\ Total(return[r].approved) = return[r].total
        /\ return[r].status = "refunded" => GivenBack(RefundsOn(r)) >= return[r].total

\* A confirmed refund belongs to a return that was approved, and to its order.
RefundsAreOfReturns ==
    \A k \in RefundKeys :
        \/ refund[k] = NoRefund
        \/ /\ refund[k].return \in Returns
           /\ refund[k].order = return[refund[k].return].order
           /\ return[refund[k].return].status \in {"approved", "item_received", "refunded"}

\* The refunds on a return give back no more of an item than its share.
SharesHold ==
    \A r \in Returns, i \in Items : Given(RefundsOn(r), i) <= return[r].approved[i]

\* What was captured is credited, and only what was credited is taken back.
CreditsArePosted ==
    \A i \in Items :
        /\ payment[OrderOf[i]] # "pending" => sale[i] = Payable[i]
        /\ Debited(i) <= sale[i]

RefundsInv ==
    /\ TypeOK /\ CreditedOnce /\ NoRoundingDrift
    /\ ReturnsWithinPurchase /\ RefundsWithinCharge /\ PayoutsAreReleased
    /\ ReturnsAreWhole /\ RefundsAreOfReturns /\ SharesHold /\ CreditsArePosted
----------------------------------------------------------------------------
(* The columns of the table of refunds. *)

MerchandiseOf(rows, S, i) == SumFunctionOnSet([k \in RefundKeys |-> rows[k].merchandise[i]], S)
FeesOf(rows, S, i) == SumFunctionOnSet([k \in RefundKeys |-> rows[k].fees[i]], S)
DebitOf(rows, i) == SumFunctionOnSet([k \in RefundKeys |-> rows[k].debit[i]], RefundKeys)
GivenOf(rows, S) ==
    SumFunctionOnSet([i \in Items |-> MerchandiseOf(rows, S, i) + FeesOf(rows, S, i)], Items)
DebitsOf(rows, s, S) ==
    SumFunctionOnSet([k \in RefundKeys |-> SumFunctionOnSet(rows[k].debit, OwnItems(s))], S)

\* A column adds up to a natural number over any keys, and a key that added nothing
\* adds what it is given, wherever it counts.
LEMMA ColumnEnters ==
    ASSUME NEW f \in [RefundKeys -> Nat], NEW k \in RefundKeys, f[k] = 0, NEW n \in Nat,
           NEW g, g[k] = n, \A x \in RefundKeys \ {k} : g[x] = f[x], NEW S \in SUBSET RefundKeys
    PROVE  /\ SumFunctionOnSet(f, S) \in Nat
           /\ SumFunctionOnSet(g, S \cup {k}) = SumFunctionOnSet(f, S) + n
           /\ k \notin S => SumFunctionOnSet(g, S) = SumFunctionOnSet(f, S)
<1> DEFINE R == S \ {k}
<1>1. IsFiniteSet(S) /\ IsFiniteSet(R)
  BY RefundsAssumption, FS_Subset
<1>2. SumFunctionOnSet(f, S) \in Nat /\ SumFunctionOnSet(f, R) \in Nat
  <2>1. \A x \in S : f[x] \in Nat
    OBVIOUS
  <2>2. \A x \in R : f[x] \in Nat
    OBVIOUS
  <2> HIDE DEF R
  <2> QED BY <1>1, <2>1, <2>2, SumNat
<1>3. k \notin R /\ (\A x \in R : f[x] \in Int /\ g[x] = f[x]) /\ g[k] = n /\ g[k] \in Int
  OBVIOUS
<1>4. SumFunctionOnSet(g, R \cup {k}) = SumFunctionOnSet(f, R) + n
  <2> HIDE DEF R
  <2> QED BY <1>1, <1>3, SumEnter
<1>5. SumFunctionOnSet(g, R) = SumFunctionOnSet(f, R)
  <2> HIDE DEF R
  <2> QED BY <1>1, <1>3, SumSame
<1>6. SumFunctionOnSet(f, S) = SumFunctionOnSet(f, R)
  <2>1. CASE k \notin S
    BY <2>1
  <2>2. CASE k \in S
    <3>1. \A x \in S : f[x] \in Int
      OBVIOUS
    <3>2. SumFunctionOnSet(f, S) = f[k] + SumFunctionOnSet(f, S \ {k})
      BY <1>1, <2>2, <3>1, SumTake
    <3> HIDE DEF R
    <3> QED BY <1>2, <3>2 DEF R
  <2> QED BY <2>1, <2>2
<1>7. R \cup {k} = S \cup {k} /\ (k \notin S => R = S)
  OBVIOUS
<1> HIDE DEF R
<1> QED BY <1>2, <1>4, <1>5, <1>6, <1>7

\* The fields of a refund are amounts.
LEMMA RefundFields ==
    ASSUME NEW rows \in [RefundKeys -> RefundRow]
    PROVE  \A k \in RefundKeys, i \in Items :
               /\ rows[k].merchandise[i] \in Nat
               /\ rows[k].fees[i] \in Nat
               /\ rows[k].debit[i] \in Nat
  BY DEF RefundRow, Amounts

\* A confirmed refund adds its amounts to its item's columns, over keys it is among, and
\* nothing over others.
LEMMA RefundEnters ==
    ASSUME NEW rows \in [RefundKeys -> RefundRow], NEW k \in RefundKeys, rows[k] = NoRefund,
           NEW row \in RefundRow,
           NEW after, after[k] = row, \A x \in RefundKeys \ {k} : after[x] = rows[x],
           NEW S \in SUBSET RefundKeys, NEW i \in Items
    PROVE  /\ MerchandiseOf(rows, S, i) \in Nat /\ FeesOf(rows, S, i) \in Nat
           /\ DebitOf(rows, i) \in Nat
           /\ MerchandiseOf(after, S \cup {k}, i) = MerchandiseOf(rows, S, i) + row.merchandise[i]
           /\ FeesOf(after, S \cup {k}, i) = FeesOf(rows, S, i) + row.fees[i]
           /\ DebitOf(after, i) = DebitOf(rows, i) + row.debit[i]
           /\ k \notin S => /\ MerchandiseOf(after, S, i) = MerchandiseOf(rows, S, i)
                            /\ FeesOf(after, S, i) = FeesOf(rows, S, i)
<1> DEFINE M(r) == [kk \in RefundKeys |-> r[kk].merchandise[i]]
           F(r) == [kk \in RefundKeys |-> r[kk].fees[i]]
           D(r) == [kk \in RefundKeys |-> r[kk].debit[i]]
<1>1. rows[k].merchandise[i] = 0 /\ rows[k].fees[i] = 0 /\ rows[k].debit[i] = 0
  BY DEF NoRefund, Zero
<1>2. row.merchandise[i] \in Nat /\ row.fees[i] \in Nat /\ row.debit[i] \in Nat
  BY DEF RefundRow, Amounts
<1>3. M(rows) \in [RefundKeys -> Nat] /\ M(rows)[k] = 0
  BY <1>1, RefundFields
<1>4. F(rows) \in [RefundKeys -> Nat] /\ F(rows)[k] = 0
  BY <1>1, RefundFields
<1>5. D(rows) \in [RefundKeys -> Nat] /\ D(rows)[k] = 0
  BY <1>1, RefundFields
<1>6. M(after)[k] = row.merchandise[i] /\ \A x \in RefundKeys \ {k} : M(after)[x] = M(rows)[x]
  OBVIOUS
<1>7. F(after)[k] = row.fees[i] /\ \A x \in RefundKeys \ {k} : F(after)[x] = F(rows)[x]
  OBVIOUS
<1>8. D(after)[k] = row.debit[i] /\ \A x \in RefundKeys \ {k} : D(after)[x] = D(rows)[x]
  OBVIOUS
<1>9. RefundKeys \cup {k} = RefundKeys
  OBVIOUS
<1>10. /\ MerchandiseOf(rows, S, i) = SumFunctionOnSet(M(rows), S)
       /\ MerchandiseOf(after, S, i) = SumFunctionOnSet(M(after), S)
       /\ MerchandiseOf(after, S \cup {k}, i) = SumFunctionOnSet(M(after), S \cup {k})
  BY DEF MerchandiseOf
<1>11. /\ FeesOf(rows, S, i) = SumFunctionOnSet(F(rows), S)
       /\ FeesOf(after, S, i) = SumFunctionOnSet(F(after), S)
       /\ FeesOf(after, S \cup {k}, i) = SumFunctionOnSet(F(after), S \cup {k})
  BY DEF FeesOf
<1>12. /\ DebitOf(rows, i) = SumFunctionOnSet(D(rows), RefundKeys)
       /\ DebitOf(after, i) = SumFunctionOnSet(D(after), RefundKeys)
  BY DEF DebitOf
<1> HIDE DEF M, F, D
<1>13. /\ SumFunctionOnSet(M(rows), S) \in Nat
       /\ SumFunctionOnSet(M(after), S \cup {k}) = SumFunctionOnSet(M(rows), S) + row.merchandise[i]
       /\ k \notin S => SumFunctionOnSet(M(after), S) = SumFunctionOnSet(M(rows), S)
  BY <1>2, <1>3, <1>6, ColumnEnters
<1>14. /\ SumFunctionOnSet(F(rows), S) \in Nat
       /\ SumFunctionOnSet(F(after), S \cup {k}) = SumFunctionOnSet(F(rows), S) + row.fees[i]
       /\ k \notin S => SumFunctionOnSet(F(after), S) = SumFunctionOnSet(F(rows), S)
  BY <1>2, <1>4, <1>7, ColumnEnters
<1>15. /\ SumFunctionOnSet(D(rows), RefundKeys) \in Nat
       /\ SumFunctionOnSet(D(after), RefundKeys \cup {k})
             = SumFunctionOnSet(D(rows), RefundKeys) + row.debit[i]
  BY <1>2, <1>5, <1>8, ColumnEnters
<1> QED
  BY <1>9, <1>10, <1>11, <1>12, <1>13, <1>14, <1>15

\* The same of what refunds have given back in all.
LEMMA GivenEnters ==
    ASSUME NEW rows \in [RefundKeys -> RefundRow], NEW k \in RefundKeys, rows[k] = NoRefund,
           NEW row \in RefundRow,
           NEW after, after[k] = row, \A x \in RefundKeys \ {k} : after[x] = rows[x],
           NEW S \in SUBSET RefundKeys
    PROVE  /\ GivenOf(rows, S) \in Nat
           /\ GivenOf(after, S \cup {k})
                = GivenOf(rows, S) + Total(row.merchandise) + Total(row.fees)
           /\ k \notin S => GivenOf(after, S) = GivenOf(rows, S)
<1> DEFINE G(r, T) == [i \in Items |-> MerchandiseOf(r, T, i) + FeesOf(r, T, i)]
           both == [i \in Items |-> row.merchandise[i] + row.fees[i]]
<1>1. \A i \in Items :
          /\ MerchandiseOf(rows, S, i) \in Nat /\ FeesOf(rows, S, i) \in Nat
          /\ MerchandiseOf(after, S \cup {k}, i) = MerchandiseOf(rows, S, i) + row.merchandise[i]
          /\ FeesOf(after, S \cup {k}, i) = FeesOf(rows, S, i) + row.fees[i]
          /\ k \notin S => /\ MerchandiseOf(after, S, i) = MerchandiseOf(rows, S, i)
                           /\ FeesOf(after, S, i) = FeesOf(rows, S, i)
  BY RefundEnters
<1>2. \A i \in Items : row.merchandise[i] \in Nat /\ row.fees[i] \in Nat
  BY DEF RefundRow, Amounts
<1>3. /\ GivenOf(rows, S) = SumFunctionOnSet(G(rows, S), Items)
      /\ GivenOf(after, S) = SumFunctionOnSet(G(after, S), Items)
      /\ GivenOf(after, S \cup {k}) = SumFunctionOnSet(G(after, S \cup {k}), Items)
  BY DEF GivenOf
<1>4. \A i \in Items : G(rows, S)[i] \in Nat /\ (k \notin S => G(after, S)[i] = G(rows, S)[i])
  BY <1>1
<1>5. \A i \in Items : /\ both[i] = row.merchandise[i] + row.fees[i]
                       /\ both[i] \in Int
                       /\ G(rows, S)[i] \in Int
                       /\ G(after, S \cup {k})[i] = G(rows, S)[i] + both[i]
  <2> TAKE i \in Items
  <2>1. /\ both[i] = row.merchandise[i] + row.fees[i]
        /\ G(rows, S)[i] = MerchandiseOf(rows, S, i) + FeesOf(rows, S, i)
        /\ G(after, S \cup {k})[i]
             = MerchandiseOf(after, S \cup {k}, i) + FeesOf(after, S \cup {k}, i)
    OBVIOUS
  <2> HIDE DEF G, both
  <2>2. /\ row.merchandise[i] \in Nat /\ row.fees[i] \in Nat
        /\ MerchandiseOf(rows, S, i) \in Nat /\ FeesOf(rows, S, i) \in Nat
        /\ MerchandiseOf(after, S \cup {k}, i) = MerchandiseOf(rows, S, i) + row.merchandise[i]
        /\ FeesOf(after, S \cup {k}, i) = FeesOf(rows, S, i) + row.fees[i]
    BY <1>1, <1>2
  <2> QED BY <2>1, <2>2
<1>6. IsFiniteSet(Items)
  BY RefundsAssumption
<1> HIDE DEF G, both
<1>7. SumFunctionOnSet(G(rows, S), Items) \in Nat
  BY <1>4, <1>6, SumNat
<1>8. SumFunctionOnSet(both, Items)
        = SumFunctionOnSet(row.merchandise, Items) + SumFunctionOnSet(row.fees, Items)
  BY <1>2, <1>5, <1>6, SumPlus
<1>9. SumFunctionOnSet(G(after, S \cup {k}), Items)
        = SumFunctionOnSet(G(rows, S), Items) + SumFunctionOnSet(both, Items)
  <2>1. \A i \in Items : /\ G(rows, S)[i] \in Int /\ both[i] \in Int
                         /\ G(after, S \cup {k})[i] = G(rows, S)[i] + both[i]
    BY <1>5
  <2> DEFINE old == G(rows, S)
             new == G(after, S \cup {k})
  <2>2. \A i \in Items : old[i] \in Int /\ both[i] \in Int /\ new[i] = old[i] + both[i]
    BY <2>1
  <2> HIDE DEF old, new
  <2>3. SumFunctionOnSet(new, Items)
          = SumFunctionOnSet(old, Items) + SumFunctionOnSet(both, Items)
    BY <2>2, <1>6, SumPlus
  <2> QED BY <2>3 DEF old, new
<1>10. k \notin S => SumFunctionOnSet(G(after, S), Items) = SumFunctionOnSet(G(rows, S), Items)
  BY <1>4, <1>6, SumSame
<1>11. Total(row.merchandise) \in Nat /\ Total(row.fees) \in Nat
  BY <1>2, <1>6, SumNat DEF Total
<1> QED
  BY <1>3, <1>7, <1>8, <1>9, <1>10, <1>11 DEF Total

----------------------------------------------------------------------------
(* What the handlers compute. *)

\* Amounts add up to an amount.
LEMMA TotalType ==
    ASSUME NEW f, \A i \in Items : f[i] \in Nat
    PROVE  Total(f) \in Nat
  BY RefundsAssumption, SumNat DEF Total

\* Whole division of natural numbers.
LEMMA Quotient ==
    ASSUME NEW a \in Nat, NEW b \in Nat, b > 0
    PROVE  a \div b \in Nat /\ b * (a \div b) <= a
  OBVIOUS

\* A factor does not turn an order round.
LEMMA Cancel ==
    ASSUME NEW a \in Nat, NEW x \in Nat, NEW y \in Nat, a > 0, a * x <= y * a
    PROVE  x <= y
<1> SUFFICES ASSUME x > y PROVE FALSE
  OBVIOUS
<1>1. PICK d \in Nat : x = y + 1 + d
  <2>1. x - y - 1 \in Nat /\ x = y + 1 + (x - y - 1)
    OBVIOUS
  <2> QED BY <2>1
<1>2. a * x = a * y + a + a * d
  BY <1>1
<1>3. a * d \in Nat /\ a * y = y * a /\ y * a \in Nat /\ a * x \in Nat
  OBVIOUS
<1> QED BY <1>2, <1>3

\* The shares of an approved amount are amounts and add up to it: what is cut off goes
\* to the last item.
LEMMA SplitAddsUp ==
    ASSUME NEW amount \in Nat, NEW requested \in Amounts, NEW last \in Items,
           amount <= Total(requested), requested[last] > 0 \/ Total(requested) = 0
    PROVE  /\ Split(amount, requested, last) \in Amounts
           /\ Total(Split(amount, requested, last)) = amount
<1> DEFINE T == Total(requested)
           share == [i \in Items |-> IF requested[i] = 0 \/ i = last THEN 0
                                     ELSE (amount * requested[i]) \div T]
           scaled == [i \in Items |-> T * share[i]]
           limit == [i \in Items |-> amount * requested[i]]
           split == [share EXCEPT ![last] = amount - Total(share)]
<1>1. IsFiniteSet(Items) /\ \A i \in Items : requested[i] \in Nat
  BY RefundsAssumption DEF Amounts
<1>2. T \in Nat /\ \A i \in Items : requested[i] <= T
  BY <1>1, TotalType, SumOne DEF Total
<1>3. \A i \in Items : share[i] \in Nat /\ T * share[i] <= amount * requested[i]
  <2> TAKE i \in Items
  <2>1. amount * requested[i] \in Nat
    BY <1>1
  <2>2. CASE requested[i] = 0 \/ i = last
    <3>1. share[i] = 0
      BY <2>2
    <3> HIDE DEF share, T
    <3> QED BY <1>2, <2>1, <3>1
  <2>3. CASE ~ (requested[i] = 0 \/ i = last)
    <3>1. share[i] = (amount * requested[i]) \div T
      BY <2>3
    <3> HIDE DEF share, T
    <3>2. T > 0
      BY <1>1, <1>2, <2>3
    <3> QED BY <1>2, <2>1, <3>1, <3>2, Quotient
  <2> QED BY <2>2, <2>3
<1>4. share[last] = 0
  OBVIOUS
<1>5. Total(share) \in Nat
  <2> HIDE DEF share
  <2> QED BY <1>3, TotalType
<1>6. Total(share) <= amount
  <2>1. CASE T = 0
    <3>1. \A i \in Items : share[i] = 0
      <4> TAKE i \in Items
      <4>1. requested[i] = 0
        <5> HIDE DEF T
        <5> QED BY <1>1, <1>2, <2>1
      <4> QED BY <4>1
    <3>2. Total(share) = 0
      <4> HIDE DEF share
      <4> QED BY <1>1, <3>1, SumZero DEF Total
    <3> HIDE DEF share
    <3> QED BY <3>2
  <2>2. CASE T # 0
    <3>1. \A i \in Items : scaled[i] = T * share[i] /\ limit[i] = amount * requested[i]
      OBVIOUS
    <3> HIDE DEF scaled, limit, share, T
    <3>2. \A i \in Items : share[i] \in Int /\ scaled[i] = T * share[i]
      BY <1>3, <3>1
    <3>3. \A i \in Items : requested[i] \in Int /\ limit[i] = amount * requested[i]
      BY <1>1, <3>1
    <3>4. SumFunctionOnSet(scaled, Items) = T * SumFunctionOnSet(share, Items)
      BY <1>1, <1>2, <3>2, SumScale
    <3>5. SumFunctionOnSet(limit, Items) = amount * SumFunctionOnSet(requested, Items)
      BY <1>1, <3>3, SumScale
    <3>6. \A i \in Items : scaled[i] \in Int /\ limit[i] \in Int /\ scaled[i] <= limit[i]
      <4> TAKE i \in Items
      <4>1. T * share[i] \in Int /\ amount * requested[i] \in Int
        BY <1>1, <1>2, <1>3
      <4> QED BY <1>3, <3>1, <4>1
    <3>7. SumFunctionOnSet(scaled, Items) <= SumFunctionOnSet(limit, Items)
      BY <1>1, <3>6, SumLeq
    <3>8. T * Total(share) <= amount * T
      BY <3>4, <3>5, <3>7 DEF Total, T
    <3> QED BY <1>2, <1>5, <2>2, <3>8, Cancel
  <2> QED BY <2>1, <2>2
<1>7. Split(amount, requested, last) = split
  BY DEF Split
<1>8. split \in Amounts
  <2>1. share \in [Items -> Nat]
    BY <1>3
  <2>2. amount - Total(share) \in Nat
    <3> HIDE DEF share
    <3> QED BY <1>5, <1>6
  <2> HIDE DEF share
  <2> QED BY <2>1, <2>2 DEF Amounts
<1>9. Total(split) = amount
  <2>1. split[last] = amount - Total(share)
    OBVIOUS
  <2>2. \A i \in Items \ {last} : split[i] = share[i]
    OBVIOUS
  <2> HIDE DEF share, split
  <2>3. (\A i \in Items : share[i] \in Int) /\ split[last] \in Int
    BY <1>3, <1>5, <2>1
  <2>4. SumFunctionOnSet(split, Items) = SumFunctionOnSet(share, Items) - share[last] + split[last]
    BY <1>1, <2>2, <2>3, SumChange
  <2> QED BY <1>4, <1>5, <2>1, <2>4 DEF Total
<1> HIDE DEF split
<1> QED BY <1>7, <1>8, <1>9

\* What is rounded to the nearest cent is an amount.
LEMMA RoundedType ==
    ASSUME NEW a \in Nat, NEW b \in Nat, NEW c \in Nat, c > 0
    PROVE  Rounded(a, b, c) \in Nat
<1>1. 2 * a * b + c \in Nat /\ 2 * c \in Nat /\ 2 * c > 0
  OBVIOUS
<1> QED BY <1>1, Quotient DEF Rounded

\* A debit takes no more than what is left of the credit, and all of it with the last of
\* the merchandise.
LEMMA DebitBounds ==
    ASSUME NEW i \in Items, NEW m \in Nat, Debited(i) \in Nat,
           Debited(i) <= Payable[i]
    PROVE  /\ Debit(i, m) \in Nat
           /\ Debited(i) + Debit(i, m) <= Payable[i]
           /\ Net[i] > 0 /\ Merchandise(RefundKeys, i) + m = Net[i]
                 => Debited(i) + Debit(i, m) = Payable[i]
<1>1. Payable[i] \in Nat /\ Net[i] \in Nat /\ Payable[i] <= Net[i]
  BY RefundsAssumption
<1>2. PICK left \in Nat : left = Payable[i] - Debited(i)
  BY <1>1
<1>3. CASE Net[i] = 0
  BY <1>1, <1>2, <1>3 DEF Debit
<1>4. CASE Net[i] # 0 /\ Merchandise(RefundKeys, i) + m = Net[i]
  BY <1>1, <1>2, <1>4 DEF Debit
<1>5. CASE Net[i] # 0 /\ Merchandise(RefundKeys, i) + m # Net[i]
  <2>0. Net[i] > 0
    BY <1>1, <1>5
  <2>1. PICK n \in Nat : n = Rounded(Payable[i], m, Net[i])
    <3>1. Rounded(Payable[i], m, Net[i]) \in Nat
      BY <1>1, <2>0, RoundedType
    <3> QED BY <3>1
  <2>2. Debit(i, m) = Least(n, left)
    BY <1>2, <1>5, <2>1 DEF Debit
  <2> QED BY <1>1, <1>2, <1>5, <2>1, <2>2 DEF Least
<1> QED BY <1>3, <1>4, <1>5

----------------------------------------------------------------------------
(* The sums before and after a step. *)

\* A step that leaves the refunds alone leaves what they add up to.
LEMMA RefundFrame ==
    ASSUME refund' = refund
    PROVE  /\ \A i \in Items : /\ Debited(i)' = Debited(i)
                               /\ Merchandise(RefundKeys, i)' = Merchandise(RefundKeys, i)
                               /\ FeesBack(RefundKeys, i)' = FeesBack(RefundKeys, i)
           /\ \A o \in Orders : GivenBack(RefundsOf(o))' = GivenBack(RefundsOf(o))
           /\ \A r \in Returns : /\ GivenBack(RefundsOn(r))' = GivenBack(RefundsOn(r))
                                 /\ \A i \in Items :
                                      Given(RefundsOn(r), i)' = Given(RefundsOn(r), i)
  BY DEF Debited, Merchandise, FeesBack, GivenBack, Given, RefundsOf, RefundsOn, Total

\* The sums, in terms of the table.
LEMMA Views ==
    /\ \A i \in Items : /\ Debited(i) = DebitOf(refund, i)
                        /\ Debited(i)' = DebitOf(refund', i)
                        /\ Merchandise(RefundKeys, i) = MerchandiseOf(refund, RefundKeys, i)
                        /\ Merchandise(RefundKeys, i)' = MerchandiseOf(refund', RefundKeys, i)
                        /\ FeesBack(RefundKeys, i) = FeesOf(refund, RefundKeys, i)
                        /\ FeesBack(RefundKeys, i)' = FeesOf(refund', RefundKeys, i)
    /\ \A o \in Orders : /\ GivenBack(RefundsOf(o)) = GivenOf(refund, RefundsOf(o))
                         /\ GivenBack(RefundsOf(o))' = GivenOf(refund', RefundsOf(o)')
    /\ \A r \in Returns :
          /\ GivenBack(RefundsOn(r)) = GivenOf(refund, RefundsOn(r))
          /\ GivenBack(RefundsOn(r))' = GivenOf(refund', RefundsOn(r)')
          /\ \A i \in Items :
                /\ Given(RefundsOn(r), i)
                     = MerchandiseOf(refund, RefundsOn(r), i) + FeesOf(refund, RefundsOn(r), i)
                /\ Given(RefundsOn(r), i)'
                     = MerchandiseOf(refund', RefundsOn(r)', i) + FeesOf(refund', RefundsOn(r)', i)
<1>1. \A i \in Items : /\ Debited(i) = DebitOf(refund, i)
                       /\ Debited(i)' = DebitOf(refund', i)
  BY DEF Debited, DebitOf
<1>2. \A i \in Items :
          /\ Merchandise(RefundKeys, i) = MerchandiseOf(refund, RefundKeys, i)
          /\ Merchandise(RefundKeys, i)' = MerchandiseOf(refund', RefundKeys, i)
          /\ FeesBack(RefundKeys, i) = FeesOf(refund, RefundKeys, i)
          /\ FeesBack(RefundKeys, i)' = FeesOf(refund', RefundKeys, i)
  BY DEF Merchandise, MerchandiseOf, FeesBack, FeesOf
<1>3. \A o \in Orders : /\ GivenBack(RefundsOf(o)) = GivenOf(refund, RefundsOf(o))
                        /\ GivenBack(RefundsOf(o))' = GivenOf(refund', RefundsOf(o)')
  BY DEF GivenBack, GivenOf, Given, Total, Merchandise, MerchandiseOf, FeesBack, FeesOf
<1>4. \A r \in Returns : /\ GivenBack(RefundsOn(r)) = GivenOf(refund, RefundsOn(r))
                         /\ GivenBack(RefundsOn(r))' = GivenOf(refund', RefundsOn(r)')
  BY DEF GivenBack, GivenOf, Given, Total, Merchandise, MerchandiseOf, FeesBack, FeesOf
<1>5. \A r \in Returns, i \in Items :
          /\ Given(RefundsOn(r), i)
               = MerchandiseOf(refund, RefundsOn(r), i) + FeesOf(refund, RefundsOn(r), i)
          /\ Given(RefundsOn(r), i)'
               = MerchandiseOf(refund', RefundsOn(r)', i) + FeesOf(refund', RefundsOn(r)', i)
  BY DEF Given, Merchandise, MerchandiseOf, FeesBack, FeesOf
<1> QED
  BY <1>1, <1>2, <1>3, <1>4, <1>5

\* What refunds add up to is a natural number.
LEMMA RefundSumTypes ==
    ASSUME NEW rows \in [RefundKeys -> RefundRow], NEW S \in SUBSET RefundKeys
    PROVE  /\ GivenOf(rows, S) \in Nat
           /\ \A i \in Items : /\ MerchandiseOf(rows, S, i) \in Nat
                               /\ FeesOf(rows, S, i) \in Nat
                               /\ DebitOf(rows, i) \in Nat
<1>1. IsFiniteSet(S) /\ IsFiniteSet(RefundKeys) /\ IsFiniteSet(Items)
  BY RefundsAssumption, FS_Subset
<1>2. \A i \in Items : /\ MerchandiseOf(rows, S, i) \in Nat
                       /\ FeesOf(rows, S, i) \in Nat
                       /\ DebitOf(rows, i) \in Nat
  <2> TAKE i \in Items
  <2> DEFINE M == [kk \in RefundKeys |-> rows[kk].merchandise[i]]
             F == [kk \in RefundKeys |-> rows[kk].fees[i]]
             D == [kk \in RefundKeys |-> rows[kk].debit[i]]
  <2>1. \A kk \in RefundKeys : M[kk] \in Nat /\ F[kk] \in Nat /\ D[kk] \in Nat
    BY RefundFields
  <2>2. /\ MerchandiseOf(rows, S, i) = SumFunctionOnSet(M, S)
        /\ FeesOf(rows, S, i) = SumFunctionOnSet(F, S)
        /\ DebitOf(rows, i) = SumFunctionOnSet(D, RefundKeys)
    BY DEF MerchandiseOf, FeesOf, DebitOf
  <2> HIDE DEF M, F, D
  <2>3. \A kk \in S : M[kk] \in Nat /\ F[kk] \in Nat
    BY <2>1
  <2> QED BY <1>1, <2>1, <2>2, <2>3, SumNat
<1>3. GivenOf(rows, S) \in Nat
  <2> DEFINE G == [i \in Items |-> MerchandiseOf(rows, S, i) + FeesOf(rows, S, i)]
  <2>1. \A i \in Items : G[i] \in Nat
    BY <1>2
  <2>2. GivenOf(rows, S) = SumFunctionOnSet(G, Items)
    BY DEF GivenOf
  <2> HIDE DEF G
  <2> QED BY <1>1, <2>1, <2>2, SumNat
<1> QED BY <1>2, <1>3

\* The inputs that are enumerated are amounts.
LEMMA UpToType ==
    ASSUME NEW limits, \A i \in Items : limits[i] \in Nat, NEW f \in UpTo(limits)
    PROVE  f \in Amounts
<1>1. Total(limits) \in Nat
  BY TotalType
<1> QED BY <1>1 DEF UpTo, Amounts

\* What a confirmation records.
RowOf(g, r, merchandise, fees) ==
    [order |-> return[r].order, return |-> r, reference |-> g,
     merchandise |-> merchandise, fees |-> fees,
     debit |-> [i \in Items |-> IF merchandise[i] + fees[i] > 0
                                THEN Debit(i, merchandise[i]) ELSE 0]]

\* A confirmation adds its row to the sums of its order and of its return, and to none of
\* the others.
LEMMA PostRefundSums ==
    ASSUME RefundsInv, NEW k \in RefundKeys, NEW g \in References, NEW r \in Returns,
           NEW merchandise \in Amounts, NEW fees \in Amounts,
           PostRefund(k, g, r, merchandise, fees)
    PROVE  /\ RowOf(g, r, merchandise, fees) \in RefundRow
           /\ refund[k] = NoRefund
           /\ refund' = [refund EXCEPT ![k] = RowOf(g, r, merchandise, fees)]
           /\ return[r].order \in Orders /\ payment[return[r].order] # "pending"
           /\ \A i \in Items :
                 /\ Debited(i) \in Nat
                 /\ Debited(i)' = Debited(i) + RowOf(g, r, merchandise, fees).debit[i]
                 /\ Merchandise(RefundKeys, i) \in Nat
                 /\ Merchandise(RefundKeys, i)' = Merchandise(RefundKeys, i) + merchandise[i]
                 /\ FeesBack(RefundKeys, i) \in Nat
                 /\ FeesBack(RefundKeys, i)' = FeesBack(RefundKeys, i) + fees[i]
           /\ \A o \in Orders :
                 /\ GivenBack(RefundsOf(o)) \in Nat
                 /\ GivenBack(RefundsOf(o))' =
                       IF o = return[r].order
                       THEN GivenBack(RefundsOf(o)) + Total(merchandise) + Total(fees)
                       ELSE GivenBack(RefundsOf(o))
           /\ \A s \in Returns :
                 /\ s # r => GivenBack(RefundsOn(s))' = GivenBack(RefundsOn(s))
                 /\ \A i \in Items :
                      /\ Given(RefundsOn(s), i) \in Nat
                      /\ Given(RefundsOn(s), i)' =
                            IF s = r THEN Given(RefundsOn(s), i) + merchandise[i] + fees[i]
                            ELSE Given(RefundsOn(s), i)
<1> DEFINE row == RowOf(g, r, merchandise, fees)
           o1 == return[r].order
<1>1. return[r].status \in {"approved", "item_received"}
  BY DEF PostRefund
<1>2. o1 \in Orders /\ payment[o1] # "pending"
  BY <1>1 DEF RefundsInv, ReturnsAreWhole
<1>3. refund \in [RefundKeys -> RefundRow] /\ refund[k] = NoRefund
  BY DEF RefundsInv, TypeOK, PostRefund
<1>4. refund' = [refund EXCEPT ![k] = row]
  BY DEF PostRefund, RowOf
<1>5. \A S \in SUBSET RefundKeys :
          /\ GivenOf(refund, S) \in Nat
          /\ \A i \in Items : /\ MerchandiseOf(refund, S, i) \in Nat
                              /\ FeesOf(refund, S, i) \in Nat
                              /\ DebitOf(refund, i) \in Nat
  BY <1>3, RefundSumTypes
<1>6. row \in RefundRow
  <2>1. \A i \in Items : Debit(i, merchandise[i]) \in Nat
    <3> TAKE i \in Items
    <3>1. merchandise[i] \in Nat
      BY DEF Amounts
    <3>2. Debited(i) \in Nat
      BY <1>5, Views
    <3>3. Debited(i) <= Payable[i]
      BY DEF RefundsInv, NoRoundingDrift
    <3> QED BY <3>1, <3>2, <3>3, DebitBounds
  <2>2. row.debit \in Amounts
    BY <2>1 DEF RowOf, Amounts
  <2> QED BY <1>2, <2>2 DEF RowOf, RefundRow
<1>7. /\ refund'[k] = row /\ \A kk \in RefundKeys \ {k} : refund'[kk] = refund[kk]
      /\ row.merchandise = merchandise /\ row.fees = fees
      /\ row.order = o1 /\ row.return = r
  BY <1>3, <1>4 DEF RowOf
<1> HIDE DEF row
<1>8. \A S \in SUBSET RefundKeys :
          /\ GivenOf(refund', S \cup {k}) = GivenOf(refund, S) + Total(merchandise) + Total(fees)
          /\ k \notin S => GivenOf(refund', S) = GivenOf(refund, S)
  <2> TAKE S \in SUBSET RefundKeys
  <2>1. \A x \in RefundKeys \ {k} : refund'[x] = refund[x]
    BY <1>7
  <2>2. /\ GivenOf(refund', S \cup {k})
             = GivenOf(refund, S) + Total(row.merchandise) + Total(row.fees)
        /\ k \notin S => GivenOf(refund', S) = GivenOf(refund, S)
    <3>1. refund'[k] = row
      BY <1>7
    <3> QED BY <1>3, <1>6, <2>1, <3>1, GivenEnters
  <2> QED BY <1>7, <2>2
<1>9. \A S \in SUBSET RefundKeys, i \in Items :
          /\ MerchandiseOf(refund', S \cup {k}, i) = MerchandiseOf(refund, S, i) + merchandise[i]
          /\ FeesOf(refund', S \cup {k}, i) = FeesOf(refund, S, i) + fees[i]
          /\ DebitOf(refund', i) = DebitOf(refund, i) + row.debit[i]
          /\ k \notin S => /\ MerchandiseOf(refund', S, i) = MerchandiseOf(refund, S, i)
                           /\ FeesOf(refund', S, i) = FeesOf(refund, S, i)
  <2> TAKE S \in SUBSET RefundKeys, i \in Items
  <2> DEFINE after == refund'
             rows == refund
  <2>1. \A x \in RefundKeys \ {k} : after[x] = rows[x]
    BY <1>7
  <2>2. /\ MerchandiseOf(after, S \cup {k}, i)
             = MerchandiseOf(rows, S, i) + row.merchandise[i]
        /\ FeesOf(after, S \cup {k}, i) = FeesOf(rows, S, i) + row.fees[i]
        /\ DebitOf(after, i) = DebitOf(rows, i) + row.debit[i]
        /\ k \notin S => /\ MerchandiseOf(after, S, i) = MerchandiseOf(rows, S, i)
                         /\ FeesOf(after, S, i) = FeesOf(rows, S, i)
    <3>1. after[k] = row
      BY <1>7
    <3>2. rows \in [RefundKeys -> RefundRow] /\ rows[k] = NoRefund
      BY <1>3
    <3> HIDE DEF rows, after
    <3>3. /\ MerchandiseOf(after, S \cup {k}, i)
               = MerchandiseOf(rows, S, i) + row.merchandise[i]
          /\ FeesOf(after, S \cup {k}, i) = FeesOf(rows, S, i) + row.fees[i]
      BY <1>6, <2>1, <3>1, <3>2, RefundEnters
    <3>4. DebitOf(after, i) = DebitOf(rows, i) + row.debit[i]
      BY <1>6, <2>1, <3>1, <3>2, <3>3, RefundEnters
    <3>5. k \notin S => /\ MerchandiseOf(after, S, i) = MerchandiseOf(rows, S, i)
                       /\ FeesOf(after, S, i) = FeesOf(rows, S, i)
      BY <1>6, <2>1, <3>1, <3>2, <3>3, RefundEnters
    <3> QED BY <3>3, <3>4, <3>5
  <2> QED BY <1>7, <2>2
<1>10. RefundKeys \cup {k} = RefundKeys /\ RefundKeys \in SUBSET RefundKeys
  OBVIOUS
<1>11. \A o \in Orders : /\ RefundsOf(o) \in SUBSET RefundKeys /\ k \notin RefundsOf(o)
                         /\ RefundsOf(o)' = IF o = o1 THEN RefundsOf(o) \cup {k} ELSE RefundsOf(o)
  BY <1>3, <1>7, RefundsAssumption DEF RefundsOf, NoRefund
<1>12. \A s \in Returns : /\ RefundsOn(s) \in SUBSET RefundKeys /\ k \notin RefundsOn(s)
                          /\ RefundsOn(s)' = IF s = r THEN RefundsOn(s) \cup {k} ELSE RefundsOn(s)
  BY <1>3, <1>7, RefundsAssumption DEF RefundsOn, NoRefund
<1>13. \A i \in Items :
          /\ Debited(i) \in Nat
          /\ Debited(i)' = Debited(i) + row.debit[i]
          /\ Merchandise(RefundKeys, i) \in Nat
          /\ Merchandise(RefundKeys, i)' = Merchandise(RefundKeys, i) + merchandise[i]
          /\ FeesBack(RefundKeys, i) \in Nat
          /\ FeesBack(RefundKeys, i)' = FeesBack(RefundKeys, i) + fees[i]
  BY <1>5, <1>9, <1>10, Views
<1>14. \A o \in Orders :
          /\ GivenBack(RefundsOf(o)) \in Nat
          /\ GivenBack(RefundsOf(o))' =
                IF o = o1
                THEN GivenBack(RefundsOf(o)) + Total(merchandise) + Total(fees)
                ELSE GivenBack(RefundsOf(o))
  <2> TAKE o \in Orders
  <2>1. /\ RefundsOf(o) \in SUBSET RefundKeys /\ k \notin RefundsOf(o)
        /\ GivenBack(RefundsOf(o)) = GivenOf(refund, RefundsOf(o))
        /\ GivenBack(RefundsOf(o))' = GivenOf(refund', RefundsOf(o)')
    BY <1>11, Views
  <2>2. CASE o = o1
    BY <1>5, <1>8, <1>11, <2>1, <2>2
  <2>3. CASE o # o1
    BY <1>5, <1>8, <1>11, <2>1, <2>3
  <2> QED BY <2>2, <2>3
<1>15. \A s \in Returns : s # r => GivenBack(RefundsOn(s))' = GivenBack(RefundsOn(s))
  BY <1>8, <1>12, Views
<1>16. \A s \in Returns, i \in Items :
          /\ Given(RefundsOn(s), i) \in Nat
          /\ Given(RefundsOn(s), i)' =
                IF s = r THEN Given(RefundsOn(s), i) + merchandise[i] + fees[i]
                ELSE Given(RefundsOn(s), i)
  <2> TAKE s \in Returns, i \in Items
  <2> DEFINE S == RefundsOn(s)
             a == MerchandiseOf(refund, S, i)
             b == FeesOf(refund, S, i)
  <2>1. Given(S, i) = a + b /\ a \in Nat /\ b \in Nat
    BY <1>5, <1>12, Views
  <2>2. merchandise[i] \in Nat /\ fees[i] \in Nat
    BY DEF Amounts
  <2>3. CASE s = r
    <3>1. /\ Given(S, i)' = MerchandiseOf(refund', S \cup {k}, i) + FeesOf(refund', S \cup {k}, i)
          /\ MerchandiseOf(refund', S \cup {k}, i) = a + merchandise[i]
          /\ FeesOf(refund', S \cup {k}, i) = b + fees[i]
      BY <1>9, <1>12, <2>3, Views
    <3> HIDE DEF a, b
    <3> QED BY <2>1, <2>2, <2>3, <3>1
  <2>4. CASE s # r
    <3>1. /\ Given(S, i)' = MerchandiseOf(refund', S, i) + FeesOf(refund', S, i)
          /\ MerchandiseOf(refund', S, i) = a
          /\ FeesOf(refund', S, i) = b
      BY <1>9, <1>12, <2>4, Views
    <3> QED BY <2>1, <2>4, <3>1
  <2> QED BY <2>3, <2>4
<1> QED
  BY <1>2, <1>3, <1>4, <1>6, <1>13, <1>14, <1>15, <1>16 DEF row

\* What a seller was paid, and the debits of a seller in terms of the tables.
PaidOut(rows, s, keys) ==
    SumFunctionOnSet([k \in PayoutKeys |-> rows[k].amount],
                     {k \in PayoutKeys \cap keys : rows[k].seller = s})

\* Under the keys of payouts there are no debits of refunds, and the other way round.
LEMMA DebitViews ==
    ASSUME NEW s \in Sellers
    PROVE  /\ Debits(s, AllKeys) = DebitsOf(refund, s, RefundKeys) + PaidOut(payout, s, PayoutKeys)
           /\ Debits(s, AllKeys)' = DebitsOf(refund', s, RefundKeys) + PaidOut(payout', s, PayoutKeys)
           /\ Debits(s, AllKeys \ Ahead)
                = DebitsOf(refund, s, RefundKeys \ Ahead) + PaidOut(payout, s, PayoutKeys \ Ahead)
           /\ \A keys \in SUBSET PayoutKeys :
                /\ Debits(s, keys) = 0 + PaidOut(payout, s, keys)
                /\ Debits(s, keys)' = 0 + PaidOut(payout', s, keys)
           /\ Debits(s, RefundKeys) = DebitsOf(refund, s, RefundKeys) + 0
<1>1. /\ RefundKeys \cap AllKeys = RefundKeys
      /\ PayoutKeys \cap AllKeys = PayoutKeys \cap PayoutKeys
  BY DEF AllKeys
<1>2. /\ RefundKeys \cap (AllKeys \ Ahead) = RefundKeys \ Ahead
      /\ PayoutKeys \cap (AllKeys \ Ahead) = PayoutKeys \cap (PayoutKeys \ Ahead)
  BY DEF AllKeys
<1>3. \A keys \in SUBSET PayoutKeys : RefundKeys \cap keys = {}
  BY RefundsAssumption
<1>4. PayoutKeys \cap RefundKeys = {} /\ RefundKeys \cap RefundKeys = RefundKeys
  BY RefundsAssumption
<1>5. \A f : SumFunctionOnSet(f, {}) = 0
  BY SumEmpty
<1>6. {k \in {} : payout[k].seller = s} = {}
  OBVIOUS
<1>7. \A keys : /\ Debits(s, keys) = DebitsOf(refund, s, RefundKeys \cap keys)
                                      + PaidOut(payout, s, keys)
                /\ Debits(s, keys)' = DebitsOf(refund', s, RefundKeys \cap keys)
                                      + PaidOut(payout', s, keys)
  BY DEF Debits, DebitsOf, PaidOut
<1>8. /\ PaidOut(payout, s, AllKeys) = PaidOut(payout, s, PayoutKeys)
      /\ PaidOut(payout', s, AllKeys) = PaidOut(payout', s, PayoutKeys)
      /\ PaidOut(payout, s, AllKeys \ Ahead) = PaidOut(payout, s, PayoutKeys \ Ahead)
  BY <1>1, <1>2 DEF PaidOut
<1>9. DebitsOf(refund, s, {}) = 0 /\ DebitsOf(refund', s, {}) = 0
  BY <1>5 DEF DebitsOf
<1>10. PaidOut(payout, s, RefundKeys) = 0
  BY <1>4, <1>5, <1>6 DEF PaidOut
<1>11. /\ Debits(s, AllKeys) = DebitsOf(refund, s, RefundKeys) + PaidOut(payout, s, PayoutKeys)
       /\ Debits(s, AllKeys)' = DebitsOf(refund', s, RefundKeys) + PaidOut(payout', s, PayoutKeys)
       /\ Debits(s, AllKeys \ Ahead)
            = DebitsOf(refund, s, RefundKeys \ Ahead) + PaidOut(payout, s, PayoutKeys \ Ahead)
  BY <1>1, <1>2, <1>7, <1>8
<1>12. \A keys \in SUBSET PayoutKeys :
         /\ Debits(s, keys) = 0 + PaidOut(payout, s, keys)
         /\ Debits(s, keys)' = 0 + PaidOut(payout', s, keys)
  BY <1>3, <1>7, <1>9
<1>13. Debits(s, RefundKeys) = DebitsOf(refund, s, RefundKeys) + 0
  BY <1>4, <1>7, <1>10
<1> QED BY <1>11, <1>12, <1>13

\* Debits are natural numbers, and a seller's refund debits are those of the seller's items.
LEMMA DebitTypes ==
    ASSUME TypeOK, NEW s \in Sellers
    PROVE  /\ \A S \in SUBSET RefundKeys : DebitsOf(refund, s, S) \in Nat
           /\ \A keys \in SUBSET PayoutKeys : PaidOut(payout, s, keys) \in Nat
           /\ DebitsOf(refund, s, RefundKeys)
                = SumFunctionOnSet([i \in OwnItems(s) |-> Debited(i)], OwnItems(s))
<1> DEFINE F == [k \in RefundKeys |-> refund[k].debit]
           R == [k \in RefundKeys |-> SumFunctionOnSet(refund[k].debit, OwnItems(s))]
           P == [k \in PayoutKeys |-> payout[k].amount]
<1>1. /\ refund \in [RefundKeys -> RefundRow]
      /\ \A k \in RefundKeys, i \in Items : refund[k].debit[i] \in Nat
  BY RefundFields DEF TypeOK
<1>2. OwnItems(s) \subseteq Items /\ IsFiniteSet(OwnItems(s)) /\ IsFiniteSet(RefundKeys)
  BY RefundsAssumption, FS_Subset DEF OwnItems
<1>3. \A k \in RefundKeys : R[k] \in Nat
  <2> TAKE k \in RefundKeys
  <2>1. \A i \in OwnItems(s) : refund[k].debit[i] \in Nat
    BY <1>1, <1>2
  <2>2. SumFunctionOnSet(refund[k].debit, OwnItems(s)) \in Nat
    BY <1>2, <2>1, SumNat
  <2> QED BY <2>2
<1>4. \A S \in SUBSET RefundKeys : DebitsOf(refund, s, S) \in Nat
  <2> TAKE S \in SUBSET RefundKeys
  <2>1. IsFiniteSet(S) /\ \A k \in S : R[k] \in Nat
    BY <1>2, <1>3, FS_Subset
  <2>2. DebitsOf(refund, s, S) = SumFunctionOnSet(R, S)
    BY DEF DebitsOf
  <2> HIDE DEF R
  <2> QED BY <2>1, <2>2, SumNat
<1>5. \A keys \in SUBSET PayoutKeys : PaidOut(payout, s, keys) \in Nat
  <2> TAKE keys \in SUBSET PayoutKeys
  <2> DEFINE K == {k \in PayoutKeys \cap keys : payout[k].seller = s}
  <2>1. \A k \in K : P[k] \in Nat
    BY DEF TypeOK, PayoutRow
  <2>2. IsFiniteSet(K)
    BY RefundsAssumption, FS_Subset
  <2>3. PaidOut(payout, s, keys) = SumFunctionOnSet(P, K)
    BY DEF PaidOut
  <2> HIDE DEF P, K
  <2> QED BY <2>1, <2>2, <2>3, SumNat
<1>6. DebitsOf(refund, s, RefundKeys)
        = SumFunctionOnSet([i \in OwnItems(s) |-> Debited(i)], OwnItems(s))
  <2>1. \A k \in RefundKeys : F[k] = refund[k].debit /\ R[k] = SumFunctionOnSet(F[k], OwnItems(s))
    OBVIOUS
  <2>2. \A k \in RefundKeys : \A i \in OwnItems(s) : F[k][i] \in Int
    BY <1>1, <1>2
  <2>3. DebitsOf(refund, s, RefundKeys) = SumFunctionOnSet(R, RefundKeys)
    BY DEF DebitsOf
  <2>4. [k \in RefundKeys |-> F[k]] = F
    OBVIOUS
  <2>5. \A i \in OwnItems(s) :
            SumFunctionOnSet([k \in RefundKeys |-> F[k][i]], RefundKeys) = Debited(i)
    <3> TAKE i \in OwnItems(s)
    <3>1. [k \in RefundKeys |-> F[k][i]] = [k \in RefundKeys |-> refund[k].debit[i]]
      OBVIOUS
    <3> QED BY <3>1 DEF Debited
  <2> HIDE DEF F, R
  <2>6. SumFunctionOnSet(R, RefundKeys)
          = SumFunctionOnSet([i \in OwnItems(s) |->
                SumFunctionOnSet([k \in RefundKeys |-> F[k][i]], RefundKeys)], OwnItems(s))
    BY <1>2, <2>1, <2>2, SumSwap
  <2>7. [i \in OwnItems(s) |-> SumFunctionOnSet([k \in RefundKeys |-> F[k][i]], RefundKeys)]
          = [i \in OwnItems(s) |-> Debited(i)]
    BY <2>5
  <2> QED BY <2>3, <2>6, <2>7
<1> QED BY <1>4, <1>5, <1>6

\* Credits are natural numbers, those of fewer items are no more, and none shrink.
LEMMA CreditTypes ==
    ASSUME TypeOK, NEW J \in SUBSET Items
    PROVE  /\ Credits(J) \in Nat
           /\ \A I \in SUBSET J : Credits(I) \in Nat /\ Credits(I) <= Credits(J)
<1>1. IsFiniteSet(J) /\ \A i \in J : sale[i] \in Nat
  BY RefundsAssumption, FS_Subset DEF TypeOK, Amounts
<1> QED BY <1>1, SumNat, SumPart DEF Credits

\* Credits that grow add up to more.
LEMMA CreditGrows ==
    ASSUME TypeOK, TypeOK', NEW J \in SUBSET Items, \A i \in J : sale[i] <= sale'[i]
    PROVE  SumFunctionOnSet(sale, J) <= SumFunctionOnSet(sale', J)
<1>1. IsFiniteSet(J) /\ \A i \in J : sale[i] \in Int /\ sale'[i] \in Int /\ sale[i] <= sale'[i]
  BY RefundsAssumption, FS_Subset DEF TypeOK, Amounts
<1> QED BY <1>1, SumLeq

\* Steps that leave payouts alone, take no credit back and no item's release.
LEMMA PayoutFrame ==
    ASSUME TypeOK, TypeOK', PayoutsAreReleased, payout' = payout,
           \A i \in Items : sale[i] <= sale'[i],
           \A o \in Orders, s \in Sellers :
               delivery[o][s] = "released" => delivery'[o][s] = "released"
    PROVE  PayoutsAreReleased'
<1> SUFFICES ASSUME NEW s \in Sellers
             PROVE  /\ Debits(s, PayoutKeys \ Ahead)'
                         <= Credits({i \in OwnItems(s) : delivery[OrderOf[i]][s] = "released"})'
                    /\ Debits(s, PayoutKeys)' <= Credits(OwnItems(s))'
  BY DEF PayoutsAreReleased
<1> DEFINE I == {i \in OwnItems(s) : delivery[OrderOf[i]][s] = "released"}
           J == {i \in OwnItems(s) : delivery'[OrderOf[i]][s] = "released"}
<1>1. /\ Debits(s, PayoutKeys \ Ahead)' = Debits(s, PayoutKeys \ Ahead)
      /\ Debits(s, PayoutKeys)' = Debits(s, PayoutKeys)
      /\ Debits(s, PayoutKeys \ Ahead) \in Nat /\ Debits(s, PayoutKeys) \in Nat
  <2>1. \A keys \in SUBSET PayoutKeys :
            /\ PaidOut(payout, s, keys) \in Nat
            /\ Debits(s, keys) = 0 + PaidOut(payout, s, keys)
            /\ Debits(s, keys)' = 0 + PaidOut(payout, s, keys)
    BY DebitViews, DebitTypes
  <2>2. PayoutKeys \ Ahead \in SUBSET PayoutKeys /\ PayoutKeys \in SUBSET PayoutKeys
    OBVIOUS
  <2> QED BY <2>1, <2>2
<1>2. /\ Debits(s, PayoutKeys \ Ahead) <= Credits(I)
      /\ Debits(s, PayoutKeys) <= Credits(OwnItems(s))
  BY DEF PayoutsAreReleased
<1>3. I \subseteq J /\ J \subseteq OwnItems(s) /\ OwnItems(s) \subseteq Items
  BY RefundsAssumption DEF OwnItems
<1>4. Credits(I) \in Nat /\ Credits(J) \in Nat /\ Credits(I) <= Credits(J)
      /\ Credits(OwnItems(s)) \in Nat
  <2> HIDE DEF I, J
  <2> QED BY <1>3, CreditTypes
<1>5. /\ SumFunctionOnSet(sale, J) <= SumFunctionOnSet(sale', J)
      /\ SumFunctionOnSet(sale, OwnItems(s)) <= SumFunctionOnSet(sale', OwnItems(s))
  <2> HIDE DEF I, J
  <2> QED BY <1>3, CreditGrows
<1>6. /\ SumFunctionOnSet(sale', J) \in Int
      /\ SumFunctionOnSet(sale', OwnItems(s)) \in Int
  <2>1. IsFiniteSet(J) /\ IsFiniteSet(OwnItems(s))
    BY <1>3, RefundsAssumption, FS_Subset
  <2>2. (\A i \in J : sale'[i] \in Int) /\ (\A i \in OwnItems(s) : sale'[i] \in Int)
    BY <1>3 DEF TypeOK, Amounts
  <2> HIDE DEF J
  <2> QED BY <2>1, <2>2, SumInt
<1>7. /\ Credits({i \in OwnItems(s) : delivery[OrderOf[i]][s] = "released"})'
           = SumFunctionOnSet(sale', J)
      /\ Credits(OwnItems(s))' = SumFunctionOnSet(sale', OwnItems(s))
      /\ Credits(J) = SumFunctionOnSet(sale, J)
      /\ Credits(OwnItems(s)) = SumFunctionOnSet(sale, OwnItems(s))
  BY DEF Credits, OwnItems
<1> HIDE DEF I, J
<1> QED BY <1>1, <1>2, <1>4, <1>5, <1>6, <1>7

----------------------------------------------------------------------------
(* Every step keeps the invariant. *)

\* Nothing has happened yet.
LEMMA RefundsInit == Init => RefundsInv
<1> SUFFICES ASSUME Init PROVE RefundsInv
  OBVIOUS
<1>1. /\ payment = [o \in Orders |-> "pending"]
      /\ delivery = [o \in Orders |-> [s \in Sellers |-> "no"]]
      /\ return = [r \in Returns |-> NoReturn]
      /\ sale = Zero
      /\ refund = [k \in RefundKeys |-> NoRefund]
      /\ payout = [k \in PayoutKeys |-> NoPayout]
  BY DEF Init
<1>2. Zero \in Amounts /\ \A i \in Items : Zero[i] = 0
  BY DEF Zero, Amounts
<1>3. TypeOK
  <2>1. NoReturn \in ReturnRow
    BY <1>2 DEF NoReturn, ReturnRow, ReturnStatus
  <2>2. NoRefund \in RefundRow
    BY <1>2 DEF NoRefund, RefundRow
  <2>3. NoPayout \in PayoutRow
    BY DEF NoPayout, PayoutRow
  <2> QED BY <1>1, <1>2, <2>1, <2>2, <2>3 DEF TypeOK
<1>4. \A i \in Items : MerchandiseOf(refund, RefundKeys, i) = 0
                       /\ FeesOf(refund, RefundKeys, i) = 0 /\ DebitOf(refund, i) = 0
  <2> TAKE i \in Items
  <2>1. \A k \in RefundKeys : /\ refund[k].merchandise[i] = 0 /\ refund[k].fees[i] = 0
                              /\ refund[k].debit[i] = 0
    BY <1>1, <1>2 DEF NoRefund
  <2>2. \A k \in RefundKeys :
            /\ [kk \in RefundKeys |-> refund[kk].merchandise[i]][k] = 0
            /\ [kk \in RefundKeys |-> refund[kk].fees[i]][k] = 0
            /\ [kk \in RefundKeys |-> refund[kk].debit[i]][k] = 0
    BY <2>1
  <2> QED BY <2>2, RefundsAssumption, SumZero DEF MerchandiseOf, FeesOf, DebitOf
<1>5. /\ \A o \in Orders : RefundsOf(o) = {}
      /\ \A r \in Returns : RefundsOn(r) = {}
  BY <1>1, RefundsAssumption DEF RefundsOf, RefundsOn, NoRefund
<1>6. \A i \in Items : MerchandiseOf(refund, {}, i) = 0 /\ FeesOf(refund, {}, i) = 0
  BY SumEmpty DEF MerchandiseOf, FeesOf
<1>7. CreditedOnce
  BY <1>1, <1>2 DEF CreditedOnce
<1>8. NoRoundingDrift
  <2>1. \A i \in Items : Payable[i] \in Nat /\ Net[i] \in Nat /\ Payable[i] <= Net[i]
    BY RefundsAssumption
  <2> QED BY <1>4, <2>1, Views DEF NoRoundingDrift
<1>9. RefundsWithinCharge
  BY <1>1, <1>4, RefundsAssumption, Views DEF RefundsWithinCharge
<1>10. ReturnsWithinPurchase
  <2>1. \A i \in Items, R \in SUBSET Returns :
            SumFunctionOnSet([r \in Returns |-> return[r].quantity[i]], R) = 0
    <3> TAKE i \in Items, R \in SUBSET Returns
    <3>1. IsFiniteSet(R) /\ \A r \in R : [rr \in Returns |-> return[rr].quantity[i]][r] = 0
      BY <1>1, <1>2, RefundsAssumption, FS_Subset DEF NoReturn
    <3> QED BY <3>1, SumZero
  <2>2. {r \in Returns : return[r].status \notin {"rejected", "cancelled"}} \in SUBSET Returns
    OBVIOUS
  <2>3. \A i \in Items : Bought[i] \in Nat
    BY RefundsAssumption
  <2> QED BY <2>1, <2>2, <2>3 DEF ReturnsWithinPurchase
<1>11. PayoutsAreReleased
  <2> SUFFICES ASSUME NEW s \in Sellers
               PROVE  /\ Debits(s, PayoutKeys \ Ahead)
                           <= Credits({i \in OwnItems(s) : delivery[OrderOf[i]][s] = "released"})
                      /\ Debits(s, PayoutKeys) <= Credits(OwnItems(s))
    BY DEF PayoutsAreReleased
  <2>1. \A keys \in SUBSET PayoutKeys : PaidOut(payout, s, keys) = 0
    <3> TAKE keys \in SUBSET PayoutKeys
    <3>1. {k \in PayoutKeys \cap keys : payout[k].seller = s} = {}
      BY <1>1, RefundsAssumption DEF NoPayout
    <3> QED BY <3>1, SumEmpty DEF PaidOut
  <2>2. Debits(s, PayoutKeys \ Ahead) = 0 /\ Debits(s, PayoutKeys) = 0
    <3>1. PayoutKeys \ Ahead \in SUBSET PayoutKeys
      OBVIOUS
    <3>2. \A keys \in SUBSET PayoutKeys : Debits(s, keys) = 0 + PaidOut(payout, s, keys)
      BY DebitViews
    <3> QED BY <2>1, <3>1, <3>2
  <2>3. OwnItems(s) \in SUBSET Items
    BY DEF OwnItems
  <2>4. \A J \in SUBSET Items : Credits(J) \in Nat
    BY <1>3, CreditTypes
  <2>5. {i \in OwnItems(s) : delivery[OrderOf[i]][s] = "released"} \in SUBSET Items
    BY <2>3
  <2> QED BY <2>2, <2>3, <2>4, <2>5
<1>12. ReturnsAreWhole
  <2>1. Total(Zero) = 0
    BY <1>2, RefundsAssumption, SumZero DEF Total
  <2> QED BY <1>1, <2>1 DEF ReturnsAreWhole, NoReturn
<1>13. RefundsAreOfReturns
  BY <1>1 DEF RefundsAreOfReturns
<1>14. SharesHold
  <2> SUFFICES ASSUME NEW r \in Returns, NEW i \in Items
               PROVE  Given(RefundsOn(r), i) <= return[r].approved[i]
    BY DEF SharesHold
  <2>1. Given(RefundsOn(r), i) = 0
    BY <1>5, <1>6, Views
  <2> QED BY <1>1, <1>2, <2>1 DEF NoReturn
<1>15. CreditsArePosted
  BY <1>1, <1>2, <1>4, RefundsAssumption, Views DEF CreditsArePosted
<1> QED
  BY <1>3, <1>7, <1>8, <1>9, <1>10, <1>11, <1>12, <1>13, <1>14, <1>15 DEF RefundsInv

\* A confirmed refund keeps every sum within what it may come to.
LEMMA RefundKeeps ==
    ASSUME RefundsInv, NEW k \in RefundKeys, NEW g \in References, NEW r \in Returns,
           NEW merchandise \in Amounts, NEW fees \in Amounts,
           PostRefund(k, g, r, merchandise, fees)
    PROVE  RefundsInv'
<1> DEFINE row == RowOf(g, r, merchandise, fees)
           o1 == return[r].order
           lines == {i \in Items : merchandise[i] + fees[i] > 0}
           given == GivenBack(RefundsOf(o1)) + Total(merchandise) + Total(fees)
<1>1. /\ row \in RefundRow
      /\ refund[k] = NoRefund
      /\ refund' = [refund EXCEPT ![k] = row]
      /\ o1 \in Orders /\ payment[o1] # "pending"
  BY PostRefundSums
<1>2. \A i \in Items :
          /\ Debited(i) \in Nat
          /\ Debited(i)' = Debited(i) + row.debit[i]
          /\ Merchandise(RefundKeys, i) \in Nat
          /\ Merchandise(RefundKeys, i)' = Merchandise(RefundKeys, i) + merchandise[i]
          /\ FeesBack(RefundKeys, i) \in Nat
          /\ FeesBack(RefundKeys, i)' = FeesBack(RefundKeys, i) + fees[i]
  BY PostRefundSums
<1>3. \A o \in Orders :
          /\ GivenBack(RefundsOf(o)) \in Nat
          /\ GivenBack(RefundsOf(o))' =
                IF o = o1 THEN given ELSE GivenBack(RefundsOf(o))
  BY PostRefundSums
<1>4. \A s \in Returns :
          /\ s # r => GivenBack(RefundsOn(s))' = GivenBack(RefundsOn(s))
          /\ \A i \in Items :
               /\ Given(RefundsOn(s), i) \in Nat
               /\ Given(RefundsOn(s), i)' =
                     IF s = r THEN Given(RefundsOn(s), i) + merchandise[i] + fees[i]
                     ELSE Given(RefundsOn(s), i)
  BY PostRefundSums
<1>5. /\ return[r].status \in {"approved", "item_received"}
      /\ lines # {}
      /\ given <= Paid(o1)
      /\ \A i \in lines :
            /\ Payable[i] > 0 => sale[i] > 0
            /\ Merchandise(RefundKeys, i) + merchandise[i] <= Net[i]
            /\ FeesBack(RefundKeys, i) + fees[i] <= Fees[i]
            /\ Given(RefundsOn(r), i) + merchandise[i] + fees[i] <= return[r].approved[i]
      /\ payment' = [payment EXCEPT ![o1] = IF given = Paid(o1) THEN "refunded" ELSE @]
      /\ delivery' = delivery /\ return' = return /\ sale' = sale /\ payout' = payout
  BY DEF PostRefund, Refundable
<1>6. \A i \in Items : /\ merchandise[i] \in Nat /\ fees[i] \in Nat
                       /\ i \in lines \/ (merchandise[i] = 0 /\ fees[i] = 0)
  BY DEF Amounts
<1>7. \A i \in Items : row.debit[i] = IF i \in lines THEN Debit(i, merchandise[i]) ELSE 0
  BY DEF RowOf
<1>8. \A i \in Items : Payable[i] \in Nat /\ Net[i] \in Nat /\ Payable[i] <= Net[i]
  BY RefundsAssumption
<1>9. /\ TypeOK /\ CreditedOnce /\ NoRoundingDrift
      /\ ReturnsWithinPurchase /\ RefundsWithinCharge /\ PayoutsAreReleased
      /\ ReturnsAreWhole /\ RefundsAreOfReturns /\ SharesHold /\ CreditsArePosted
  BY DEF RefundsInv
<1> HIDE DEF row, given
<1>10. TypeOK'
  <2>1. refund' \in [RefundKeys -> RefundRow]
    BY <1>1, <1>9 DEF TypeOK
  <2>2. payment' \in [Orders -> {"pending", "success", "refunded"}]
    BY <1>1, <1>5, <1>9 DEF TypeOK
  <2> QED BY <1>5, <1>9, <2>1, <2>2 DEF TypeOK
<1>11. NoRoundingDrift'
  <2> SUFFICES ASSUME NEW i \in Items
               PROVE  /\ Debited(i)' <= Payable[i]
                      /\ Net[i] > 0 /\ Merchandise(RefundKeys, i)' = Net[i]
                            => Debited(i)' = Payable[i]
    BY DEF NoRoundingDrift
  <2>1. /\ Debited(i) <= Payable[i]
        /\ Net[i] > 0 /\ Merchandise(RefundKeys, i) = Net[i] => Debited(i) = Payable[i]
    BY <1>9 DEF NoRoundingDrift
  <2>2. CASE i \in lines
    <3>1. /\ Debited(i) + Debit(i, merchandise[i]) <= Payable[i]
          /\ Net[i] > 0 /\ Merchandise(RefundKeys, i) + merchandise[i] = Net[i]
                => Debited(i) + Debit(i, merchandise[i]) = Payable[i]
      BY <1>2, <1>6, <2>1, DebitBounds
    <3> QED BY <1>2, <1>7, <2>2, <3>1
  <2>3. CASE i \notin lines
    <3>1. Debited(i)' = Debited(i) /\ Merchandise(RefundKeys, i)' = Merchandise(RefundKeys, i)
      BY <1>2, <1>6, <1>7, <2>3
    <3> QED BY <2>1, <3>1
  <2> QED BY <2>2, <2>3
<1>12. RefundsWithinCharge'
  <2>1. \A i \in Items : /\ Merchandise(RefundKeys, i)' <= Net[i]
                         /\ FeesBack(RefundKeys, i)' <= Fees[i]
    <3> TAKE i \in Items
    <3>1. Merchandise(RefundKeys, i) <= Net[i] /\ FeesBack(RefundKeys, i) <= Fees[i]
      BY <1>9 DEF RefundsWithinCharge
    <3>2. CASE i \in lines
      BY <1>2, <1>5, <3>2
    <3>3. CASE i \notin lines
      <4>1. /\ Merchandise(RefundKeys, i)' = Merchandise(RefundKeys, i)
            /\ FeesBack(RefundKeys, i)' = FeesBack(RefundKeys, i)
        BY <1>2, <1>6, <3>3
      <4> QED BY <3>1, <4>1
    <3> QED BY <3>2, <3>3
  <2>2. Total(merchandise) \in Nat /\ Total(fees) \in Nat
    BY <1>6, TotalType
  <2>3. Total(merchandise) + Total(fees) > 0
    <3>1. PICK i \in lines : TRUE
      BY <1>5
    <3>2. merchandise[i] <= Total(merchandise) /\ fees[i] <= Total(fees)
      BY <1>6, RefundsAssumption, SumOne DEF Total
    <3>3. merchandise[i] \in Nat /\ fees[i] \in Nat /\ merchandise[i] + fees[i] > 0
      BY <1>6
    <3> QED BY <2>2, <3>2, <3>3
  <2>4. \A o \in Orders :
            payment'[o] = "refunded" <=> (payment'[o] # "pending" /\ Paid(o) > 0
                                           /\ GivenBack(RefundsOf(o))' = Paid(o))
    <3> TAKE o \in Orders
    <3>1. payment[o] = "refunded" <=> (payment[o] # "pending" /\ Paid(o) > 0
                                        /\ GivenBack(RefundsOf(o)) = Paid(o))
      BY <1>9 DEF RefundsWithinCharge
    <3>2. CASE o = o1
      <4>1. GivenBack(RefundsOf(o)) \in Nat /\ GivenBack(RefundsOf(o))' = given
            /\ given = GivenBack(RefundsOf(o)) + Total(merchandise) + Total(fees)
        BY <1>3, <3>2 DEF given
      <4>2. payment \in [Orders -> {"pending", "success", "refunded"}]
        BY <1>9 DEF TypeOK
      <4>3. payment'[o] = IF given = Paid(o) THEN "refunded" ELSE payment[o]
        BY <1>5, <3>2, <4>2
      <4>4. given <= Paid(o)
        BY <1>5, <3>2
      <4>5. given > 0 /\ GivenBack(RefundsOf(o)) < given
        BY <2>2, <2>3, <4>1
      <4>6. CASE given = Paid(o)
        BY <4>1, <4>3, <4>5, <4>6
      <4>7. CASE given # Paid(o)
        <5>1. payment[o] # "refunded"
          BY <3>1, <4>1, <4>4, <4>5, <4>7
        <5> QED BY <4>1, <4>3, <4>7, <5>1
      <4> QED BY <4>6, <4>7
    <3>3. CASE o # o1
      <4>1. payment'[o] = payment[o] /\ GivenBack(RefundsOf(o))' = GivenBack(RefundsOf(o))
        BY <1>3, <1>5, <1>9, <3>3 DEF TypeOK
      <4> QED BY <3>1, <4>1
    <3> QED BY <3>2, <3>3
  <2>5. \A o \in Orders : Paid(o)' = Paid(o)
    BY DEF Paid, ItemsOf
  <2> QED BY <2>1, <2>4, <2>5 DEF RefundsWithinCharge
<1>13. ReturnsWithinPurchase'
  BY <1>5, <1>9 DEF ReturnsWithinPurchase
<1>14. PayoutsAreReleased'
  <2>1. \A i \in Items : sale[i] <= sale'[i]
    BY <1>5, <1>9 DEF TypeOK, Amounts
  <2> QED BY <1>5, <1>9, <1>10, <2>1, PayoutFrame
<1>15. ReturnsAreWhole'
  <2>1. \A o \in Orders : payment[o] # "pending" => payment'[o] # "pending"
    BY <1>5, <1>9 DEF TypeOK
  <2>2. \A s \in Returns : return[s].status = "refunded" =>
            GivenBack(RefundsOn(s))' = GivenBack(RefundsOn(s))
    BY <1>4, <1>5
  <2> QED BY <1>5, <1>9, <2>1, <2>2 DEF ReturnsAreWhole, Total
<1>16. RefundsAreOfReturns'
  <2>1. row.return = r /\ row.order = o1
    BY DEF row, RowOf
  <2> QED BY <1>1, <1>5, <1>9, <2>1 DEF RefundsAreOfReturns, TypeOK
<1>17. SharesHold'
  <2> SUFFICES ASSUME NEW s \in Returns, NEW i \in Items
               PROVE  Given(RefundsOn(s), i)' <= return'[s].approved[i]
    BY DEF SharesHold
  <2>1. Given(RefundsOn(s), i) <= return[s].approved[i]
    BY <1>9 DEF SharesHold
  <2>2. CASE s # r
    BY <1>4, <1>5, <2>1, <2>2
  <2>3. CASE s = r /\ i \in lines
    BY <1>4, <1>5, <2>3
  <2>4. CASE s = r /\ i \notin lines
    <3>1. Given(RefundsOn(s), i)' = Given(RefundsOn(s), i)
      BY <1>4, <1>6, <2>4
    <3> QED BY <1>5, <2>1, <3>1
  <2> QED BY <2>2, <2>3, <2>4
<1>18. CreditsArePosted'
  <2> SUFFICES ASSUME NEW i \in Items
               PROVE  /\ payment'[OrderOf[i]] # "pending" => sale'[i] = Payable[i]
                      /\ Debited(i)' <= sale'[i]
    BY DEF CreditsArePosted
  <2>1. /\ payment[OrderOf[i]] # "pending" => sale[i] = Payable[i]
        /\ Debited(i) <= sale[i]
    BY <1>9 DEF CreditsArePosted
  <2>2. OrderOf[i] \in Orders
    BY RefundsAssumption
  <2>3. payment'[OrderOf[i]] # "pending" => payment[OrderOf[i]] # "pending"
    BY <1>1, <1>5, <1>9, <2>2 DEF TypeOK
  <2>4. CASE i \in lines
    <3>1. sale[i] \in {0, Payable[i]} /\ (Payable[i] > 0 => sale[i] > 0)
      BY <1>5, <1>9, <2>4 DEF CreditedOnce
    <3>2. sale[i] = Payable[i]
      BY <1>8, <3>1
    <3>3. Debited(i)' <= Payable[i]
      BY <1>11 DEF NoRoundingDrift
    <3> QED BY <1>5, <3>2, <3>3
  <2>5. CASE i \notin lines
    <3>1. Debited(i)' = Debited(i)
      BY <1>2, <1>7, <2>5
    <3> QED BY <1>5, <2>1, <2>3, <3>1
  <2> QED BY <2>4, <2>5
<1>19. CreditedOnce'
  BY <1>5, <1>9 DEF CreditedOnce
<1> QED
  BY <1>10, <1>11, <1>12, <1>13, <1>14, <1>15, <1>16, <1>17, <1>18, <1>19 DEF RefundsInv

\* The units of an item that returns have taken or may take back.
Standing(rows) == {r \in Returns : rows[r].status \notin {"rejected", "cancelled"}}
ReturnedOf(rows, i) == SumFunctionOnSet([r \in Returns |-> rows[r].quantity[i]], Standing(rows))

\* The property in terms of the table.
LEMMA ReturnedView ==
    /\ \A i : Returned(i) = ReturnedOf(return, i)
    /\ ReturnsWithinPurchase <=>
          \A i \in Items :
             /\ ReturnedOf(return, i) <= Bought[i]
             /\ ReturnedOf(return, i) > 0 => delivery[OrderOf[i]][SellerOf[i]] # "no"
    /\ ReturnsWithinPurchase' <=>
          \A i \in Items :
             /\ ReturnedOf(return', i) <= Bought[i]
             /\ ReturnedOf(return', i) > 0 => delivery'[OrderOf[i]][SellerOf[i]] # "no"
<1>1. \A i : Returned(i) = ReturnedOf(return, i)
  BY DEF Returned, ReturnedOf, Standing
<1>2. ReturnsWithinPurchase <=>
          \A i \in Items :
             /\ ReturnedOf(return, i) <= Bought[i]
             /\ ReturnedOf(return, i) > 0 => delivery[OrderOf[i]][SellerOf[i]] # "no"
  BY DEF ReturnsWithinPurchase, ReturnedOf, Standing
<1>3. ReturnsWithinPurchase' <=>
          \A i \in Items :
             /\ ReturnedOf(return', i) <= Bought[i]
             /\ ReturnedOf(return', i) > 0 => delivery'[OrderOf[i]][SellerOf[i]] # "no"
  BY DEF ReturnsWithinPurchase, ReturnedOf, Standing
<1> QED BY <1>1, <1>2, <1>3

\* They are natural numbers, and no more when returns are turned down.
LEMMA ReturnedFalls ==
    ASSUME NEW rows \in [Returns -> ReturnRow], NEW after, NEW i \in Items,
           \A r \in Returns : after[r].quantity = rows[r].quantity,
           Standing(after) \subseteq Standing(rows)
    PROVE  /\ ReturnedOf(rows, i) \in Nat /\ ReturnedOf(after, i) \in Nat
           /\ ReturnedOf(after, i) <= ReturnedOf(rows, i)
<1> DEFINE f == [r \in Returns |-> rows[r].quantity[i]]
<1>1. \A r \in Returns : f[r] \in Nat
  BY DEF ReturnRow, Amounts
<1>2. [r \in Returns |-> after[r].quantity[i]] = f
  OBVIOUS
<1>3. Standing(rows) \subseteq Returns
  BY DEF Standing
<1>4. IsFiniteSet(Standing(rows)) /\ \A r \in Standing(rows) : f[r] \in Nat
  BY <1>1, <1>3, RefundsAssumption, FS_Subset
<1>5. /\ ReturnedOf(rows, i) = SumFunctionOnSet(f, Standing(rows))
      /\ ReturnedOf(after, i) = SumFunctionOnSet(f, Standing(after))
  BY <1>2 DEF ReturnedOf
<1> HIDE DEF f
<1>6. SumFunctionOnSet(f, Standing(rows)) \in Nat
  BY <1>4, SumNat
<1> QED BY <1>4, <1>5, <1>6, SumPart

\* As long as no more is taken back, what was taken back stays within the purchase.
LEMMA FallsKeep ==
    ASSUME ReturnsWithinPurchase, delivery' = delivery,
           \A i \in Items : /\ ReturnedOf(return, i) \in Nat /\ ReturnedOf(return', i) \in Nat
                            /\ ReturnedOf(return', i) <= ReturnedOf(return, i)
    PROVE  ReturnsWithinPurchase'
<1> SUFFICES ASSUME NEW i \in Items
             PROVE  /\ ReturnedOf(return', i) <= Bought[i]
                    /\ ReturnedOf(return', i) > 0 => delivery'[OrderOf[i]][SellerOf[i]] # "no"
  BY ReturnedView
<1>1. /\ ReturnedOf(return, i) <= Bought[i]
      /\ ReturnedOf(return, i) > 0 => delivery'[OrderOf[i]][SellerOf[i]] # "no"
  BY ReturnedView
<1>2. Bought[i] \in Nat
  BY RefundsAssumption
<1>3. PICK a \in Nat, b \in Nat :
          ReturnedOf(return, i) = a /\ ReturnedOf(return', i) = b /\ b <= a
  OBVIOUS
<1>4. b <= Bought[i] /\ (b > 0 => a > 0)
  BY <1>1, <1>2, <1>3
<1> QED BY <1>1, <1>3, <1>4

\* A step that only changes returns.
LEMMA ReturnStepKeeps ==
    ASSUME RefundsInv, UNCHANGED <<payment, delivery, sale, refund, payout>>,
           return' \in [Returns -> ReturnRow],
           ReturnsWithinPurchase', ReturnsAreWhole', RefundsAreOfReturns', SharesHold'
    PROVE  RefundsInv'
<1>1. TypeOK /\ CreditedOnce /\ NoRoundingDrift /\ RefundsWithinCharge /\ PayoutsAreReleased
      /\ CreditsArePosted
  BY DEF RefundsInv
<1>2. TypeOK' /\ CreditedOnce'
  BY <1>1 DEF TypeOK, CreditedOnce
<1>3. NoRoundingDrift' /\ CreditsArePosted'
  BY <1>1, RefundFrame DEF NoRoundingDrift, CreditsArePosted
<1>4. RefundsWithinCharge'
  <2>1. \A o \in Orders : Paid(o)' = Paid(o)
    BY DEF Paid, ItemsOf
  <2> QED BY <1>1, <2>1, RefundFrame DEF RefundsWithinCharge
<1>5. PayoutsAreReleased'
  <2>1. \A i \in Items : sale[i] <= sale'[i]
    BY <1>1 DEF TypeOK, Amounts
  <2> QED BY <1>1, <1>2, <2>1, PayoutFrame
<1> QED BY <1>2, <1>3, <1>4, <1>5 DEF RefundsInv

\* A return moves on and stays what it is about.
LEMMA SetReturnKeeps ==
    ASSUME RefundsInv, NEW r \in Returns, NEW from, NEW status \in ReturnStatus,
           SetReturn(r, from, status), from # "none", status \notin {"none", "submitted"},
           from \notin {"rejected", "cancelled"},
           status \in {"item_received", "refunded", "approved"} \/ from = "submitted",
           status = "refunded" => GivenBack(RefundsOn(r)) >= return[r].total
    PROVE  RefundsInv'
<1>1. /\ return[r].status = from
      /\ return' = [return EXCEPT ![r].status = status]
      /\ UNCHANGED <<payment, delivery, sale, refund, payout>>
  BY DEF SetReturn
<1>2. TypeOK /\ ReturnsWithinPurchase /\ ReturnsAreWhole /\ RefundsAreOfReturns /\ SharesHold
  BY DEF RefundsInv
<1>3. return \in [Returns -> ReturnRow] /\ return[r] \in ReturnRow
  BY <1>2 DEF TypeOK
<1>4. [return[r] EXCEPT !.status = status] \in ReturnRow
  BY <1>3 DEF ReturnRow
<1>5. return' \in [Returns -> ReturnRow]
  BY <1>1, <1>3, <1>4
<1>6. /\ return'[r].status = status
      /\ \A s \in Returns :
            /\ return'[s].quantity = return[s].quantity
            /\ return'[s].approved = return[s].approved
            /\ return'[s].total = return[s].total
            /\ return'[s].order = return[s].order
            /\ s # r => return'[s] = return[s]
  BY <1>1, <1>3 DEF ReturnRow
<1>7. ReturnsWithinPurchase'
  <2>1. Standing(return') \subseteq Standing(return)
    BY <1>1, <1>6 DEF Standing
  <2>2. \A i \in Items : /\ ReturnedOf(return, i) \in Nat /\ ReturnedOf(return', i) \in Nat
                         /\ ReturnedOf(return', i) <= ReturnedOf(return, i)
    BY <1>3, <1>6, <2>1, ReturnedFalls
  <2> QED BY <1>1, <1>2, <2>2, FallsKeep
<1>8. ReturnsAreWhole'
  <2>1. \A s \in Returns : GivenBack(RefundsOn(s))' = GivenBack(RefundsOn(s))
    BY <1>1, RefundFrame
  <2>2. \A s \in Returns : Total(return[s].approved)' = Total(return'[s].approved)
    BY DEF Total
  <2>3. \A s \in Returns : Total(return'[s].approved) = return'[s].total
    BY <1>2, <1>6 DEF ReturnsAreWhole
  <2>4. return[r].order \in Orders /\ payment[return[r].order] # "pending"
    BY <1>1, <1>2 DEF ReturnsAreWhole
  <2> QED BY <1>1, <1>2, <1>6, <2>1, <2>2, <2>3, <2>4 DEF ReturnsAreWhole
<1>9. RefundsAreOfReturns'
  <2> SUFFICES ASSUME NEW k \in RefundKeys, refund[k] # NoRefund
               PROVE  /\ refund[k].return \in Returns
                      /\ refund[k].order = return'[refund[k].return].order
                      /\ return'[refund[k].return].status
                            \in {"approved", "item_received", "refunded"}
    BY <1>1 DEF RefundsAreOfReturns
  <2>1. /\ refund[k].return \in Returns
        /\ refund[k].order = return[refund[k].return].order
        /\ return[refund[k].return].status \in {"approved", "item_received", "refunded"}
    BY <1>2 DEF RefundsAreOfReturns
  <2> QED BY <1>1, <1>6, <2>1
<1>10. SharesHold'
  BY <1>1, <1>2, <1>6, RefundFrame DEF SharesHold
<1> QED BY <1>1, <1>5, <1>7, <1>8, <1>9, <1>10, ReturnStepKeeps

\* A return is asked for, of no more than is left.
LEMMA SubmitKeeps ==
    ASSUME RefundsInv, NEW r \in Returns, NEW o \in Orders, NEW quantity \in Amounts,
           Submit(r, o, quantity)
    PROVE  RefundsInv'
<1> DEFINE row == [NoReturn EXCEPT !.order = o, !.status = "submitted", !.quantity = quantity]
<1>1. /\ return[r].status = "none" /\ payment[o] # "pending"
      /\ \A i \in Items : quantity[i] > 0 =>
            /\ OrderOf[i] = o
            /\ delivery[o][SellerOf[i]] # "no"
            /\ quantity[i] <= Bought[i] - Returned(i)
      /\ return' = [return EXCEPT ![r] = row]
      /\ UNCHANGED <<payment, delivery, sale, refund, payout>>
  BY DEF Submit
<1>2. TypeOK /\ ReturnsWithinPurchase /\ ReturnsAreWhole /\ RefundsAreOfReturns /\ SharesHold
  BY DEF RefundsInv
<1>3. return \in [Returns -> ReturnRow] /\ return[r] = NoReturn
  BY <1>1, <1>2 DEF TypeOK, ReturnsAreWhole
<1>4. /\ row.order = o /\ row.status = "submitted" /\ row.quantity = quantity
      /\ row.approved = Zero /\ row.total = 0
      /\ NoReturn.quantity = Zero /\ NoReturn.approved = Zero /\ NoReturn.total = 0
      /\ Zero \in Amounts /\ \A i \in Items : Zero[i] = 0
  BY DEF NoReturn, Zero, Amounts
<1>5. row \in ReturnRow
  BY <1>4 DEF NoReturn, ReturnRow, ReturnStatus
<1> HIDE DEF row
<1>6. /\ return' \in [Returns -> ReturnRow]
      /\ return'[r] = row /\ \A s \in Returns : s # r => return'[s] = return[s]
  BY <1>1, <1>3, <1>5
<1>7. ReturnsWithinPurchase'
  <2>1. \A i \in Items : ReturnedOf(return', i) = ReturnedOf(return, i) + quantity[i]
                         /\ ReturnedOf(return, i) \in Nat /\ quantity[i] \in Nat
    <3> TAKE i \in Items
    <3> DEFINE f == [s \in Returns |-> return[s].quantity[i]]
               g == [s \in Returns |-> return'[s].quantity[i]]
               S == Standing(return)
    <3>1. Standing(return') = S /\ r \in S /\ S \subseteq Returns
      BY <1>1, <1>4, <1>6 DEF Standing
    <3>2. \A s \in Returns : f[s] \in Nat /\ (s # r => g[s] = f[s])
      BY <1>3, <1>6 DEF ReturnRow, Amounts
    <3>3. f[r] = 0 /\ g[r] = quantity[i] /\ quantity[i] \in Nat
      BY <1>3, <1>4, <1>6 DEF Amounts
    <3>4. ReturnedOf(return, i) = SumFunctionOnSet(f, S)
          /\ ReturnedOf(return', i) = SumFunctionOnSet(g, S)
      BY <3>1 DEF ReturnedOf
    <3>5. IsFiniteSet(S)
      BY <3>1, RefundsAssumption, FS_Subset
    <3> HIDE DEF f, g, S
    <3>6. (\A s \in S : f[s] \in Nat) /\ (\A s \in S : f[s] \in Int)
          /\ (\A s \in S \ {r} : g[s] = f[s]) /\ g[r] \in Int
      BY <3>1, <3>2, <3>3
    <3>7. SumFunctionOnSet(g, S) = SumFunctionOnSet(f, S) - f[r] + g[r]
      BY <3>1, <3>5, <3>6, SumChange
    <3>8. SumFunctionOnSet(f, S) \in Nat
      BY <3>5, <3>6, SumNat
    <3> QED BY <3>3, <3>4, <3>7, <3>8
  <2> SUFFICES ASSUME NEW i \in Items
               PROVE  /\ ReturnedOf(return', i) <= Bought[i]
                      /\ ReturnedOf(return', i) > 0 => delivery'[OrderOf[i]][SellerOf[i]] # "no"
    BY ReturnedView
  <2>2. /\ ReturnedOf(return, i) <= Bought[i]
        /\ ReturnedOf(return, i) > 0 => delivery[OrderOf[i]][SellerOf[i]] # "no"
    BY <1>2, ReturnedView
  <2>3. Returned(i) = ReturnedOf(return, i) /\ Bought[i] \in Nat
    BY ReturnedView, RefundsAssumption
  <2>4. PICK a \in Nat, b \in Nat, q \in Nat :
            /\ ReturnedOf(return, i) = a /\ ReturnedOf(return', i) = b /\ quantity[i] = q
            /\ b = a + q
    BY <2>1
  <2>5. CASE q > 0
    <3>1. b <= Bought[i]
      BY <1>1, <2>3, <2>4, <2>5
    <3>2. delivery'[OrderOf[i]][SellerOf[i]] # "no"
      BY <1>1, <2>4, <2>5
    <3> QED BY <2>4, <3>1, <3>2
  <2>6. CASE q = 0
    <3>1. a = b
      BY <2>4, <2>6
    <3> QED BY <1>1, <2>2, <2>4, <3>1
  <2> QED BY <2>5, <2>6
<1>8. ReturnsAreWhole'
  <2>1. \A s \in Returns : GivenBack(RefundsOn(s))' = GivenBack(RefundsOn(s))
    BY <1>1, RefundFrame
  <2>2. \A s \in Returns : Total(return[s].approved)' = Total(return'[s].approved)
    BY DEF Total
  <2>3. Total(Zero) = 0
    BY <1>4, RefundsAssumption, SumZero DEF Total
  <2> QED BY <1>1, <1>2, <1>4, <1>6, <2>1, <2>2, <2>3 DEF ReturnsAreWhole
<1>9. RefundsAreOfReturns'
  <2> SUFFICES ASSUME NEW k \in RefundKeys, refund[k] # NoRefund
               PROVE  /\ refund[k].return \in Returns
                      /\ refund[k].order = return'[refund[k].return].order
                      /\ return'[refund[k].return].status
                            \in {"approved", "item_received", "refunded"}
    BY <1>1 DEF RefundsAreOfReturns
  <2>1. /\ refund[k].return \in Returns
        /\ refund[k].order = return[refund[k].return].order
        /\ return[refund[k].return].status \in {"approved", "item_received", "refunded"}
    BY <1>2 DEF RefundsAreOfReturns
  <2> QED BY <1>1, <1>6, <2>1
<1>10. SharesHold'
  BY <1>1, <1>2, <1>3, <1>4, <1>6, RefundFrame DEF SharesHold
<1> QED BY <1>1, <1>6, <1>7, <1>8, <1>9, <1>10, ReturnStepKeeps

\* An approval gives every item its share; no refund came before it.
LEMMA ApproveKeeps ==
    ASSUME RefundsInv, NEW r \in Returns, NEW amount \in Nat, NEW last \in Items,
           Approve(r, amount, last)
    PROVE  RefundsInv'
<1> DEFINE shares == Split(amount, Requested(r), last)
           row == [return[r] EXCEPT !.status = "approved", !.total = amount, !.approved = shares]
<1>1. /\ return[r].status = "submitted"
      /\ amount <= Total(Requested(r))
      /\ Requested(r)[last] > 0 \/ Total(Requested(r)) = 0
      /\ return' = [return EXCEPT ![r] = row]
      /\ UNCHANGED <<payment, delivery, sale, refund, payout>>
  BY DEF Approve
<1>2. TypeOK /\ ReturnsWithinPurchase /\ ReturnsAreWhole /\ RefundsAreOfReturns /\ SharesHold
  BY DEF RefundsInv
<1>3. return \in [Returns -> ReturnRow] /\ return[r] \in ReturnRow
  BY <1>2 DEF TypeOK
<1>4. Requested(r) \in Amounts
  BY <1>3, RefundsAssumption DEF Requested, ReturnRow, Amounts
<1>5. shares \in Amounts /\ Total(shares) = amount
  BY <1>1, <1>4, SplitAddsUp
<1> HIDE DEF shares
<1>6. row \in ReturnRow
  BY <1>3, <1>5 DEF ReturnRow, ReturnStatus
<1>7. /\ row.order = return[r].order /\ row.status = "approved" /\ row.total = amount
      /\ row.approved = shares /\ row.quantity = return[r].quantity
  BY <1>3 DEF ReturnRow
<1> HIDE DEF row
<1>8. /\ return' \in [Returns -> ReturnRow]
      /\ return'[r] = row /\ \A s \in Returns : s # r => return'[s] = return[s]
  BY <1>1, <1>3, <1>6
<1>9. RefundsOn(r) = {}
  BY <1>1, <1>2, RefundsAssumption DEF RefundsAreOfReturns, RefundsOn, NoRefund
<1>10. ReturnsWithinPurchase'
  <2>1. Standing(return') \subseteq Standing(return)
    BY <1>1, <1>8 DEF Standing
  <2>2. \A s \in Returns : return'[s].quantity = return[s].quantity
    BY <1>7, <1>8
  <2>3. \A i \in Items : /\ ReturnedOf(return, i) \in Nat /\ ReturnedOf(return', i) \in Nat
                         /\ ReturnedOf(return', i) <= ReturnedOf(return, i)
    BY <1>3, <2>1, <2>2, ReturnedFalls
  <2> QED BY <1>1, <1>2, <2>3, FallsKeep
<1>11. ReturnsAreWhole'
  <2>1. \A s \in Returns : GivenBack(RefundsOn(s))' = GivenBack(RefundsOn(s))
    BY <1>1, RefundFrame
  <2>2. \A s \in Returns : Total(return[s].approved)' = Total(return'[s].approved)
    BY DEF Total
  <2> QED BY <1>1, <1>2, <1>5, <1>7, <1>8, <2>1, <2>2 DEF ReturnsAreWhole
<1>12. RefundsAreOfReturns'
  <2> SUFFICES ASSUME NEW k \in RefundKeys, refund[k] # NoRefund
               PROVE  /\ refund[k].return \in Returns
                      /\ refund[k].order = return'[refund[k].return].order
                      /\ return'[refund[k].return].status
                            \in {"approved", "item_received", "refunded"}
    BY <1>1 DEF RefundsAreOfReturns
  <2>1. /\ refund[k].return \in Returns
        /\ refund[k].order = return[refund[k].return].order
        /\ return[refund[k].return].status \in {"approved", "item_received", "refunded"}
    BY <1>2 DEF RefundsAreOfReturns
  <2> QED BY <1>1, <1>8, <2>1
<1>13. SharesHold'
  <2> SUFFICES ASSUME NEW s \in Returns, NEW i \in Items
               PROVE  Given(RefundsOn(s), i)' <= return'[s].approved[i]
    BY DEF SharesHold
  <2>1. Given(RefundsOn(s), i)' = Given(RefundsOn(s), i)
    BY <1>1, RefundFrame
  <2>2. CASE s # r
    BY <1>2, <1>8, <2>1, <2>2 DEF SharesHold
  <2>3. CASE s = r
    <3>1. Given(RefundsOn(s), i)
            = MerchandiseOf(refund, {}, i) + FeesOf(refund, {}, i)
      BY <1>9, <2>3, Views
    <3>2. MerchandiseOf(refund, {}, i) = 0 /\ FeesOf(refund, {}, i) = 0
      BY SumEmpty DEF MerchandiseOf, FeesOf
    <3>3. return'[s].approved[i] \in Nat
      BY <1>5, <1>7, <1>8, <2>3 DEF Amounts
    <3> QED BY <2>1, <3>1, <3>2, <3>3
  <2> QED BY <2>2, <2>3
<1> QED BY <1>1, <1>8, <1>10, <1>11, <1>12, <1>13, ReturnStepKeeps

\* A capture credits what was not credited yet.
LEMMA CaptureKeeps ==
    ASSUME RefundsInv, NEW o \in Orders, Capture(o)
    PROVE  /\ RefundsInv'
           /\ payout' = payout /\ \A i \in Items : sale[i] <= sale'[i]
<1>1. /\ payment' = [payment EXCEPT ![o] = IF @ = "pending" THEN "success" ELSE @]
      /\ sale' = Posted(o)
      /\ delivery' = delivery /\ return' = return /\ refund' = refund /\ payout' = payout
  BY DEF Capture
<1>2. /\ TypeOK /\ CreditedOnce /\ NoRoundingDrift
      /\ ReturnsWithinPurchase /\ RefundsWithinCharge /\ PayoutsAreReleased
      /\ ReturnsAreWhole /\ RefundsAreOfReturns /\ SharesHold /\ CreditsArePosted
  BY DEF RefundsInv
<1>3. \A i \in Items : Payable[i] \in Nat /\ sale[i] \in {0, Payable[i]} /\ OrderOf[i] \in Orders
  BY <1>2, RefundsAssumption DEF CreditedOnce
<1>4. \A i \in Items : sale'[i] = IF OrderOf[i] = o THEN Payable[i] ELSE sale[i]
  BY <1>1, <1>3 DEF Posted, ItemsOf
<1>5. sale' \in Amounts
  BY <1>1, <1>2, <1>3 DEF Posted, Amounts, TypeOK
<1>6. \A i \in Items : sale[i] <= sale'[i] /\ sale'[i] \in {0, Payable[i]}
  BY <1>3, <1>4
<1>7. /\ payment \in [Orders -> {"pending", "success", "refunded"}]
      /\ payment' \in [Orders -> {"pending", "success", "refunded"}]
      /\ payment'[o] = IF payment[o] = "pending" THEN "success" ELSE payment[o]
      /\ \A q \in Orders : q # o => payment'[q] = payment[q]
  BY <1>1, <1>2 DEF TypeOK
<1>8. TypeOK' /\ CreditedOnce'
  BY <1>1, <1>2, <1>5, <1>6, <1>7 DEF TypeOK, CreditedOnce
<1>9. NoRoundingDrift'
  BY <1>1, <1>2, RefundFrame DEF NoRoundingDrift
<1>10. ReturnsWithinPurchase'
  BY <1>1, <1>2 DEF ReturnsWithinPurchase
<1>11. RefundsWithinCharge'
  <2>1. \A q \in Orders : Paid(q)' = Paid(q)
    BY DEF Paid, ItemsOf
  <2>2. payment[o] = "pending" => GivenBack(RefundsOf(o)) = 0
    <3> SUFFICES ASSUME payment[o] = "pending" PROVE GivenBack(RefundsOf(o)) = 0
      OBVIOUS
    <3>1. RefundsOf(o) = {}
      <4> SUFFICES ASSUME NEW k \in RefundKeys, refund[k].order = o PROVE FALSE
        BY DEF RefundsOf
      <4>1. refund[k] # NoRefund
        BY RefundsAssumption DEF NoRefund
      <4>2. /\ refund[k].return \in Returns
            /\ o = return[refund[k].return].order
            /\ return[refund[k].return].status \in {"approved", "item_received", "refunded"}
        BY <1>2, <4>1 DEF RefundsAreOfReturns
      <4> QED BY <1>2, <4>2 DEF ReturnsAreWhole
    <3>2. \A i \in Items : MerchandiseOf(refund, {}, i) = 0 /\ FeesOf(refund, {}, i) = 0
      BY SumEmpty DEF MerchandiseOf, FeesOf
    <3>3. \A i \in Items :
              [j \in Items |-> MerchandiseOf(refund, {}, j) + FeesOf(refund, {}, j)][i] = 0
      BY <3>2
    <3>4. GivenOf(refund, {}) = 0
      BY <3>3, RefundsAssumption, SumZero DEF GivenOf
    <3> QED BY <3>1, <3>4, Views
  <2>3. \A q \in Orders :
            payment'[q] = "refunded" <=> (payment'[q] # "pending" /\ Paid(q) > 0
                                           /\ GivenBack(RefundsOf(q)) = Paid(q))
    <3> TAKE q \in Orders
    <3>1. payment[q] = "refunded" <=> (payment[q] # "pending" /\ Paid(q) > 0
                                        /\ GivenBack(RefundsOf(q)) = Paid(q))
      BY <1>2 DEF RefundsWithinCharge
    <3>2. CASE q = o /\ payment[q] = "pending"
      BY <1>7, <2>2, <3>2
    <3>3. CASE ~ (q = o /\ payment[q] = "pending")
      <4>1. payment'[q] = payment[q]
        BY <1>7, <3>3
      <4> QED BY <3>1, <4>1
    <3> QED BY <3>2, <3>3
  <2>4. /\ \A i \in Items : /\ Merchandise(RefundKeys, i)' = Merchandise(RefundKeys, i)
                            /\ FeesBack(RefundKeys, i)' = FeesBack(RefundKeys, i)
        /\ \A q \in Orders : GivenBack(RefundsOf(q))' = GivenBack(RefundsOf(q))
    BY <1>1, RefundFrame
  <2>5. \A i \in Items : Merchandise(RefundKeys, i) <= Net[i] /\ FeesBack(RefundKeys, i) <= Fees[i]
    BY <1>2 DEF RefundsWithinCharge
  <2> QED BY <2>1, <2>3, <2>4, <2>5 DEF RefundsWithinCharge
<1>12. PayoutsAreReleased'
  BY <1>1, <1>2, <1>6, <1>8, PayoutFrame
<1>13. ReturnsAreWhole' /\ SharesHold' /\ RefundsAreOfReturns'
  <2>1. \A s \in Returns :
            /\ GivenBack(RefundsOn(s))' = GivenBack(RefundsOn(s))
            /\ \A i \in Items : Given(RefundsOn(s), i)' = Given(RefundsOn(s), i)
    BY <1>1, RefundFrame
  <2>2. \A s \in Returns : Total(return[s].approved)' = Total(return[s].approved)
    BY <1>1 DEF Total
  <2>3. \A q \in Orders : payment[q] # "pending" => payment'[q] # "pending"
    BY <1>7
  <2>4. ReturnsAreWhole'
    BY <1>1, <1>2, <2>1, <2>2, <2>3 DEF ReturnsAreWhole
  <2>5. SharesHold' /\ RefundsAreOfReturns'
    BY <1>1, <1>2, <2>1 DEF SharesHold, RefundsAreOfReturns
  <2> QED BY <2>4, <2>5
<1>14. CreditsArePosted'
  <2> SUFFICES ASSUME NEW i \in Items
               PROVE  /\ payment'[OrderOf[i]] # "pending" => sale'[i] = Payable[i]
                      /\ Debited(i)' <= sale'[i]
    BY DEF CreditsArePosted
  <2>1. /\ payment[OrderOf[i]] # "pending" => sale[i] = Payable[i]
        /\ Debited(i) <= sale[i]
    BY <1>2 DEF CreditsArePosted
  <2>2. Debited(i) \in Nat
    BY <1>2, RefundSumTypes, Views DEF TypeOK
  <2>3. Debited(i)' = Debited(i)
    BY <1>1, RefundFrame
  <2>4. Debited(i)' <= sale'[i]
    BY <1>3, <1>6, <2>1, <2>2, <2>3
  <2> QED BY <1>3, <1>4, <1>7, <2>1, <2>4
<1> QED
  BY <1>1, <1>6, <1>8, <1>9, <1>10, <1>11, <1>12, <1>13, <1>14 DEF RefundsInv

\* A delivery is never taken back.
LEMMA DeliverKeeps ==
    ASSUME RefundsInv, NEW o \in Orders, NEW s \in Sellers, Deliver(o, s)
    PROVE  RefundsInv'
<1>1. /\ delivery[o][s] # "released"
      /\ delivery' = [delivery EXCEPT ![o][s] = IF @ = "no" THEN "held" ELSE "released"]
      /\ payment' = payment /\ return' = return /\ sale' = sale /\ refund' = refund
      /\ payout' = payout
  BY DEF Deliver
<1>2. /\ TypeOK /\ CreditedOnce /\ NoRoundingDrift
      /\ ReturnsWithinPurchase /\ RefundsWithinCharge /\ PayoutsAreReleased
      /\ ReturnsAreWhole /\ RefundsAreOfReturns /\ SharesHold /\ CreditsArePosted
  BY DEF RefundsInv
<1>3. \A q \in Orders, z \in Sellers :
          /\ delivery[q][z] # "no" => delivery'[q][z] # "no"
          /\ delivery[q][z] = "released" => delivery'[q][z] = "released"
  BY <1>1, <1>2 DEF TypeOK
<1>4. TypeOK' /\ CreditedOnce'
  <2>1. delivery' \in [Orders -> [Sellers -> {"no", "held", "released"}]]
    BY <1>1, <1>2 DEF TypeOK
  <2> QED BY <1>1, <1>2, <2>1 DEF TypeOK, CreditedOnce
<1>5. NoRoundingDrift' /\ CreditsArePosted'
  BY <1>1, <1>2, RefundFrame DEF NoRoundingDrift, CreditsArePosted
<1>6. ReturnsWithinPurchase'
  <2>1. \A i \in Items : OrderOf[i] \in Orders /\ SellerOf[i] \in Sellers
    BY RefundsAssumption
  <2>2. \A i \in Items :
            /\ ReturnedOf(return, i) <= Bought[i]
            /\ ReturnedOf(return, i) > 0 => delivery[OrderOf[i]][SellerOf[i]] # "no"
    BY <1>2, ReturnedView
  <2>3. \A i \in Items :
            /\ ReturnedOf(return', i) <= Bought[i]
            /\ ReturnedOf(return', i) > 0 => delivery'[OrderOf[i]][SellerOf[i]] # "no"
    BY <1>1, <1>3, <2>1, <2>2
  <2> QED BY <2>3, ReturnedView
<1>7. RefundsWithinCharge'
  <2>1. \A q \in Orders : Paid(q)' = Paid(q)
    BY DEF Paid, ItemsOf
  <2> QED BY <1>1, <1>2, <2>1, RefundFrame DEF RefundsWithinCharge
<1>8. PayoutsAreReleased'
  <2>1. \A i \in Items : sale[i] <= sale'[i]
    BY <1>1, <1>2 DEF TypeOK, Amounts
  <2> QED BY <1>1, <1>2, <1>3, <1>4, <2>1, PayoutFrame
<1>9. ReturnsAreWhole' /\ SharesHold' /\ RefundsAreOfReturns'
  <2>1. \A r \in Returns :
            /\ GivenBack(RefundsOn(r))' = GivenBack(RefundsOn(r))
            /\ \A i \in Items : Given(RefundsOn(r), i)' = Given(RefundsOn(r), i)
    BY <1>1, RefundFrame
  <2>2. \A r \in Returns : Total(return[r].approved)' = Total(return[r].approved)
    BY <1>1 DEF Total
  <2>3. ReturnsAreWhole'
    BY <1>1, <1>2, <2>1, <2>2 DEF ReturnsAreWhole
  <2>4. SharesHold' /\ RefundsAreOfReturns'
    BY <1>1, <1>2, <2>1 DEF SharesHold, RefundsAreOfReturns
  <2> QED BY <2>3, <2>4
<1> QED
  BY <1>4, <1>5, <1>6, <1>7, <1>8, <1>9 DEF RefundsInv

\* A payout enters the sum of its seller, over keys it is among, and no other.
LEMMA PayoutEnters ==
    ASSUME NEW rows \in [PayoutKeys -> PayoutRow], NEW k \in PayoutKeys, rows[k] = NoPayout,
           NEW s \in Sellers, NEW n \in Nat, NEW after,
           after[k].seller = s, after[k].amount = n,
           \A x \in PayoutKeys \ {k} : after[x] = rows[x],
           NEW keys \in SUBSET PayoutKeys, NEW z \in Sellers
    PROVE  PaidOut(after, z, keys) = PaidOut(rows, z, keys) + (IF z = s /\ k \in keys THEN n ELSE 0)
<1> DEFINE f == [x \in PayoutKeys |-> rows[x].amount]
           g == [x \in PayoutKeys |-> after[x].amount]
           S == {x \in PayoutKeys \cap keys : rows[x].seller = z}
           T == {x \in PayoutKeys \cap keys : after[x].seller = z}
<1>1. k \notin S
  BY RefundsAssumption DEF NoPayout
<1>2. T = IF z = s /\ k \in keys THEN S \cup {k} ELSE S
  BY <1>1
<1>3. \A x \in S : f[x] \in Nat /\ f[x] \in Int /\ g[x] = f[x]
  BY <1>1 DEF PayoutRow
<1>4. g[k] = n /\ g[k] \in Int
  OBVIOUS
<1>5. IsFiniteSet(S)
  BY RefundsAssumption, FS_Subset
<1>6. PaidOut(rows, z, keys) = SumFunctionOnSet(f, S)
      /\ PaidOut(after, z, keys) = SumFunctionOnSet(g, T)
  BY DEF PaidOut
<1> HIDE DEF f, g, S, T
<1>7. SumFunctionOnSet(f, S) \in Nat
  BY <1>3, <1>5, SumNat
<1>8. CASE z = s /\ k \in keys
  <2>1. SumFunctionOnSet(g, S \cup {k}) = SumFunctionOnSet(f, S) + g[k]
    BY <1>1, <1>3, <1>4, <1>5, SumEnter
  <2> QED BY <1>2, <1>4, <1>6, <1>8, <2>1
<1>9. CASE ~ (z = s /\ k \in keys)
  <2>1. \A x \in S : f[x] \in Int /\ f[x] = g[x]
    BY <1>3
  <2>2. SumFunctionOnSet(f, S) = SumFunctionOnSet(g, S)
    BY <1>5, <2>1, SumSame
  <2> QED BY <1>2, <1>6, <1>7, <1>9, <2>2
<1> QED BY <1>8, <1>9

\* A payout takes no more than what may be withdrawn, and leaves nobody in debt.
LEMMA PayoutKeeps ==
    ASSUME RefundsInv, NEW k \in PayoutKeys, NEW g \in References, NEW s \in Sellers,
           NEW amount \in Nat, PostPayout(k, g, s, amount)
    PROVE  /\ RefundsInv'
           /\ \A z \in Sellers : InDebt(z)' => InDebt(z)
<1> DEFINE row == [seller |-> s, reference |-> g, amount |-> amount]
<1>1. /\ payout[k] = NoPayout
      /\ amount <= Withdrawable(s)
      /\ payout' = [payout EXCEPT ![k] = row]
      /\ payment' = payment /\ delivery' = delivery /\ return' = return /\ sale' = sale
      /\ refund' = refund
  BY DEF PostPayout
<1>2. /\ TypeOK /\ CreditedOnce /\ NoRoundingDrift
      /\ ReturnsWithinPurchase /\ RefundsWithinCharge /\ PayoutsAreReleased
      /\ ReturnsAreWhole /\ RefundsAreOfReturns /\ SharesHold /\ CreditsArePosted
  BY DEF RefundsInv
<1>3. payout \in [PayoutKeys -> PayoutRow]
  BY <1>2 DEF TypeOK
<1>4. /\ payout' \in [PayoutKeys -> PayoutRow]
      /\ payout'[k].seller = s /\ payout'[k].amount = amount
      /\ \A x \in PayoutKeys \ {k} : payout'[x] = payout[x]
  BY <1>1, <1>3 DEF PayoutRow
<1>5. TypeOK' /\ CreditedOnce'
  BY <1>1, <1>2, <1>4 DEF TypeOK, CreditedOnce
<1>6. NoRoundingDrift' /\ CreditsArePosted'
  BY <1>1, <1>2, RefundFrame DEF NoRoundingDrift, CreditsArePosted
<1>7. ReturnsWithinPurchase'
  BY <1>1, <1>2 DEF ReturnsWithinPurchase
<1>8. RefundsWithinCharge'
  <2>1. \A q \in Orders : Paid(q)' = Paid(q)
    BY DEF Paid, ItemsOf
  <2> QED BY <1>1, <1>2, <2>1, RefundFrame DEF RefundsWithinCharge
<1>9. ReturnsAreWhole' /\ SharesHold' /\ RefundsAreOfReturns'
  <2>1. \A r \in Returns :
            /\ GivenBack(RefundsOn(r))' = GivenBack(RefundsOn(r))
            /\ \A i \in Items : Given(RefundsOn(r), i)' = Given(RefundsOn(r), i)
    BY <1>1, RefundFrame
  <2>2. \A r \in Returns : Total(return[r].approved)' = Total(return[r].approved)
    BY <1>1 DEF Total
  <2>3. ReturnsAreWhole'
    BY <1>1, <1>2, <2>1, <2>2 DEF ReturnsAreWhole
  <2>4. SharesHold' /\ RefundsAreOfReturns'
    BY <1>1, <1>2, <2>1 DEF SharesHold, RefundsAreOfReturns
  <2> QED BY <2>3, <2>4
<1>10. \A keys \in SUBSET PayoutKeys, z \in Sellers :
           /\ PaidOut(payout, z, keys) \in Nat
           /\ PaidOut(payout', z, keys)
                = PaidOut(payout, z, keys) + (IF z = s /\ k \in keys THEN amount ELSE 0)
  <2> TAKE keys \in SUBSET PayoutKeys, z \in Sellers
  <2>1. PaidOut(payout, z, keys) \in Nat
    BY <1>2, DebitTypes
  <2>2. PaidOut(payout', z, keys)
          = PaidOut(payout, z, keys) + (IF z = s /\ k \in keys THEN amount ELSE 0)
    <3> DEFINE rows == payout
               after == payout'
    <3>1. /\ rows \in [PayoutKeys -> PayoutRow] /\ rows[k] = NoPayout
          /\ after[k].seller = s /\ after[k].amount = amount
      BY <1>1, <1>3, <1>4
    <3>2. \A x \in PayoutKeys \ {k} : after[x] = rows[x]
      BY <1>4
    <3> HIDE DEF rows, after
    <3>3. PaidOut(after, z, keys)
            = PaidOut(rows, z, keys) + (IF z = s /\ k \in keys THEN amount ELSE 0)
      BY <3>1, <3>2, PayoutEnters
    <3> QED BY <3>3 DEF rows, after
  <2> QED BY <2>1, <2>2
<1>11. PayoutKeys \ Ahead \in SUBSET PayoutKeys /\ PayoutKeys \in SUBSET PayoutKeys
  OBVIOUS
<1>12. \A z \in Sellers :
          LET J == {i \in OwnItems(z) : delivery[OrderOf[i]][z] = "released"}
          IN /\ J \in SUBSET Items /\ Released(z) \in SUBSET J
             /\ OwnItems(z) \in SUBSET Items
  BY DEF OwnItems, Released
<1>13. \A z \in Sellers :
          LET J == {i \in OwnItems(z) : delivery[OrderOf[i]][z] = "released"}
          IN /\ PaidOut(payout, z, PayoutKeys \ Ahead) <= Credits(J)
             /\ PaidOut(payout, z, PayoutKeys) <= Credits(OwnItems(z))
             /\ Credits(J) \in Nat /\ Credits(Released(z)) \in Nat
             /\ Credits(Released(z)) <= Credits(J) /\ Credits(OwnItems(z)) \in Nat
  <2> TAKE z \in Sellers
  <2> DEFINE J == {i \in OwnItems(z) : delivery[OrderOf[i]][z] = "released"}
  <2>1. /\ J \in SUBSET Items /\ Released(z) \in SUBSET J /\ OwnItems(z) \in SUBSET Items
    BY <1>12
  <2>2. /\ Debits(z, PayoutKeys \ Ahead) <= Credits(J)
        /\ Debits(z, PayoutKeys) <= Credits(OwnItems(z))
    BY <1>2 DEF PayoutsAreReleased
  <2> HIDE DEF J
  <2>3. /\ Credits(J) \in Nat /\ Credits(Released(z)) \in Nat
        /\ Credits(Released(z)) <= Credits(J) /\ Credits(OwnItems(z)) \in Nat
    BY <1>2, <2>1, CreditTypes
  <2>4. /\ Debits(z, PayoutKeys \ Ahead) = 0 + PaidOut(payout, z, PayoutKeys \ Ahead)
        /\ Debits(z, PayoutKeys) = 0 + PaidOut(payout, z, PayoutKeys)
    BY <1>11, DebitViews
  <2>5. /\ PaidOut(payout, z, PayoutKeys \ Ahead) \in Nat
        /\ PaidOut(payout, z, PayoutKeys) \in Nat
    BY <1>10, <1>11
  <2>6. /\ PaidOut(payout, z, PayoutKeys \ Ahead) <= Credits(J)
        /\ PaidOut(payout, z, PayoutKeys) <= Credits(OwnItems(z))
    BY <2>2, <2>4, <2>5
  <2> QED BY <2>3, <2>6 DEF J
<1>14. /\ amount + PaidOut(payout, s, PayoutKeys \ Ahead) <= Credits(Released(s))
       /\ amount + DebitsOf(refund, s, RefundKeys) + PaidOut(payout, s, PayoutKeys)
             <= Credits(OwnItems(s))
       /\ DebitsOf(refund, s, RefundKeys) \in Nat
  <2>1. PICK c \in Nat, d \in Nat, a \in Nat, b \in Nat, x \in Nat, y \in Nat :
            /\ c = Credits(OwnItems(s)) /\ d = Credits(Released(s))
            /\ a = DebitsOf(refund, s, RefundKeys) /\ x = PaidOut(payout, s, PayoutKeys)
            /\ b = DebitsOf(refund, s, RefundKeys \ Ahead)
            /\ y = PaidOut(payout, s, PayoutKeys \ Ahead)
    <3>1. RefundKeys \in SUBSET RefundKeys /\ RefundKeys \ Ahead \in SUBSET RefundKeys
      OBVIOUS
    <3>2. /\ DebitsOf(refund, s, RefundKeys) \in Nat
          /\ DebitsOf(refund, s, RefundKeys \ Ahead) \in Nat
      BY <1>2, <3>1, DebitTypes
    <3>3. /\ PaidOut(payout, s, PayoutKeys) \in Nat
          /\ PaidOut(payout, s, PayoutKeys \ Ahead) \in Nat
      BY <1>10, <1>11
    <3>4. Credits(OwnItems(s)) \in Nat /\ Credits(Released(s)) \in Nat
      BY <1>13
    <3> QED BY <3>2, <3>3, <3>4
  <2>2. Withdrawable(s) = Least(c - (a + x), d - (b + y))
    BY <2>1, DebitViews DEF Withdrawable, Balance
  <2>3. amount <= c - (a + x) /\ amount <= d - (b + y)
    BY <1>1, <2>1, <2>2 DEF Least
  <2>4. amount + y <= d /\ amount + a + x <= c
    BY <2>1, <2>3
  <2> QED BY <2>1, <2>4
<1>15. PayoutsAreReleased'
  <2> SUFFICES ASSUME NEW z \in Sellers
               PROVE  /\ Debits(z, PayoutKeys \ Ahead)'
                           <= Credits({i \in OwnItems(z) : delivery[OrderOf[i]][z] = "released"})'
                      /\ Debits(z, PayoutKeys)' <= Credits(OwnItems(z))'
    BY DEF PayoutsAreReleased
  <2> DEFINE J == {i \in OwnItems(z) : delivery[OrderOf[i]][z] = "released"}
  <2>1. /\ Debits(z, PayoutKeys \ Ahead)' = 0 + PaidOut(payout', z, PayoutKeys \ Ahead)
        /\ Debits(z, PayoutKeys)' = 0 + PaidOut(payout', z, PayoutKeys)
    BY <1>11, DebitViews
  <2>2. /\ Credits({i \in OwnItems(z) : delivery[OrderOf[i]][z] = "released"})' = Credits(J)
        /\ Credits(OwnItems(z))' = Credits(OwnItems(z))
    BY <1>1 DEF Credits, OwnItems
  <2>3. PICK d \in Nat, c \in Nat, x \in Nat, y \in Nat, w \in Nat :
            /\ d = Credits(J) /\ c = Credits(OwnItems(z)) /\ w = Credits(Released(z))
            /\ x = PaidOut(payout, z, PayoutKeys) /\ y = PaidOut(payout, z, PayoutKeys \ Ahead)
            /\ w <= d /\ x <= c /\ y <= d
    BY <1>10, <1>11, <1>13
  <2>4. CASE z = s
    <3>1. amount + y <= w /\ amount + x <= c
      BY <1>14, <2>3, <2>4
    <3>2. PaidOut(payout', z, PayoutKeys \ Ahead) \in {y, y + amount}
          /\ PaidOut(payout', z, PayoutKeys) \in {x, x + amount}
      BY <1>10, <1>11, <2>3, <2>4
    <3> QED BY <2>1, <2>2, <2>3, <3>1, <3>2
  <2>5. CASE z # s
    <3>1. PaidOut(payout', z, PayoutKeys \ Ahead) = y /\ PaidOut(payout', z, PayoutKeys) = x
      BY <1>10, <1>11, <2>3, <2>5
    <3> QED BY <2>1, <2>2, <2>3, <3>1
  <2> QED BY <2>4, <2>5
<1>16. \A z \in Sellers : InDebt(z)' => InDebt(z)
  <2> TAKE z \in Sellers
  <2>1. /\ Balance(z) = Credits(OwnItems(z))
                         - (DebitsOf(refund, z, RefundKeys) + PaidOut(payout, z, PayoutKeys))
        /\ Balance(z)' = Credits(OwnItems(z))
                         - (DebitsOf(refund, z, RefundKeys) + PaidOut(payout', z, PayoutKeys))
    <3>1. Credits(OwnItems(z))' = Credits(OwnItems(z))
      BY <1>1 DEF Credits, OwnItems
    <3>2. Balance(z)' = Credits(OwnItems(z))' - Debits(z, AllKeys)'
      BY DEF Balance
    <3> QED BY <1>1, <3>1, <3>2, DebitViews DEF Balance
  <2>2. PICK c \in Nat, a \in Nat, x \in Nat :
            /\ c = Credits(OwnItems(z)) /\ a = DebitsOf(refund, z, RefundKeys)
            /\ x = PaidOut(payout, z, PayoutKeys)
    <3>1. DebitsOf(refund, z, RefundKeys) \in Nat
      BY <1>2, DebitTypes
    <3> QED BY <1>10, <1>11, <1>13, <3>1
  <2>3. CASE z = s
    <3>1. amount + a + x <= c
      BY <1>14, <2>2, <2>3
    <3>2. PaidOut(payout', z, PayoutKeys) = x + amount
      BY <1>10, <1>11, <2>2, <2>3
    <3>3. Balance(z)' >= 0
      BY <2>1, <2>2, <3>1, <3>2
    <3> QED BY <3>3, <2>1, <2>2, <3>2 DEF InDebt
  <2>4. CASE z # s
    <3>1. PaidOut(payout', z, PayoutKeys) = x
      BY <1>10, <1>11, <2>2, <2>4
    <3>2. Balance(z)' = Balance(z)
      BY <2>1, <2>2, <3>1
    <3> QED BY <3>2 DEF InDebt
  <2> QED BY <2>3, <2>4
<1> QED
  BY <1>5, <1>6, <1>7, <1>8, <1>9, <1>15, <1>16 DEF RefundsInv

\* Every step keeps the invariant, and only a refund puts a seller into debt.
LEMMA RefundsNext ==
    ASSUME RefundsInv, [Next]_vars
    PROVE  RefundsInv' /\ \A s \in Sellers : InDebt(s)' => InDebt(s) \/ refund' # refund
<1>0. /\ \A i \in Items : Net[i] \in Nat /\ Fees[i] \in Nat /\ Bought[i] \in Nat
      /\ \A i \in Items : Payable[i] \in Nat
      /\ TypeOK
  BY RefundsAssumption DEF RefundsInv
\* A step that leaves debits alone and takes no credit back puts nobody into debt.
<1>1. ASSUME TypeOK', payout' = payout, \A i \in Items : sale[i] <= sale'[i],
             NEW s \in Sellers, InDebt(s)', refund' = refund
      PROVE  InDebt(s)
  <2>1. OwnItems(s) \in SUBSET Items
    BY DEF OwnItems
  <2>2. SumFunctionOnSet(sale, OwnItems(s)) <= SumFunctionOnSet(sale', OwnItems(s))
    BY <1>0, <1>1, <2>1, CreditGrows
  <2>3. /\ SumFunctionOnSet(sale, OwnItems(s)) \in Int
        /\ SumFunctionOnSet(sale', OwnItems(s)) \in Int
    <3>1. IsFiniteSet(OwnItems(s))
      BY <2>1, RefundsAssumption, FS_Subset
    <3>2. (\A i \in OwnItems(s) : sale[i] \in Int) /\ (\A i \in OwnItems(s) : sale'[i] \in Int)
      BY <1>0, <1>1, <2>1 DEF TypeOK, Amounts
    <3> QED BY <3>1, <3>2, SumInt
  <2>4. PICK d \in Nat : d = DebitsOf(refund, s, RefundKeys) + PaidOut(payout, s, PayoutKeys)
    <3>1. DebitsOf(refund, s, RefundKeys) \in Nat /\ PaidOut(payout, s, PayoutKeys) \in Nat
      BY <1>0, DebitTypes
    <3> QED BY <3>1
  <2>5. Debits(s, AllKeys) = d /\ Debits(s, AllKeys)' = d
    BY <1>1, <2>4, DebitViews
  <2>6. /\ Balance(s) = SumFunctionOnSet(sale, OwnItems(s)) - d
        /\ Balance(s)' = SumFunctionOnSet(sale', OwnItems(s)) - d
    <3>1. Credits(OwnItems(s))' = SumFunctionOnSet(sale', OwnItems(s))
      BY DEF Credits, OwnItems
    <3>2. Balance(s)' = Credits(OwnItems(s))' - Debits(s, AllKeys)'
      BY DEF Balance
    <3> QED BY <2>5, <3>1, <3>2 DEF Balance, Credits
  <2>7. Balance(s)' < 0
    BY <1>1 DEF InDebt
  <2> QED BY <2>2, <2>3, <2>4, <2>6, <2>7 DEF InDebt
<1>2. \A i \in Items : sale[i] <= sale[i]
  BY <1>0 DEF TypeOK, Amounts
<1>3. ASSUME NEW o \in Orders, Capture(o)
      PROVE  RefundsInv' /\ \A s \in Sellers : InDebt(s)' => InDebt(s) \/ refund' # refund
  <2>1. RefundsInv' /\ payout' = payout /\ \A i \in Items : sale[i] <= sale'[i]
    BY <1>3, CaptureKeeps
  <2> QED BY <1>1, <2>1 DEF RefundsInv
<1>4. ASSUME NEW o \in Orders, NEW s \in Sellers, Deliver(o, s)
      PROVE  RefundsInv' /\ \A z \in Sellers : InDebt(z)' => InDebt(z) \/ refund' # refund
  <2>1. RefundsInv' /\ payout' = payout /\ sale' = sale
    BY <1>4, DeliverKeeps DEF Deliver
  <2> QED BY <1>1, <1>2, <2>1 DEF RefundsInv
<1>5. ASSUME ReturnNext
      PROVE  RefundsInv' /\ \A s \in Sellers : InDebt(s)' => InDebt(s) \/ refund' # refund
  <2>1. RefundsInv'
    <3>1. ASSUME NEW r \in Returns, NEW o \in Orders, NEW quantity \in UpTo(Bought),
                 Submit(r, o, quantity)
          PROVE  RefundsInv'
      <4>1. quantity \in Amounts
        BY <1>0, UpToType
      <4> QED BY <3>1, <4>1, SubmitKeeps
    <3>2. ASSUME NEW r \in Returns, CancelReturn(r) PROVE RefundsInv'
      BY <3>2, SetReturnKeeps DEF CancelReturn, ReturnStatus
    <3>3. ASSUME NEW r \in Returns, Reject(r) PROVE RefundsInv'
      BY <3>3, SetReturnKeeps DEF Reject, ReturnStatus
    <3>4. ASSUME NEW r \in Returns, ReceiveItem(r) PROVE RefundsInv'
      BY <3>4, SetReturnKeeps DEF ReceiveItem, ReturnStatus
    <3>5. ASSUME NEW r \in Returns, MarkRefunded(r) PROVE RefundsInv'
      <4>1. /\ GivenBack(RefundsOn(r)) >= return[r].total
            /\ SetReturn(r, "item_received", "refunded")
        BY <3>5 DEF MarkRefunded
      <4> QED BY <4>1, SetReturnKeeps DEF ReturnStatus
    <3>6. ASSUME NEW r \in Returns, NEW last \in Items, NEW amount \in 0..Total(Requested(r)),
                 Approve(r, amount, last)
          PROVE  RefundsInv'
      <4>1. Requested(r) \in Amounts
        BY <1>0, RefundsAssumption DEF Requested, TypeOK, ReturnRow, Amounts
      <4>2. Total(Requested(r)) \in Nat
        BY <4>1, TotalType DEF Amounts
      <4>3. amount \in Nat
        BY <4>2
      <4> QED BY <3>6, <4>3, ApproveKeeps
    <3> QED BY <1>5, <3>1, <3>2, <3>3, <3>4, <3>5, <3>6 DEF ReturnNext
  <2>2. payout' = payout /\ sale' = sale
    BY <1>5 DEF ReturnNext, Submit, CancelReturn, Reject, ReceiveItem, MarkRefunded, SetReturn,
                Approve
  <2> QED BY <1>1, <1>2, <2>1, <2>2 DEF RefundsInv
<1>6. ASSUME RefundNext
      PROVE  RefundsInv' /\ \A s \in Sellers : InDebt(s)' => InDebt(s) \/ refund' # refund
  <2>1. PICK k \in RefundKeys, g \in References, r \in Returns,
             merchandise \in UpTo(Net), fees \in UpTo(Fees) :
             PostRefund(k, g, r, merchandise, fees)
    BY <1>6 DEF RefundNext
  <2>2. merchandise \in Amounts /\ fees \in Amounts
    BY <1>0, UpToType
  <2>3. RefundsInv'
    BY <2>1, <2>2, RefundKeeps
  <2>4. /\ refund[k] = NoRefund
        /\ refund' = [refund EXCEPT ![k] = RowOf(g, r, merchandise, fees)]
    BY <2>1, <2>2, PostRefundSums
  <2>5. refund' # refund
    <3>1. refund'[k].return = r
      BY <1>0, <2>4 DEF TypeOK, RowOf
    <3>2. refund[k].return = None
      BY <2>4 DEF NoRefund
    <3> QED BY <3>1, <3>2, RefundsAssumption
  <2> QED BY <2>3, <2>5
<1>7. ASSUME PayoutNext
      PROVE  RefundsInv' /\ \A s \in Sellers : InDebt(s)' => InDebt(s) \/ refund' # refund
  <2>1. PICK k \in PayoutKeys, g \in References, s \in Sellers, amount \in 1..Total(Payable) :
             PostPayout(k, g, s, amount)
    BY <1>7 DEF PayoutNext
  <2>2. Total(Payable) \in Nat
    BY <1>0, TotalType
  <2>3. amount \in Nat
    BY <2>2
  <2> QED BY <2>1, <2>3, PayoutKeeps
<1>8. CASE UNCHANGED vars
  <2>1. /\ UNCHANGED <<payment, delivery, sale, refund, payout>>
        /\ return' = return /\ payout' = payout /\ sale' = sale
    BY <1>8 DEF vars
  <2>2. ReturnsWithinPurchase' /\ RefundsAreOfReturns' /\ return' \in [Returns -> ReturnRow]
    BY <2>1, <1>0 DEF RefundsInv, ReturnsWithinPurchase, RefundsAreOfReturns, TypeOK
  <2>3. ReturnsAreWhole' /\ SharesHold'
    <3>1. \A r \in Returns : Total(return[r].approved)' = Total(return[r].approved)
      BY <2>1 DEF Total
    <3> QED BY <2>1, <3>1, RefundFrame DEF RefundsInv, ReturnsAreWhole, SharesHold
  <2>4. RefundsInv'
    BY <2>1, <2>2, <2>3, ReturnStepKeeps
  <2> QED BY <1>1, <1>2, <2>1, <2>4 DEF RefundsInv
<1> QED
  BY <1>3, <1>4, <1>5, <1>6, <1>7, <1>8 DEF Next

\* So it holds in every state.
LEMMA RefundsInductive == Spec => []RefundsInv
<1>1. Init => RefundsInv
  BY RefundsInit
<1>2. RefundsInv /\ [Next]_vars => RefundsInv'
  BY RefundsNext
<1> QED BY <1>1, <1>2, PTL DEF Spec

\* The refunds on a return give back no more than was approved.
LEMMA ProofSuffices == RefundsInv => RefundedIsProven
<1> SUFFICES ASSUME RefundsInv, NEW r \in Returns
             PROVE  /\ Total(return[r].approved) = return[r].total
                    /\ GivenBack(RefundsOn(r)) <= return[r].total
                    /\ return[r].status = "refunded" => GivenBack(RefundsOn(r)) = return[r].total
  BY DEF RefundedIsProven
<1>1. TypeOK /\ ReturnsAreWhole /\ SharesHold
  BY DEF RefundsInv
<1>2. /\ Total(return[r].approved) = return[r].total /\ return[r].total \in Nat
      /\ return[r].status = "refunded" => GivenBack(RefundsOn(r)) >= return[r].total
  BY <1>1 DEF ReturnsAreWhole, TypeOK, ReturnRow
<1> DEFINE G == [i \in Items |-> Given(RefundsOn(r), i)]
           A == return[r].approved
<1>3. \A i \in Items : G[i] \in Nat /\ A[i] \in Nat /\ G[i] <= A[i]
  <2>1. RefundsOn(r) \in SUBSET RefundKeys /\ refund \in [RefundKeys -> RefundRow]
    BY <1>1 DEF RefundsOn, TypeOK
  <2>2. \A i \in Items : Given(RefundsOn(r), i) \in Nat
    BY <2>1, RefundSumTypes, Views
  <2>3. \A i \in Items : A[i] \in Nat
    BY <1>1 DEF TypeOK, ReturnRow, Amounts
  <2> QED BY <1>1, <2>2, <2>3 DEF SharesHold
<1>4. GivenBack(RefundsOn(r)) = Total(G)
  BY DEF GivenBack
<1> HIDE DEF G, A
<1>5. Total(G) <= Total(A) /\ Total(G) \in Nat
  BY <1>3, RefundsAssumption, SumLeq, SumNat DEF Total
<1> QED BY <1>2, <1>4, <1>5 DEF A

\* What a daily audit may find follows.
LEMMA AuditSuffices == RefundsInv => AuditFindsOnlyDebts
<1> SUFFICES ASSUME RefundsInv PROVE AuditFindsOnlyDebts
  OBVIOUS
<1>1. TypeOK /\ CreditsArePosted /\ RefundsWithinCharge /\ PayoutsAreReleased /\ RefundedIsProven
  BY ProofSuffices DEF RefundsInv
<1>2. \A i \in Items : ~ MissingCredit(i)
  BY <1>1 DEF CreditsArePosted, MissingCredit
<1>3. GivenOf(refund, {}) = 0
  <2>1. \A i \in Items : MerchandiseOf(refund, {}, i) = 0 /\ FeesOf(refund, {}, i) = 0
    BY SumEmpty DEF MerchandiseOf, FeesOf
  <2>2. \A i \in Items :
            [j \in Items |-> MerchandiseOf(refund, {}, j) + FeesOf(refund, {}, j)][i] = 0
    BY <2>1
  <2> QED BY <2>2, RefundsAssumption, SumZero DEF GivenOf
<1>4. \A o \in Orders : ~ RefundedPaymentWithoutEvidence(o)
  <2> SUFFICES ASSUME NEW o \in Orders, payment[o] = "refunded", RefundsOf(o) = {} PROVE FALSE
    BY DEF RefundedPaymentWithoutEvidence
  <2>1. GivenBack(RefundsOf(o)) = 0
    BY <1>3, Views
  <2> QED BY <1>1, <2>1 DEF RefundsWithinCharge
<1>5. \A r \in Returns : RefundedReturnWithoutEvidence(r) => return[r].total = 0
  <2> SUFFICES ASSUME NEW r \in Returns, return[r].status = "refunded", RefundsOn(r) = {}
               PROVE  return[r].total = 0
    BY DEF RefundedReturnWithoutEvidence
  <2>1. GivenBack(RefundsOn(r)) = 0
    BY <1>3, Views
  <2> QED BY <1>1, <2>1 DEF RefundedIsProven
<1>6. \A s \in Sellers : InDebt(s) => Debits(s, PayoutKeys) > 0 /\ Debits(s, RefundKeys) > 0
  <2> SUFFICES ASSUME NEW s \in Sellers, InDebt(s)
               PROVE  Debits(s, PayoutKeys) > 0 /\ Debits(s, RefundKeys) > 0
    OBVIOUS
  <2> DEFINE D == [i \in OwnItems(s) |-> Debited(i)]
  <2>1. OwnItems(s) \in SUBSET Items /\ IsFiniteSet(OwnItems(s))
    BY RefundsAssumption, FS_Subset DEF OwnItems
  <2>2. \A i \in OwnItems(s) : D[i] \in Int /\ sale[i] \in Int /\ D[i] <= sale[i]
    <3> TAKE i \in OwnItems(s)
    <3>1. i \in Items
      BY <2>1
    <3>2. Debited(i) \in Nat
      BY <1>1, <3>1, RefundSumTypes, Views DEF TypeOK
    <3>3. sale[i] \in Nat /\ Debited(i) <= sale[i]
      BY <1>1, <3>1 DEF TypeOK, Amounts, CreditsArePosted
    <3> QED BY <3>2, <3>3
  <2>3. DebitsOf(refund, s, RefundKeys) = SumFunctionOnSet(D, OwnItems(s))
    BY <1>1, DebitTypes
  <2> HIDE DEF D
  <2>4. SumFunctionOnSet(D, OwnItems(s)) <= SumFunctionOnSet(sale, OwnItems(s))
    BY <2>1, <2>2, SumLeq
  <2>5. PICK c \in Nat, a \in Nat, x \in Nat :
            /\ c = Credits(OwnItems(s)) /\ a = DebitsOf(refund, s, RefundKeys)
            /\ x = PaidOut(payout, s, PayoutKeys)
    <3>1. Credits(OwnItems(s)) \in Nat
      BY <1>1, <2>1, CreditTypes
    <3>2. DebitsOf(refund, s, RefundKeys) \in Nat /\ PaidOut(payout, s, PayoutKeys) \in Nat
      BY <1>1, DebitTypes
    <3> QED BY <3>1, <3>2
  <2>6. a <= c
    BY <2>3, <2>4, <2>5 DEF Credits
  <2>7. Debits(s, PayoutKeys) = x /\ Debits(s, RefundKeys) = a /\ Debits(s, AllKeys) = a + x
    BY <2>5, DebitViews
  <2>8. x <= c
    BY <1>1, <2>5, <2>7 DEF PayoutsAreReleased
  <2>9. c - (a + x) < 0
    BY <2>5, <2>7 DEF InDebt, Balance
  <2> QED BY <2>5, <2>6, <2>7, <2>8, <2>9
<1> QED BY <1>2, <1>4, <1>5, <1>6 DEF AuditFindsOnlyDebts

----------------------------------------------------------------------------
(* The theorems. *)

\* A seller's credit for an item is given once, and taken back to the last cent when all
\* of the item is refunded, in whatever parts and however each part is rounded.
THEOREM CreditsReturn == Spec => []CreditsComeBackWhole
<1>1. RefundsInv => CreditsComeBackWhole
  BY DEF RefundsInv, CreditsComeBackWhole
<1> QED BY <1>1, RefundsInductive, PTL

\* Over all returns and refunds together, no more units and no more money come back than
\* were bought and paid, and a payment counts as refunded exactly when all is back.
THEOREM ReturnsStayWithinSale == Spec => []ReturnsWithinSale
<1>1. RefundsInv => ReturnsWithinSale
  BY DEF RefundsInv, ReturnsWithinSale
<1> QED BY <1>1, RefundsInductive, PTL

\* A return is closed as refunded only with confirmed refunds of exactly what was approved,
\* and the shares of the items, rounded down, add up to it.
THEOREM RefundsAreProven == Spec => []RefundedIsProven
  BY ProofSuffices, RefundsInductive, PTL

\* Payouts stay within the credits past the hold period, but for those dated ahead, and
\* all of them within what the seller was credited.
THEOREM PayoutsStayReleased == Spec => []PayoutsAreReleased
<1>1. RefundsInv => PayoutsAreReleased
  BY DEF RefundsInv
<1> QED BY <1>1, RefundsInductive, PTL

\* An audit only finds debts that have a refund after a payout behind them, and no payout
\* ever leads into debt.
THEOREM AuditIsExplained == Spec => DebtsAreExplained
<1>1. RefundsInv /\ [Next]_vars
        => [/\ AuditFindsOnlyDebts'
            /\ \A s \in Sellers : InDebt(s)' => InDebt(s) \/ refund' # refund]_vars
  <2> SUFFICES ASSUME RefundsInv, [Next]_vars
               PROVE  /\ AuditFindsOnlyDebts'
                      /\ \A s \in Sellers : InDebt(s)' => InDebt(s) \/ refund' # refund
    OBVIOUS
  <2>1. RefundsInv' /\ \A s \in Sellers : InDebt(s)' => InDebt(s) \/ refund' # refund
    BY RefundsNext
  <2>2. RefundsInv' => AuditFindsOnlyDebts'
    BY AuditSuffices, PTL
  <2> QED BY <2>1, <2>2
<1> QED BY <1>1, RefundsInductive, PTL DEF Spec, DebtsAreExplained
=============================================================================
