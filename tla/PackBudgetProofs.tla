--------------------------- MODULE PackBudgetProofs ---------------------------
(***************************************************************************)
(* Proofs about PackBudget, for every artifact, every budget and whatever  *)
(* the ledger of the session holds: a budget takes what it may and no more *)
(* than it has to, and the tokens it reports as saved are so.              *)
(***************************************************************************)
EXTENDS PackBudget, ContextLedgerProofs, FiniteSetTheorems

----------------------------------------------------------------------------
(* Totals: as many units as there are tokens *)

Units(tokens) == UNION {{x} \X (1 .. tokens[x]) : x \in DOMAIN tokens}

\* Finitely many numbers of units are finitely many.
LEMMA UnitsAreFinite ==
    ASSUME NEW D, IsFiniteSet(D), NEW tokens \in [D -> Nat]
    PROVE  /\ IsFiniteSet(Units(tokens))
           /\ Total(tokens) = Cardinality(Units(tokens))
           /\ Total(tokens) \in Nat
  <1> DEFINE unitsOf == [x \in D |-> {x} \X (1 .. tokens[x])]
             parts == {{x} \X (1 .. tokens[x]) : x \in D}
  <1>1. IsFiniteSet(parts)
    <2>1. unitsOf \in Surjection(D, parts)
      BY DEF Surjection
    <2> HIDE DEF unitsOf, parts
    <2> QED BY <2>1, FS_Surjection
  <1>2. \A part \in parts : IsFiniteSet(part)
    <2> SUFFICES ASSUME NEW x \in D
                 PROVE  IsFiniteSet({x} \X (1 .. tokens[x]))
      OBVIOUS
    <2>1. IsFiniteSet({x}) /\ IsFiniteSet(1 .. tokens[x])
      <3>1. tokens[x] \in Int /\ 1 \in Int
        OBVIOUS
      <3>2. IsFiniteSet(1 .. tokens[x])
        BY <3>1, FS_Interval
      <3>3. IsFiniteSet({x})
        BY FS_Singleton
      <3> QED BY <3>2, <3>3
    <2> QED BY <2>1, FS_Product
  <1>3. Units(tokens) = UNION parts
    BY DEF Units
  <1> HIDE DEF parts
  <1>4. IsFiniteSet(Units(tokens))
    BY <1>1, <1>2, <1>3, FS_UNION
  <1>5. Total(tokens) = Cardinality(Units(tokens))
    BY DEF Total, Units
  <1> QED BY <1>4, <1>5, FS_CardinalityType

\* A unit is a pair of what it belongs to and its number.
LEMMA UnitsByPairs ==
    ASSUME NEW D, NEW tokens \in [D -> Nat]
    PROVE  \A unit : unit \in Units(tokens) <=>
              \E x \in D : \E k \in 1 .. tokens[x] : unit = <<x, k>>
  BY DEF Units

\* The total of two parts that share nothing is the sum of their totals.
LEMMA TotalAdds ==
    ASSUME NEW A, IsFiniteSet(A), NEW B, IsFiniteSet(B), A \cap B = {},
           NEW f \in [A -> Nat], NEW g \in [B -> Nat], NEW h \in [A \cup B -> Nat],
           \A x \in A : h[x] = f[x], \A x \in B : h[x] = g[x]
    PROVE  Total(h) = Total(f) + Total(g)
  <1>1. IsFiniteSet(A \cup B)
    BY FS_Union
  <1>2. /\ IsFiniteSet(Units(f)) /\ Total(f) = Cardinality(Units(f))
        /\ IsFiniteSet(Units(g)) /\ Total(g) = Cardinality(Units(g))
        /\ Total(h) = Cardinality(Units(h))
        /\ Total(f) \in Nat /\ Total(g) \in Nat
    BY <1>1, UnitsAreFinite
  <1>3. Units(h) = Units(f) \cup Units(g)
    <2>1. \A unit : unit \in Units(f) <=> \E x \in A : \E k \in 1 .. f[x] : unit = <<x, k>>
      BY UnitsByPairs
    <2>2. \A unit : unit \in Units(g) <=> \E x \in B : \E k \in 1 .. g[x] : unit = <<x, k>>
      BY UnitsByPairs
    <2>3. \A unit : unit \in Units(h) <=>
              \E x \in A \cup B : \E k \in 1 .. h[x] : unit = <<x, k>>
      BY UnitsByPairs
    <2> QED BY <2>1, <2>2, <2>3
  <1>4. Units(f) \cap Units(g) = {}
    <2>1. \A unit \in Units(f) : unit[1] \in A
      BY UnitsByPairs
    <2>2. \A unit \in Units(g) : unit[1] \in B
      BY UnitsByPairs
    <2> QED BY <2>1, <2>2
  <1>5. Cardinality(Units(f) \cup Units(g))
          = Cardinality(Units(f)) + Cardinality(Units(g)) - Cardinality(Units(f) \cap Units(g))
    BY <1>2, FS_Union
  <1>6. Cardinality(Units(f) \cap Units(g)) = 0
    BY <1>4, FS_EmptySet
  <1> QED BY <1>2, <1>3, <1>5, <1>6

\* The total of one number is that number.
LEMMA TotalOfEqual ==
    ASSUME NEW D, IsFiniteSet(D), NEW n \in Nat, NEW tokens, tokens = [x \in D |-> n]
    PROVE  Total(tokens) = Cardinality(D) * n
  <1>1. tokens \in [D -> Nat]
    OBVIOUS
  <1>2. Units(tokens) = D \X (1 .. n)
    BY DEF Units
  <1>3. IsFiniteSet(1 .. n) /\ Cardinality(1 .. n) = n
    BY FS_Interval
  <1>4. Cardinality(D \X (1 .. n)) = Cardinality(D) * n
    BY <1>3, FS_Product
  <1> QED BY <1>1, <1>2, <1>4, UnitsAreFinite

----------------------------------------------------------------------------
(* Orders of finite sets *)

StrictOrder(order, items) ==
    /\ \A x \in items : <<x, x>> \notin order
    /\ \A x, y, z \in items : <<x, y>> \in order /\ <<y, z>> \in order => <<x, z>> \in order
    /\ \A x, y \in items : x = y \/ <<x, y>> \in order \/ <<y, x>> \in order

\* Among subsets of a finite set there is one that contains no other of them.
LEMMA HasLeast ==
    ASSUME NEW S, IsFiniteSet(S), NEW B, B \subseteq SUBSET S, B # {}
    PROVE  \E P \in B : \A Q \in B : Q \subseteq P => Q = P
  <1>1. IsWellFoundedOn(StrictSubsetOrdering(S), SUBSET S)
    BY FS_StrictSubsetOrderingWellFounded, FS_FiniteSubsetsOfFinite
  <1>2. \E P \in B : \A Q \in B : ~ (<<Q, P>> \in StrictSubsetOrdering(S))
    BY <1>1, WFMin
  <1>3. PICK P \in B : \A Q \in B : <<Q, P>> \notin StrictSubsetOrdering(S)
    BY <1>2
  <1>4. \A Q \in B : Q \subseteq P => Q = P
    BY <1>3 DEF StrictSubsetOrdering
  <1> QED BY <1>4

\* What comes first in an order.
LEMMA HasFirst ==
    ASSUME NEW items, IsFiniteSet(items), items # {},
           NEW order, StrictOrder(order, items)
    PROVE  \E x \in items : \A y \in items : y = x \/ <<x, y>> \in order
  <1> DEFINE before(x) == {y \in items : <<y, x>> \in order}
             befores == {before(x) : x \in items}
  <1>1. befores \subseteq SUBSET items /\ befores # {}
    OBVIOUS
  <1>2. PICK P \in befores : \A Q \in befores : Q \subseteq P => Q = P
    <2> HIDE DEF befores
    <2> QED BY <1>1, HasLeast
  <1>3. PICK x \in items : P = before(x)
    BY <1>2
  <1>4. ASSUME NEW y \in items, <<y, x>> \in order
        PROVE  FALSE
    <2>1. before(y) \subseteq before(x)
      BY <1>4 DEF StrictOrder
    <2>2. y \in before(x) /\ y \notin before(y)
      BY <1>4 DEF StrictOrder
    <2> QED BY <1>2, <1>3, <2>1, <2>2
  <1> QED BY <1>4 DEF StrictOrder

\* What comes last in an order.
LEMMA HasLast ==
    ASSUME NEW items, IsFiniteSet(items), items # {},
           NEW order, StrictOrder(order, items)
    PROVE  \E x \in items : \A y \in items : y = x \/ <<y, x>> \in order
  <1> DEFINE reversed == {pair \in items \X items : <<pair[2], pair[1]>> \in order}
  <1>1. \A x, y \in items : <<x, y>> \in reversed <=> <<y, x>> \in order
    OBVIOUS
  <1> HIDE DEF reversed
  <1>2. StrictOrder(reversed, items)
    BY <1>1 DEF StrictOrder
  <1>3. PICK x \in items : \A y \in items : y = x \/ <<x, y>> \in reversed
    BY <1>2, HasFirst
  <1> QED BY <1>1, <1>3

\* Part of an order is an order.
LEMMA OrderOfPart ==
    ASSUME NEW order, NEW items, NEW part \in SUBSET items, StrictOrder(order, items)
    PROVE  StrictOrder(order, part)
  BY DEF StrictOrder

----------------------------------------------------------------------------
(* Choosing what fits *)

RightChoice(shape, items, budget, chosen) ==
    \A item \in items \ RequiredItems(items) :
        item \in chosen <=> Fits(shape, KeptBefore(items, chosen, item), item, budget)

\* Going through the optional items in their order decides each of them once: there is
\* a choice that keeps exactly those that fit with what is kept before them.
LEMMA ChoiceExists ==
    ASSUME NEW shape, NEW items, IsFiniteSet(items), NEW budget,
           StrictOrder(KeepOrder(items), items \ RequiredItems(items))
    PROVE  \E chosen \in SUBSET (items \ RequiredItems(items)) :
              RightChoice(shape, items, budget, chosen)
  <1> DEFINE optional == items \ RequiredItems(items)
             order == KeepOrder(items)
             fits(chosen, item) == Fits(shape, KeptBefore(items, chosen, item), item, budget)
             Decides(chosen, rest) ==
                 \A item \in optional \ rest : item \in chosen <=> fits(chosen, item)
             Rests == {rest \in SUBSET optional :
                         /\ \A x \in rest, y \in optional : <<x, y>> \in order => y \in rest
                         /\ \E chosen \in SUBSET (optional \ rest) : Decides(chosen, rest)}
  <1>1. IsFiniteSet(optional)
    BY FS_Difference
  <1>2. StrictOrder(order, optional)
    OBVIOUS
  <1>3. \A chosen, other, item :
            (\A x \in (chosen \ other) \cup (other \ chosen) : <<x, item>> \notin order)
               => (fits(chosen, item) <=> fits(other, item))
    <2> SUFFICES ASSUME NEW chosen, NEW other, NEW item,
                        \A x \in (chosen \ other) \cup (other \ chosen) :
                            <<x, item>> \notin order
                 PROVE  fits(chosen, item) <=> fits(other, item)
      OBVIOUS
    <2>1. KeptBefore(items, chosen, item) = KeptBefore(items, other, item)
      BY DEF KeptBefore
    <2> QED BY <2>1
  <1> HIDE DEF fits, optional, order
  <1>4. Rests \subseteq SUBSET optional
    OBVIOUS
  <1>5. optional \in Rests
    <2>1. Decides({}, optional)
      OBVIOUS
    <2> QED BY <2>1
  <1>6. PICK rest \in Rests : \A Q \in Rests : Q \subseteq rest => Q = rest
    <2> HIDE DEF Rests
    <2> QED BY <1>1, <1>4, <1>5, HasLeast
  <1>7. PICK chosen \in SUBSET (optional \ rest) : Decides(chosen, rest)
    BY <1>6
  <1>8. rest = {}
    <2> SUFFICES ASSUME rest # {}
                 PROVE  FALSE
      OBVIOUS
    <2>1. rest \subseteq optional /\ IsFiniteSet(rest)
      BY <1>1, <1>6, FS_Subset
    <2>2. PICK x \in rest : \A y \in rest : y = x \/ <<x, y>> \in order
      BY <1>2, <2>1, HasFirst, OrderOfPart
    <2> DEFINE now == IF fits(chosen, x) THEN chosen \cup {x} ELSE chosen
               left == rest \ {x}
    <2>3. \A z \in left, y \in optional : <<z, y>> \in order => y \in left
      <3> SUFFICES ASSUME NEW z \in left, NEW y \in optional, <<z, y>> \in order
                   PROVE  y \in left
        OBVIOUS
      <3>1. y \in rest
        BY <1>6
      <3>2. <<x, z>> \in order
        BY <2>2
      <3>3. <<x, y>> \in order
        BY <1>2, <2>1, <3>2 DEF StrictOrder
      <3>4. y # x
        BY <1>2, <2>1, <3>3 DEF StrictOrder
      <3> QED BY <3>1, <3>4
    <2>4. now \in SUBSET (optional \ left)
      BY <2>1, <1>7
    <2>5. \A item : (item = x \/ item \in optional \ rest) =>
              (fits(chosen, item) <=> fits(now, item))
      <3> SUFFICES ASSUME NEW item, item = x \/ item \in optional \ rest
                   PROVE  fits(chosen, item) <=> fits(now, item)
        OBVIOUS
      <3>1. <<x, item>> \notin order
        BY <1>2, <1>6, <2>1 DEF StrictOrder
      <3>2. \A y \in (chosen \ now) \cup (now \ chosen) : <<y, item>> \notin order
        BY <3>1
      <3> HIDE DEF now
      <3> QED BY <1>3, <3>2
    <2>6. Decides(now, left)
      <3> SUFFICES ASSUME NEW item \in optional \ left
                   PROVE  item \in now <=> fits(now, item)
        OBVIOUS
      <3>1. item = x \/ item \in optional \ rest
        OBVIOUS
      <3>2. x \notin chosen
        BY <1>7
      <3>3. item \in now <=> fits(chosen, item)
        BY <1>7, <3>1, <3>2
      <3> HIDE DEF now, left
      <3> QED BY <2>5, <3>1, <3>3
    <2>7. left \in Rests
      <3> HIDE DEF now
      <3>1. left \in SUBSET optional
        BY <2>1
      <3> HIDE DEF left, Decides
      <3> QED BY <2>3, <2>4, <2>6, <3>1
    <2>8. left \subseteq rest /\ left # rest
      OBVIOUS
    <2> QED BY <1>6, <2>7, <2>8
  <1>9. chosen \in SUBSET optional /\ Decides(chosen, {})
    BY <1>7, <1>8
  <1> QED BY <1>9 DEF optional, fits, RightChoice

\* And only one: two choices that first differed at some item would both have kept the
\* same items before it, so the item would fit in both or in none.
LEMMA ChoiceIsUnique ==
    ASSUME NEW shape, NEW items, IsFiniteSet(items), NEW budget,
           StrictOrder(KeepOrder(items), items \ RequiredItems(items)),
           NEW A \in SUBSET (items \ RequiredItems(items)),
           RightChoice(shape, items, budget, A),
           NEW B \in SUBSET (items \ RequiredItems(items)),
           RightChoice(shape, items, budget, B)
    PROVE  A = B
  <1> DEFINE differ == (A \ B) \cup (B \ A)
  <1>1. SUFFICES ASSUME differ # {}
                 PROVE  FALSE
    OBVIOUS
  <1>2. differ \in SUBSET (items \ RequiredItems(items))
    OBVIOUS
  <1>3. IsFiniteSet(differ) /\ StrictOrder(KeepOrder(items), differ)
    BY <1>2, FS_Difference, FS_Subset, OrderOfPart
  <1>4. PICK x \in differ : \A y \in differ : y = x \/ <<x, y>> \in KeepOrder(items)
    <2> HIDE DEF differ
    <2> QED BY <1>1, <1>3, HasFirst
  <1>5. \A y \in differ : <<y, x>> \notin KeepOrder(items)
    <2> HIDE DEF differ
    <2> QED BY <1>3, <1>4 DEF StrictOrder
  <1>6. KeptBefore(items, A, x) = KeptBefore(items, B, x)
    BY <1>5 DEF KeptBefore
  <1>7. x \in A <=> x \in B
    BY <1>2, <1>4, <1>6 DEF RightChoice
  <1> QED BY <1>4, <1>7

\* What a budget keeps: the required items and the optional ones that fit.
LEMMA KeptWithin ==
    ASSUME NEW shape, NEW items, IsFiniteSet(items), NEW budget,
           StrictOrder(KeepOrder(items), items \ RequiredItems(items))
    PROVE  \E chosen \in SUBSET (items \ RequiredItems(items)) :
              /\ KeepWithin(shape, items, budget) = RequiredItems(items) \cup chosen
              /\ RightChoice(shape, items, budget, chosen)
  <1> DEFINE choice == CHOOSE chosen \in SUBSET (items \ RequiredItems(items)) :
                           RightChoice(shape, items, budget, chosen)
  <1>1. KeepWithin(shape, items, budget) = RequiredItems(items) \cup choice
    BY DEF KeepWithin, RightChoice
  <1>2. /\ choice \in SUBSET (items \ RequiredItems(items))
        /\ RightChoice(shape, items, budget, choice)
    BY ChoiceExists
  <1> HIDE DEF choice
  <1> QED BY <1>1, <1>2

----------------------------------------------------------------------------
(* The tokens of a pack *)

\* Every item has a length.
Measured(shape, items) == \A item \in items : ItemTokens(shape, item) \in Nat

\* A pack of finitely many items has a length.
LEMMA PackHasTokens ==
    ASSUME NEW shape, NEW items, IsFiniteSet(items), Measured(shape, items)
    PROVE  PackTokens(shape, items) \in Nat
  <1> DEFINE tokens == [item \in items |-> ItemTokens(shape, item)]
  <1>1. tokens \in [items -> Nat]
    BY DEF Measured
  <1>2. PackTokens(shape, items) = Total(tokens)
    BY DEF PackTokens
  <1> HIDE DEF tokens
  <1> QED BY <1>1, <1>2, UnitsAreFinite

\* The tokens of two packs that share nothing add up.
LEMMA PacksAdd ==
    ASSUME NEW shape, NEW A, IsFiniteSet(A), NEW B, IsFiniteSet(B), A \cap B = {},
           Measured(shape, A), Measured(shape, B)
    PROVE  PackTokens(shape, A \cup B) = PackTokens(shape, A) + PackTokens(shape, B)
  <1> DEFINE f == [item \in A |-> ItemTokens(shape, item)]
             g == [item \in B |-> ItemTokens(shape, item)]
             h == [item \in A \cup B |-> ItemTokens(shape, item)]
  <1>1. f \in [A -> Nat] /\ g \in [B -> Nat] /\ h \in [A \cup B -> Nat]
    BY DEF Measured
  <1>2. (\A x \in A : h[x] = f[x]) /\ (\A x \in B : h[x] = g[x])
    OBVIOUS
  <1>3. /\ PackTokens(shape, A) = Total(f)
        /\ PackTokens(shape, B) = Total(g)
        /\ PackTokens(shape, A \cup B) = Total(h)
    BY DEF PackTokens
  <1> HIDE DEF f, g, h
  <1>4. Total(h) = Total(f) + Total(g)
    BY <1>1, <1>2, TotalAdds
  <1> QED BY <1>3, <1>4

\* The tokens of a pack of one item are its tokens.
LEMMA PackOfOne ==
    ASSUME NEW shape, NEW item, ItemTokens(shape, item) \in Nat
    PROVE  PackTokens(shape, {item}) = ItemTokens(shape, item)
  <1> DEFINE tokens == [x \in {item} |-> ItemTokens(shape, x)]
             n == ItemTokens(shape, item)
  <1>1. tokens = [x \in {item} |-> n]
    OBVIOUS
  <1>2. IsFiniteSet({item}) /\ Cardinality({item}) = 1
    BY FS_Singleton
  <1>3. PackTokens(shape, {item}) = Total(tokens)
    BY DEF PackTokens
  <1> HIDE DEF tokens, n
  <1>4. n \in Nat
    BY DEF n
  <1>5. Total(tokens) = Cardinality({item}) * n
    BY <1>1, <1>2, <1>4, TotalOfEqual
  <1>6. Total(tokens) = n
    BY <1>2, <1>4, <1>5
  <1> QED BY <1>3, <1>6 DEF n

\* A larger pack has no fewer tokens.
LEMMA PacksGrow ==
    ASSUME NEW shape, NEW B, IsFiniteSet(B), NEW A \in SUBSET B, Measured(shape, B)
    PROVE  PackTokens(shape, A) <= PackTokens(shape, B)
  <1> DEFINE C == B \ A
  <1>1. IsFiniteSet(A) /\ IsFiniteSet(C)
    BY FS_Subset, FS_Difference
  <1>2. Measured(shape, A) /\ Measured(shape, C)
    BY DEF Measured
  <1>3. A \cap C = {} /\ A \cup C = B
    OBVIOUS
  <1> HIDE DEF C
  <1>4. PackTokens(shape, B) = PackTokens(shape, A) + PackTokens(shape, C)
    BY <1>1, <1>2, <1>3, PacksAdd
  <1>5. PackTokens(shape, A) \in Nat /\ PackTokens(shape, C) \in Nat
    BY <1>1, <1>2, PackHasTokens
  <1> QED BY <1>4, <1>5

\* The tokens of a pack with one item more.
LEMMA PackWithOneMore ==
    ASSUME NEW shape, NEW A, IsFiniteSet(A), NEW item, item \notin A,
           Measured(shape, A), ItemTokens(shape, item) \in Nat
    PROVE  PackTokens(shape, A \cup {item}) = PackTokens(shape, A) + ItemTokens(shape, item)
  <1>1. IsFiniteSet({item}) /\ A \cap {item} = {}
    BY FS_Singleton
  <1>2. Measured(shape, {item})
    BY DEF Measured
  <1>3. PackTokens(shape, A \cup {item}) = PackTokens(shape, A) + PackTokens(shape, {item})
    BY <1>1, <1>2, PacksAdd, Zenon
  <1> QED BY <1>3, PackOfOne

----------------------------------------------------------------------------
(* What a budget makes of a pack *)

\* What is kept within a budget that has room for the required items: all of them, no
\* more than the budget, and nothing that would still fit or is worth more and no longer
\* than something kept is left out.
LEMMA PrunedWithin ==
    ASSUME NEW shape, NEW items, IsFiniteSet(items), Measured(shape, items),
           NEW budget \in Nat,
           StrictOrder(KeepOrder(items), items \ RequiredItems(items)),
           PackTokens(shape, RequiredItems(items)) <= budget,
           NEW kept, kept = KeepWithin(shape, items, budget)
    PROVE  /\ kept \in SUBSET items
           /\ RequiredItems(items) \subseteq kept
           /\ PackTokens(shape, kept) <= budget
           /\ \A item \in items \ kept :
                 /\ PackTokens(shape, kept) + ItemTokens(shape, item) > budget
                 /\ \A other \in kept :
                       \/ IsRequired(other)
                       \/ <<item, other>> \notin KeepOrder(items)
                       \/ ItemTokens(shape, other) < ItemTokens(shape, item)
  <1> DEFINE required == RequiredItems(items)
             optional == items \ required
             order == KeepOrder(items)
  <1>1. PICK chosen \in SUBSET optional :
            /\ kept = required \cup chosen
            /\ RightChoice(shape, items, budget, chosen)
    BY KeptWithin
  <1> DEFINE upTo(item) == KeptBefore(items, chosen, item)
  <1>2. \A item \in optional :
            item \in chosen <=>
                PackTokens(shape, upTo(item)) + ItemTokens(shape, item) <= budget
    BY <1>1 DEF RightChoice, Fits
  <1>3. required \subseteq items
    BY DEF RequiredItems
  <1>4. kept \in SUBSET items
    BY <1>1, <1>3
  <1>5. \A item : upTo(item) \in SUBSET kept
    BY <1>1 DEF KeptBefore
  <1>6. /\ IsFiniteSet(kept) /\ IsFiniteSet(chosen)
        /\ Measured(shape, kept)
        /\ \A item : IsFiniteSet(upTo(item)) /\ Measured(shape, upTo(item))
    BY <1>1, <1>4, <1>5, FS_Subset DEF Measured
  <1>7. PackTokens(shape, kept) \in Nat
    BY <1>6, PackHasTokens
  <1>8. \A item : /\ PackTokens(shape, upTo(item)) \in Nat
                  /\ PackTokens(shape, upTo(item)) <= PackTokens(shape, kept)
    BY <1>5, <1>6, PackHasTokens, PacksGrow
  <1>9. \A item \in items : ItemTokens(shape, item) \in Nat
    BY DEF Measured
  <1>10. StrictOrder(order, chosen)
    BY <1>1, OrderOfPart
  <1>11. \A item : upTo(item) = required \cup {other \in chosen : <<other, item>> \in order}
    BY DEF KeptBefore
  <1> HIDE DEF upTo, order
  <1>12. PackTokens(shape, kept) <= budget
    <2>1. CASE chosen = {}
      BY <1>1, <2>1
    <2>2. CASE chosen # {}
      <3>1. PICK x \in chosen : \A y \in chosen : y = x \/ <<y, x>> \in order
        BY <1>6, <1>10, <2>2, HasLast
      <3>2. x \notin upTo(x) /\ kept = upTo(x) \cup {x}
        <4>1. x \notin required /\ <<x, x>> \notin order
          BY <1>1, <1>10 DEF StrictOrder
        <4>2. chosen = {other \in chosen : <<other, x>> \in order} \cup {x}
          BY <3>1, <4>1
        <4> QED BY <1>1, <1>11, <4>1, <4>2
      <3>3. x \in optional
        BY <1>1
      <3>4. PackTokens(shape, upTo(x) \cup {x})
              = PackTokens(shape, upTo(x)) + ItemTokens(shape, x)
        BY <1>6, <1>9, <3>2, <3>3, PackWithOneMore
      <3>5. PackTokens(shape, upTo(x)) + ItemTokens(shape, x) <= budget
        BY <1>2, <3>3
      <3> QED BY <3>2, <3>4, <3>5
    <2> QED BY <2>1, <2>2
  <1>13. ASSUME NEW item \in items \ kept
         PROVE  /\ item \in optional /\ item \notin chosen
                /\ PackTokens(shape, upTo(item)) + ItemTokens(shape, item) > budget
    BY <1>1, <1>2, <1>8, <1>9
  <1>14. ASSUME NEW item \in items \ kept
         PROVE  PackTokens(shape, kept) + ItemTokens(shape, item) > budget
    BY <1>7, <1>8, <1>9, <1>13
  <1>15. ASSUME NEW item \in items \ kept, NEW other \in kept,
                ~IsRequired(other), <<item, other>> \in order
         PROVE  ItemTokens(shape, other) < ItemTokens(shape, item)
    <2>1. other \in chosen
      BY <1>1, <1>15 DEF RequiredItems
    <2>2. other \in optional /\ item \in optional /\ item \notin chosen
      BY <1>1, <1>13, <1>15, <2>1
    <2>3. upTo(item) \in SUBSET upTo(other)
      <3>1. \A z \in chosen : <<z, item>> \in order => <<z, other>> \in order
        BY <1>1, <1>15, <2>2 DEF StrictOrder, order
      <3> QED BY <1>11, <3>1
    <2>4. PackTokens(shape, upTo(item)) <= PackTokens(shape, upTo(other))
      BY <1>6, <2>3, PacksGrow
    <2>5. PackTokens(shape, upTo(other)) + ItemTokens(shape, other) <= budget
      BY <1>2, <2>1, <2>2
    <2>6. PackTokens(shape, upTo(item)) + ItemTokens(shape, item) > budget
      BY <1>13, <1>15
    <2> QED BY <1>8, <1>9, <2>2, <2>4, <2>5, <2>6
  <1> HIDE DEF optional, required
  <1> QED BY <1>1, <1>4, <1>12, <1>14, <1>15 DEF required, order

----------------------------------------------------------------------------
(* The pack of the next build *)

\* A priority is a number, whatever the section.
LEMMA PriorityIsNatural ==
    ASSUME NEW x
    PROVE  KeepPriority(x) \in Nat
  BY DEF KeepPriority

\* The invalidations and the diff of the next build: finitely many, all with a length.
LEMMA NextPackIsFinite ==
    ASSUME NEW s, NEW shape \in BudgetShapes, NEW reset,
           IsFiniteSet(sent), sent \subseteq SentRow
    PROVE  LET n == Len(artifacts) + 1
               told == InvalidationItems(n, StalePrior(s, shape, reset))
               diff == DiffItems(n, shape, CurrentPrior(s, shape, reset))
           IN  /\ NextPack(s, shape, reset) = told \cup diff
               /\ IsFiniteSet(told) /\ IsFiniteSet(diff)
               /\ Measured(shape, told) /\ Measured(shape, diff)
               /\ \A item \in told : item.state = "INVALIDATE_PREVIOUS"
               /\ \A item \in diff :
                     /\ item.section \in DOMAIN shape.sections
                     /\ item.state \in SentStates \cup {"OMIT_UNCHANGED"}
                     /\ item.state = DiffState(shape.sections[item.section], item.previous)
  <1> DEFINE n == Len(artifacts) + 1
             stale == StalePrior(s, shape, reset)
             current == CurrentPrior(s, shape, reset)
             told == InvalidationItems(n, stale)
             diff == DiffItems(n, shape, current)
  <1>1. NextPack(s, shape, reset) = told \cup diff
    BY DEF NextPack
  <1>2. IsFiniteSet(told)
    <2>1. stale \in SUBSET sent
      BY DEF StalePrior, LatestActive, ActiveSent
    <2>2. IsFiniteSet(stale)
      BY <2>1, FS_Subset
    <2> DEFINE itemOf == [row \in stale |->
                            [artifact |-> n, section |-> row.section, previous |-> row,
                             state |-> "INVALIDATE_PREVIOUS"]]
    <2> HIDE DEF stale
    <2>3. itemOf \in Surjection(stale, told)
      BY DEF Surjection, InvalidationItems
    <2> HIDE DEF itemOf, told
    <2> QED BY <2>2, <2>3, FS_Surjection
  <1>3. IsFiniteSet(diff)
    <2>1. IsFiniteSet(DOMAIN shape.sections)
      BY SectionsAreFinite
    <2> DEFINE xs == DOMAIN shape.sections
               itemOf == [x \in xs |->
                            [artifact |-> n, section |-> x, previous |-> Previous(current, x),
                             state |-> DiffState(shape.sections[x], Previous(current, x))]]
    <2> HIDE DEF current
    <2>2. itemOf \in Surjection(xs, diff)
      BY DEF Surjection, DiffItems
    <2> HIDE DEF itemOf, diff
    <2> QED BY <2>1, <2>2, FS_Surjection
  <1>9. \A item \in told : /\ item.previous.state \in SentStates
                            /\ item.section \in Sections
    <2>1. stale \subseteq SentRow
      BY DEF StalePrior, LatestActive, ActiveSent
    <2> HIDE DEF stale, n
    <2> QED BY <2>1 DEF SentRow, InvalidationItems
  <1> HIDE DEF n, stale, current
  <1>4. \A item \in told : item.state = "INVALIDATE_PREVIOUS"
    BY DEF InvalidationItems
  <1>5. \A item \in diff :
            /\ item.section \in DOMAIN shape.sections
            /\ item.state \in SentStates \cup {"OMIT_UNCHANGED"}
    BY DiffItem
  <1>6. \A item \in diff :
            item.state = DiffState(shape.sections[item.section], item.previous)
    BY DiffCovers
  <1> HIDE DEF told, diff
  <1>7. Measured(shape, told)
    BY <1>4, <1>9, TokensAreNumbers DEF Measured, ItemTokens, SentStates
  <1>8. Measured(shape, diff)
    <2> SUFFICES ASSUME NEW item \in diff
                 PROVE  ItemTokens(shape, item) \in Nat
      BY DEF Measured
    <2> QED BY <1>5, TokensAreNumbers DEF ItemTokens, SentStates
  <1> QED BY <1>1, <1>2, <1>3, <1>4, <1>5, <1>6, <1>7, <1>8 DEF n, stale, current, told, diff

\* What is not required context of a build is new or changed optional context, one item
\* of a section, and the order in which it is tried decides between any two.
LEMMA OptionalItems ==
    ASSUME NEW s, NEW shape \in BudgetShapes, NEW reset,
           IsFiniteSet(sent), sent \subseteq SentRow,
           NEW items, items = NextPack(s, shape, reset)
    PROVE  /\ items \ RequiredItems(items) \subseteq Droppable(items, shape)
           /\ StrictOrder(KeepOrder(items), items \ RequiredItems(items))
  <1> DEFINE n == Len(artifacts) + 1
             told == InvalidationItems(n, StalePrior(s, shape, reset))
             diff == DiffItems(n, shape, CurrentPrior(s, shape, reset))
             optional == items \ RequiredItems(items)
  <1>1. /\ items = told \cup diff
        /\ \A item \in told : item.state = "INVALIDATE_PREVIOUS"
        /\ \A item \in diff :
              /\ item.section \in DOMAIN shape.sections
              /\ item.state \in SentStates \cup {"OMIT_UNCHANGED"}
              /\ item.state = DiffState(shape.sections[item.section], item.previous)
    BY NextPackIsFinite
  <1>2. \A i, j \in diff : i.section = j.section => i = j
    BY DiffCovers
  <1> HIDE DEF told, diff
  <1>3. \A item \in optional :
            /\ item \in diff
            /\ item.state \in {"NEW", "CHANGED"}
            /\ ~RequiredSection(item.section)
    BY <1>1 DEF RequiredItems, IsRequired, SentStates
  <1>4. \A item \in optional : shape.sections[item.section].kind = "optional"
    <2> SUFFICES ASSUME NEW item \in optional
                 PROVE  shape.sections[item.section].kind = "optional"
      OBVIOUS
    <2> DEFINE x == item.section
    <2>1. x \in DOMAIN shape.sections
      BY <1>1, <1>3
    <2>2. shape.sections[x].kind # "pinned"
      BY <1>1, <1>3 DEF DiffState
    <2>3. shape.sections[x].kind # "required"
      BY <1>3, <2>1, <2>2, KindsFollowTypes
    <2>4. shape.sections[x].kind \in Kinds
      BY <2>1, SectionsAreInOrder
    <2> QED BY <2>2, <2>3, <2>4 DEF Kinds
  <1>5. optional \subseteq Droppable(items, shape)
    BY <1>3, <1>4 DEF Droppable
  <1>6. StrictOrder(KeepOrder(items), optional)
    <2>1. \A x, y \in optional : <<x, y>> \in KeepOrder(items) <=>
              \/ KeepPriority(x.section) > KeepPriority(y.section)
              \/ /\ KeepPriority(x.section) = KeepPriority(y.section)
                 /\ SectionOrder[x.section] < SectionOrder[y.section]
      BY DEF KeepOrder
    <2>2. \A x \in optional : /\ KeepPriority(x.section) \in Nat
                              /\ SectionOrder[x.section] \in Nat
      BY <1>1, <1>3, PriorityIsNatural, SectionsAreInOrder
    <2>3. \A x, y \in optional : SectionOrder[x.section] = SectionOrder[y.section] => x = y
      BY <1>1, <1>2, <1>3, SectionsAreInOrder
    <2> HIDE DEF optional
    <2> QED BY <2>1, <2>2, <2>3 DEF StrictOrder
  <1> QED BY <1>5, <1>6

\* What a budget leaves alone: everything, when it is not requested or when the required
\* context alone exceeds it.
LEMMA Applied ==
    ASSUME NEW shape, NEW items, NEW budget
    PROVE  /\ budget = NoBudget => ApplyBudget(shape, items, budget) = items
           /\ PackTokens(shape, RequiredItems(items)) > budget
                 => ApplyBudget(shape, items, budget) = items
           /\ budget # NoBudget /\ ~(PackTokens(shape, RequiredItems(items)) > budget)
                 => ApplyBudget(shape, items, budget) = KeepWithin(shape, items, budget)
  BY DEF ApplyBudget

\* What is required of what is kept is what is required.
LEMMA RequiredStays ==
    ASSUME NEW items, NEW kept \in SUBSET items, RequiredItems(items) \subseteq kept
    PROVE  RequiredItems(kept) = RequiredItems(items)
  BY DEF RequiredItems

\* A budget leaves out optional context only, and what it keeps is as the status says.
LEMMA BudgetPrunes ==
    ASSUME NEW shape, NEW items, IsFiniteSet(items), Measured(shape, items),
           NEW budget \in Budgets,
           items \ RequiredItems(items) \subseteq Droppable(items, shape),
           StrictOrder(KeepOrder(items), items \ RequiredItems(items))
    PROVE  /\ RequiredItems(items) \subseteq ApplyBudget(shape, items, budget)
           /\ PrunesAsAllowed(shape, items, ApplyBudget(shape, items, budget), budget)
  <1> DEFINE required == RequiredItems(items)
             kept == ApplyBudget(shape, items, budget)
             total == PackTokens(shape, kept)
             need == PackTokens(shape, required)
             status == BudgetStatus(shape, kept, budget)
  <1>1. required \in SUBSET items
    BY DEF RequiredItems
  <1>2. IsFiniteSet(required) /\ Measured(shape, required)
    BY <1>1, FS_Subset DEF Measured
  <1>3. need \in Nat /\ PackTokens(shape, items) \in Nat
    BY <1>2, PackHasTokens
  <1>4. need <= PackTokens(shape, items)
    BY <1>1, PacksGrow
  <1>5. budget = NoBudget \/ budget \in Nat
    BY BudgetsAreNumbers
  <1>6. CASE budget = NoBudget
    <2>1. kept = items
      BY <1>6, Applied
    <2>2. status = "not_requested"
      BY <1>6 DEF BudgetStatus
    <2> HIDE DEF kept, status, required
    <2> QED BY <1>1, <1>6, <2>1, <2>2 DEF PrunesAsAllowed, kept, status, required
  <1>7. CASE budget # NoBudget /\ need > budget
    <2>1. kept = items
      BY <1>7, Applied
    <2>2. status = "required_context_exceeds_budget"
      BY <1>7, <2>1 DEF BudgetStatus
    <2>3. ~(total <= budget)
      BY <1>3, <1>4, <1>5, <1>7, <2>1
    <2> HIDE DEF kept, status, required, total
    <2> QED BY <1>1, <1>7, <2>1, <2>2, <2>3 DEF PrunesAsAllowed, kept, status, required, total
  <1>8. CASE budget # NoBudget /\ ~(need > budget)
    <2>1. kept = KeepWithin(shape, items, budget)
      BY <1>8, Applied
    <2>2. need <= budget /\ budget \in Nat
      BY <1>3, <1>5, <1>8
    <2>3. /\ kept \in SUBSET items
          /\ required \subseteq kept
          /\ total <= budget
          /\ \A item \in items \ kept :
                /\ total + ItemTokens(shape, item) > budget
                /\ \A other \in kept :
                      \/ IsRequired(other)
                      \/ <<item, other>> \notin KeepOrder(items)
                      \/ ItemTokens(shape, other) < ItemTokens(shape, item)
      BY <2>1, <2>2, PrunedWithin
    <2>4. RequiredItems(kept) = required
      BY <2>3, RequiredStays
    <2>5. IsFiniteSet(kept) /\ Measured(shape, kept)
      BY <2>3, FS_Subset DEF Measured
    <2>6. total \in Nat
      BY <2>5, PackHasTokens
    <2>7. status = "within_budget"
      BY <1>3, <1>8, <2>2, <2>3, <2>4, <2>6 DEF BudgetStatus
    <2> HIDE DEF kept, total, status, required, need
    <2>8. items \ kept \subseteq Droppable(items, shape)
      BY <2>3 DEF required
    <2>9. ASSUME NEW item \in items \ kept, NEW other \in kept,
                 <<item, other>> \notin KeepOrder(items)
          PROVE  KeepPriority(other.section) >= KeepPriority(item.section)
      <3>1. KeepPriority(other.section) \in Nat /\ KeepPriority(item.section) \in Nat
        BY PriorityIsNatural
      <3>2. item \in items /\ other \in items
        BY <2>3
      <3>3. ~(KeepPriority(item.section) > KeepPriority(other.section))
        BY <2>9, <3>2 DEF KeepOrder
      <3> QED BY <3>1, <3>3
    <2>10. ASSUME NEW item \in items \ kept, NEW other \in kept
           PROVE  \/ IsRequired(other)
                  \/ KeepPriority(other.section) >= KeepPriority(item.section)
                  \/ ItemTokens(shape, other) < ItemTokens(shape, item)
      BY <2>3, <2>9
    <2>11. PrunesAsAllowed(shape, items, ApplyBudget(shape, items, budget), budget)
      BY <1>8, <2>3, <2>7, <2>8, <2>10 DEF PrunesAsAllowed, kept, total, status
    <2> QED BY <2>3, <2>11 DEF required, kept
  <1> QED BY <1>6, <1>7, <1>8

----------------------------------------------------------------------------
(* The savings that are reported *)

\* The tokens of two sets of sections that share none add up.
LEMMA SectionsAdd ==
    ASSUME NEW shape \in BudgetShapes, NEW A \in SUBSET DOMAIN shape.sections,
           NEW B \in SUBSET DOMAIN shape.sections, A \cap B = {}
    PROVE  /\ SectionTokens(shape, A \cup B) = SectionTokens(shape, A) + SectionTokens(shape, B)
           /\ SectionTokens(shape, A) \in Nat
           /\ SectionTokens(shape, B) \in Nat
  <1> DEFINE f == [x \in A |-> NaiveTokens[x][shape.sections[x].content]]
             g == [x \in B |-> NaiveTokens[x][shape.sections[x].content]]
             h == [x \in A \cup B |-> NaiveTokens[x][shape.sections[x].content]]
  <1>1. IsFiniteSet(A) /\ IsFiniteSet(B)
    BY SectionsAreFinite, FS_Subset
  <1>2. f \in [A -> Nat] /\ g \in [B -> Nat] /\ h \in [A \cup B -> Nat]
    BY TokensAreNumbers
  <1>3. (\A x \in A : h[x] = f[x]) /\ (\A x \in B : h[x] = g[x])
    OBVIOUS
  <1>4. /\ SectionTokens(shape, A) = Total(f)
        /\ SectionTokens(shape, B) = Total(g)
        /\ SectionTokens(shape, A \cup B) = Total(h)
    BY DEF SectionTokens
  <1> HIDE DEF f, g, h
  <1>5. Total(h) = Total(f) + Total(g)
    BY <1>1, <1>2, <1>3, TotalAdds
  <1>6. Total(f) \in Nat /\ Total(g) \in Nat
    BY <1>1, <1>2, UnitsAreFinite
  <1> QED BY <1>4, <1>5, <1>6

\* The sections of an artifact are those left unchanged, those that are delivered and those
\* the budget left out, each once; and pinned items and invalidations are part of a pack.
LEMMA SavingsHold ==
    ASSUME NEW s, NEW shape \in BudgetShapes, NEW reset,
           IsFiniteSet(sent), sent \subseteq SentRow,
           NEW items, items = NextPack(s, shape, reset),
           NEW kept \in SUBSET items, RequiredItems(items) \subseteq kept
    PROVE  SavingsAddUp(shape, items, kept)
  <1> DEFINE n == Len(artifacts) + 1
             told == InvalidationItems(n, StalePrior(s, shape, reset))
             diff == DiffItems(n, shape, CurrentPrior(s, shape, reset))
             xs == DOMAIN shape.sections
             unchanged == {i.section : i \in InState(kept, "OMIT_UNCHANGED")}
             arrives == SectionsSent(kept)
             left == SectionsSent(items \ kept)
  <1>1. /\ items = told \cup diff
        /\ IsFiniteSet(told) /\ IsFiniteSet(diff)
        /\ Measured(shape, told) /\ Measured(shape, diff)
        /\ \A item \in told : item.state = "INVALIDATE_PREVIOUS"
        /\ \A item \in diff :
              /\ item.section \in DOMAIN shape.sections
              /\ item.state \in SentStates \cup {"OMIT_UNCHANGED"}
    BY NextPackIsFinite
  <1>2. /\ \A x \in xs : \E i \in diff : i.section = x
        /\ \A i, j \in diff : i.section = j.section => i = j
    BY DiffCovers
  <1> HIDE DEF told, diff
  <1>3. \A i \in diff : i.state = "OMIT_UNCHANGED" => i \in kept
    BY <1>1 DEF RequiredItems, IsRequired
  <1>4. \A x : /\ x \in unchanged <=> \E i \in diff : i.section = x /\ i.state = "OMIT_UNCHANGED"
               /\ x \in arrives <=>
                     \E i \in diff : i.section = x /\ i.state \in SentStates /\ i \in kept
               /\ x \in left <=>
                     \E i \in diff : i.section = x /\ i.state \in SentStates /\ i \notin kept
    BY <1>1, <1>3 DEF InState, SectionsSent, SentStates
  <1>5. /\ unchanged \in SUBSET xs /\ arrives \in SUBSET xs /\ left \in SUBSET xs
        /\ xs = (unchanged \cup arrives) \cup left
        /\ unchanged \cap arrives = {} /\ (unchanged \cup arrives) \cap left = {}
    <2> HIDE DEF unchanged, arrives, left
    <2>1. \A x \in unchanged \cup arrives \cup left : x \in xs
      BY <1>1, <1>4
    <2>2. \A x \in xs : x \in unchanged \/ x \in arrives \/ x \in left
      BY <1>1, <1>2, <1>4
    <2>3. \A x : /\ ~(x \in unchanged /\ x \in arrives)
                 /\ ~(x \in unchanged /\ x \in left)
                 /\ ~(x \in arrives /\ x \in left)
      BY <1>2, <1>4 DEF SentStates
    <2> HIDE DEF xs
    <2> QED BY <2>1, <2>2, <2>3
  <1>6. SectionTokens(shape, xs) = SectionTokens(shape, unchanged)
            + SectionTokens(shape, arrives) + SectionTokens(shape, left)
    <2> HIDE DEF unchanged, arrives, left
    <2>1. SectionTokens(shape, unchanged \cup arrives)
             = SectionTokens(shape, unchanged) + SectionTokens(shape, arrives)
      BY <1>5, SectionsAdd
    <2>2. unchanged \cup arrives \in SUBSET xs
      BY <1>5
    <2>3. SectionTokens(shape, (unchanged \cup arrives) \cup left)
             = SectionTokens(shape, unchanged \cup arrives) + SectionTokens(shape, left)
      BY <1>5, <2>2, SectionsAdd
    <2> QED BY <1>5, <2>1, <2>3
  <1> DEFINE pinned == InState(kept, "PINNED")
             taken == InState(kept, "INVALIDATE_PREVIOUS")
  <1>7. IsFiniteSet(kept) /\ Measured(shape, kept)
    <2>1. IsFiniteSet(items)
      BY <1>1, FS_Union
    <2>2. Measured(shape, items)
      BY <1>1 DEF Measured
    <2> QED BY <2>1, <2>2, FS_Subset DEF Measured
  <1>8. pinned \in SUBSET kept /\ taken \in SUBSET kept /\ pinned \cap taken = {}
    BY DEF InState
  <1>9. /\ PackTokens(shape, pinned) \in Nat /\ PackTokens(shape, taken) \in Nat
        /\ PackTokens(shape, pinned) + PackTokens(shape, taken) <= PackTokens(shape, kept)
    <2> HIDE DEF pinned, taken
    <2>1. /\ IsFiniteSet(pinned) /\ IsFiniteSet(taken)
          /\ Measured(shape, pinned) /\ Measured(shape, taken)
      BY <1>7, <1>8, FS_Subset DEF Measured
    <2>2. PackTokens(shape, pinned \cup taken)
             = PackTokens(shape, pinned) + PackTokens(shape, taken)
      BY <1>8, <2>1, PacksAdd
    <2>3. PackTokens(shape, pinned \cup taken) <= PackTokens(shape, kept)
      <3>1. pinned \cup taken \in SUBSET kept
        BY <1>8
      <3> QED BY <1>7, <3>1, PacksGrow
    <2> QED BY <2>1, <2>2, <2>3, PackHasTokens
  <1>10. /\ Savings(shape, kept).sent = PackTokens(shape, kept)
         /\ Savings(shape, kept).omitted = SectionTokens(shape, unchanged)
         /\ Savings(shape, kept).naive = SectionTokens(shape, xs)
         /\ Savings(shape, kept).pinned = PackTokens(shape, pinned)
         /\ Savings(shape, kept).invalidations = PackTokens(shape, taken)
    BY DEF Savings
  <1> HIDE DEF xs, unchanged, pinned, taken
  <1> QED BY <1>6, <1>9, <1>10 DEF SavingsAddUp

----------------------------------------------------------------------------
(* The theorems *)

\* A build records finitely many sections as sent.
LEMMA SentFiniteStep ==
    ASSUME IsFiniteSet(sent), [LedgerNext]_ledgerVars
    PROVE  IsFiniteSet(sent')
  <1>1. CASE UNCHANGED ledgerVars
    BY <1>1 DEF ledgerVars
  <1>2. ASSUME NEW s \in Sessions, NEW shape \in Shapes, NEW at \in Clocks,
               NEW reset \in BOOLEAN, Build(s, shape, at, reset)
        PROVE  IsFiniteSet(sent')
    <2> DEFINE n == Len(artifacts) + 1
               current == CurrentPrior(s, shape, reset)
               diff == DiffItems(n, shape, current)
               xs == DOMAIN shape.sections
               rows == {[artifact |-> n, section |-> x, state |-> state]
                          : x \in xs, state \in SentStates}
    <2>1. PICK kept \in SUBSET diff : sent' = sent \cup SentRows(kept)
      BY <1>2, BuildRows
    <2>2. SentRows(kept) \in SUBSET rows
      <3>1. \A i \in kept : i.artifact = n /\ i.section \in xs
        BY <2>1, DiffItem
      <3> HIDE DEF n, diff, xs
      <3> QED BY <3>1 DEF SentRows
    <2>3. IsFiniteSet(rows)
      <3> DEFINE pairs == xs \X SentStates
                 rowOf == [pair \in pairs |->
                             [artifact |-> n, section |-> pair[1], state |-> pair[2]]]
      <3>1. IsFiniteSet(xs)
        BY SectionsAreFinite
      <3>2. IsFiniteSet(SentStates)
        <4>1. IsFiniteSet({"NEW"}) /\ IsFiniteSet({"CHANGED"}) /\ IsFiniteSet({"PINNED"})
          BY FS_Singleton
        <4>2. SentStates = ({"NEW"} \cup {"CHANGED"}) \cup {"PINNED"}
          BY DEF SentStates
        <4>3. IsFiniteSet({"NEW"} \cup {"CHANGED"})
          BY <4>1, FS_Union, Zenon
        <4>4. IsFiniteSet(({"NEW"} \cup {"CHANGED"}) \cup {"PINNED"})
          BY <4>1, <4>3, FS_Union, Zenon
        <4> QED BY <4>2, <4>4
      <3>3. IsFiniteSet(pairs)
        BY <3>1, <3>2, FS_Product
      <3> HIDE DEF n, xs
      <3>4. rowOf \in Surjection(pairs, rows)
        <4>1. \A row \in rows : \E x \in xs, state \in SentStates :
                  row = [artifact |-> n, section |-> x, state |-> state]
          OBVIOUS
        <4>2. \A row \in rows : \E pair \in pairs : rowOf[pair] = row
          <5> SUFFICES ASSUME NEW row \in rows
                       PROVE  \E pair \in pairs : rowOf[pair] = row
            OBVIOUS
          <5>1. PICK x \in xs, state \in SentStates :
                    row = [artifact |-> n, section |-> x, state |-> state]
            BY <4>1
          <5>2. <<x, state>> \in pairs
            OBVIOUS
          <5> QED BY <5>1, <5>2
        <4>3. rowOf \in [pairs -> rows]
          OBVIOUS
        <4> HIDE DEF rowOf, pairs, rows
        <4> QED BY <4>2, <4>3 DEF Surjection
      <3> HIDE DEF rowOf, pairs, rows
      <3> QED BY <3>3, <3>4, FS_Surjection
    <2> HIDE DEF rows
    <2> QED BY <2>1, <2>2, <2>3, FS_Subset, FS_Union
  <1> QED BY <1>1, <1>2 DEF LedgerNext

\* The ledger of a session is finite, however long it lives: without it no pack would
\* have a length.
THEOREM SentIsFinite == LedgerSpec => []IsFiniteSet(sent)
  <1>1. LedgerInit => IsFiniteSet(sent)
    BY FS_EmptySet DEF LedgerInit
  <1>2. IsFiniteSet(sent) /\ [LedgerNext]_ledgerVars => IsFiniteSet(sent)'
    BY SentFiniteStep
  <1> QED BY <1>1, <1>2, PTL DEF LedgerSpec

\* Whatever the ledger holds, the pack of the next build is pruned as is allowed.
LEMMA PruningFollows ==
    ASSUME IsFiniteSet(sent), sent \subseteq SentRow
    PROVE  PruningIsAllowed
  <1>1. ASSUME NEW s \in Sessions, NEW shape \in BudgetShapes, NEW budget \in Budgets
        PROVE  LET items == NextPack(s, shape, FALSE) IN
               /\ PrunesAsAllowed(shape, items, ApplyBudget(shape, items, budget), budget)
               /\ SavingsAddUp(shape, items, ApplyBudget(shape, items, budget))
    <2> DEFINE items == NextPack(s, shape, FALSE)
               kept == ApplyBudget(shape, items, budget)
    <2>1. IsFiniteSet(items) /\ Measured(shape, items)
      <3> DEFINE n == Len(artifacts) + 1
                 told == InvalidationItems(n, StalePrior(s, shape, FALSE))
                 diff == DiffItems(n, shape, CurrentPrior(s, shape, FALSE))
      <3>1. /\ items = told \cup diff
            /\ IsFiniteSet(told) /\ IsFiniteSet(diff)
            /\ Measured(shape, told) /\ Measured(shape, diff)
        BY NextPackIsFinite
      <3> HIDE DEF told, diff, items
      <3>2. IsFiniteSet(items)
        BY <3>1, FS_Union
      <3>3. Measured(shape, items)
        BY <3>1 DEF Measured
      <3> QED BY <3>2, <3>3
    <2>2. /\ items \ RequiredItems(items) \subseteq Droppable(items, shape)
          /\ StrictOrder(KeepOrder(items), items \ RequiredItems(items))
      BY OptionalItems
    <2>3. /\ RequiredItems(items) \subseteq kept
          /\ PrunesAsAllowed(shape, items, kept, budget)
      <3> HIDE DEF items
      <3> QED BY <2>1, <2>2, BudgetPrunes
    <2>4. kept \in SUBSET items
      BY <2>3 DEF PrunesAsAllowed
    <2>5. SavingsAddUp(shape, items, kept)
      <3> HIDE DEF kept
      <3> QED BY <2>3, <2>4, SavingsHold
    <2> QED BY <2>3, <2>5
  <1> QED BY <1>1 DEF PruningIsAllowed

\* A budget leaves out only what the ledger allows and no more than it has to, its status
\* is true, and the tokens it reports as omitted are those of the sections that are neither
\* delivered nor left out: for every artifact, every budget, every length of what is
\* rendered and whatever builds came before.
THEOREM BudgetPrunesWhatItMay == LedgerSpec => []PruningIsAllowed
  <1>1. IsFiniteSet(sent) /\ TypeOK => PruningIsAllowed
    BY PruningFollows DEF TypeOK
  <1> QED BY <1>1, SentIsFinite, TypeCorrect, PTL
=============================================================================
