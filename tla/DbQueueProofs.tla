--------------------------- MODULE DbQueueProofs ----------------------------
(***************************************************************************)
(* What a write registers and what becomes of it: its queues under         *)
(* registration, savepoint and rollback, the rounds of preparations, and   *)
(* what the commit leaves of them.  No step is taken here: these are facts *)
(* about the operators of DbWriter.                                        *)
(***************************************************************************)
EXTENDS DbWriter, SequenceTheorems, FiniteSetTheorems, NatOrder, TLAPS

(* Where a write is in its transaction. *)
InTx == {"body", "prepare", "prep"}

(* All but the last. *)
LEMMA FrontFacts ==
    ASSUME NEW S, NEW s \in Seq(S), Len(s) \in Nat \ {0}
    PROVE  /\ Front(s) \in Seq(S) /\ Len(Front(s)) = Len(s) - 1
           /\ \A i \in 1 .. Len(s) - 1 : Front(s)[i] = s[i]
<1> DEFINE n == Len(s) - 1
<1>1. n \in Nat /\ Front(s) = SubSeq(s, 1, n) /\ \A i \in 1 .. n : s[i] \in S
  BY DEF Front
<1> HIDE DEF n
<1>2. SubSeq(s, 1, n) \in Seq(S)
  BY <1>1, SubSeqProperties
<1>3. Len(SubSeq(s, 1, n)) = n
  BY <1>1, SubSeqProperties
<1>4. \A i \in 1 .. n : SubSeq(s, 1, n)[i] = s[i]
  BY <1>1, SubSeqProperties
<1> QED
  BY <1>1, <1>2, <1>3, <1>4 DEF n
-----------------------------------------------------------------------------
(* Positions of a queue, in order (Picked).                                *)

(* An order of the positions J. *)
OrderOf(m, p, J) ==
    /\ p \in [1 .. m -> J]
    /\ \A i, j \in 1 .. m : i < j => p[i] < p[j]
    /\ \A k \in J : \E i \in 1 .. m : p[i] = k

Ordered(J) == \E m \in Nat : \E p : OrderOf(m, p, J)

(* Any set of positions can be put in order. *)
LEMMA OrderExists == \A n \in Nat : \A K \in SUBSET (1 .. n) : Ordered(K)
<1> DEFINE Bad == {x \in Nat : \E J \in SUBSET (1 .. x) : ~Ordered(J)}
<1>1. ASSUME Bad # {}  PROVE FALSE
  <2>1. PICK x \in Bad : \A y \in Bad : x <= y
    <3> HIDE DEF Bad
    <3>1. Bad \subseteq Nat
      BY DEF Bad
    <3> QED
      BY <1>1, <3>1, LeastNatural
  <2>2. PICK J \in SUBSET (1 .. x) : ~Ordered(J)
    BY <2>1
  <2>3. x # 0
    <3> SUFFICES ASSUME x = 0  PROVE Ordered(J)
      BY <2>2
    <3>1. J = {}
      BY <2>2
    <3>2. OrderOf(0, [i \in 1 .. 0 |-> 0], J)
      BY <3>1 DEF OrderOf
    <3> QED
      BY <3>2 DEF Ordered
  <2>4. x - 1 \in Nat /\ x - 1 \notin Bad
    <3>1. x \in Nat /\ x - 1 \in Nat /\ ~(x <= x - 1)
      BY <2>3
    <3> HIDE DEF Bad
    <3> QED
      BY <2>1, <3>1
  <2>5. Ordered(J \ {x})
    <3>1. J \ {x} \in SUBSET (1 .. (x - 1))
      BY <2>1, <2>2
    <3> QED
      BY <2>4, <3>1
  <2>6. x \in J
    <3>1. x \notin J => J \ {x} = J
      OBVIOUS
    <3> HIDE DEF Ordered
    <3> QED
      BY <2>2, <2>5, <3>1
  <2>7. PICK m \in Nat : \E p : OrderOf(m, p, J \ {x})
    BY <2>5 DEF Ordered
  <2>8. PICK p : OrderOf(m, p, J \ {x})
    BY <2>7
  <2> DEFINE r == [i \in 1 .. m + 1 |-> IF i = m + 1 THEN x ELSE p[i]]
  <2>9. r \in [1 .. m + 1 -> J]
    BY <2>6, <2>8 DEF OrderOf
  <2>10. \A i \in 1 .. m : r[i] = p[i] /\ p[i] \in 1 .. x - 1
    <3> SUFFICES ASSUME NEW i \in 1 .. m  PROVE r[i] = p[i] /\ p[i] \in 1 .. x - 1
      OBVIOUS
    <3>1. r[i] = p[i] /\ p[i] \in J \ {x}
      BY <2>8 DEF OrderOf
    <3>2. p[i] \in 1 .. x /\ p[i] # x
      BY <2>2, <3>1
    <3> QED
      BY <2>1, <3>1, <3>2
  <2>11. r[m + 1] = x
    OBVIOUS
  <2>12. ASSUME NEW i \in 1 .. m + 1, NEW j \in 1 .. m + 1, i < j  PROVE r[i] < r[j]
    <3> HIDE DEF r
    <3>1. i \in 1 .. m
      BY <2>12
    <3>2. CASE j = m + 1
      BY <2>1, <2>10, <2>11, <3>1, <3>2
    <3>3. CASE j \in 1 .. m
      BY <2>8, <2>10, <2>12, <3>1, <3>3 DEF OrderOf
    <3> QED
      BY <3>2, <3>3
  <2>13. ASSUME NEW k \in J  PROVE \E i \in 1 .. m + 1 : r[i] = k
    <3> HIDE DEF r
    <3>1. CASE k = x
      BY <2>11, <3>1
    <3>2. CASE k # x
      <4>1. PICK i \in 1 .. m : p[i] = k
        BY <2>8, <3>2 DEF OrderOf
      <4> QED
        BY <2>10, <4>1
    <3> QED
      BY <3>1, <3>2
  <2>14. Ordered(J)
    <3> HIDE DEF r
    <3>1. m + 1 \in Nat
      OBVIOUS
    <3> QED
      BY <2>9, <2>12, <2>13, <3>1 DEF OrderOf, Ordered
  <2> QED
    BY <2>2, <2>14
<1>2. ASSUME NEW n \in Nat, NEW K \in SUBSET (1 .. n)  PROVE Ordered(K)
  BY <1>1, <1>2
<1> QED
  BY <1>2

(* InOrder does so, each position once. *)
LEMMA InOrderFacts ==
    ASSUME NEW n \in Nat, NEW K, K \subseteq 1 .. n
    PROVE  /\ Cardinality(K) \in Nat
           /\ InOrder(K) \in [1 .. Cardinality(K) -> K]
           /\ \A i, j \in 1 .. Cardinality(K) : InOrder(K)[i] = InOrder(K)[j] => i = j
           /\ \A i, j \in 1 .. Cardinality(K) : i < j => InOrder(K)[i] < InOrder(K)[j]
           /\ \A k \in K : \E i \in 1 .. Cardinality(K) : InOrder(K)[i] = k
<1>1. PICK m \in Nat : \E p : OrderOf(m, p, K)
  BY OrderExists DEF Ordered
<1>2. PICK p : OrderOf(m, p, K)
  BY <1>1
<1>3. ASSUME NEW i \in 1 .. m, NEW j \in 1 .. m, p[i] = p[j]  PROVE i = j
  <2>1. p[i] \in Nat /\ ~(p[i] < p[i])
    <3>1. p[i] \in K
      BY <1>2 DEF OrderOf
    <3>2. p[i] \in 1 .. n
      BY <3>1
    <3> QED
      BY <3>2
  <2> QED
    BY <1>2, <1>3, <2>1 DEF OrderOf
<1>4. p \in Bijection(1 .. m, K)
  BY <1>2, <1>3 DEF OrderOf, Bijection, Injection, Surjection, IsInjective
<1>5. Cardinality(K) = m
  BY <1>4, FS_CountingElements DEF ExistsBijection
<1>6. \E r \in Bijection(1 .. Cardinality(K), K) : \A i, j \in DOMAIN r : i < j => r[i] < r[j]
  BY <1>2, <1>4, <1>5 DEF OrderOf
<1>7. /\ InOrder(K) \in Bijection(1 .. Cardinality(K), K)
      /\ \A i, j \in DOMAIN InOrder(K) : i < j => InOrder(K)[i] < InOrder(K)[j]
  BY <1>6 DEF InOrder
<1> QED
  BY <1>5, <1>7 DEF Bijection, Injection, Surjection, IsInjective
-----------------------------------------------------------------------------
(* Queues of registrations: each item is of a known kind, for operations   *)
(* that are as they were registered, none of them twice.                   *)

(* The operations whose registrations are in a queue. *)
TagsOf(q) ==
    {t \in Tags : \E i \in DOMAIN q : \E k \in DOMAIN q[i].tags : q[i].tags[k] = t}

(* An item of the transaction id, of one of these kinds, for operations    *)
(* that are as they were registered.                                       *)
Belongs(x, id, kinds, o) ==
    /\ x.kind \in kinds
    /\ Len(x.tags) >= 1
    /\ x.kind # "hooks" => Len(x.tags) = 1
    /\ \A k \in DOMAIN x.tags :
          x.tags[k] \in DOMAIN o /\ o[x.tags[k]] = [kind |-> x.kind, rec |-> x.rec, tx |-> id]

(* No operation twice. *)
Distinct(q) ==
    \A i, j \in DOMAIN q : \A k \in DOMAIN q[i].tags, l \in DOMAIN q[j].tags :
        q[i].tags[k] = q[j].tags[l] => i = j /\ k = l

Registered(q, id, kinds, o) ==
    /\ q \in Seq(Item)
    /\ \A i \in DOMAIN q : Belongs(q[i], id, kinds, o)
    /\ Distinct(q)

(* Some of the queue q: these items, from or up to some tag. *)
PartBy(p, q, m, d) ==
    /\ m \in [DOMAIN p -> DOMAIN q] /\ d \in [DOMAIN p -> Nat]
    /\ \A i, j \in DOMAIN p : m[i] = m[j] => i = j
    /\ \A i \in DOMAIN p :
          /\ p[i].kind = q[m[i]].kind /\ p[i].rec = q[m[i]].rec
          /\ Len(p[i].tags) >= 1 /\ Len(p[i].tags) + d[i] <= Len(q[m[i]].tags)
          /\ \A k \in DOMAIN p[i].tags : p[i].tags[k] = q[m[i]].tags[k + d[i]]

Part(p, q) == \E m, d : PartBy(p, q, m, d)

(* An item of a queue is well typed. *)
LEMMA ItemFacts ==
    ASSUME NEW q \in Seq(Item), NEW i \in DOMAIN q
    PROVE  /\ q[i] \in Item /\ q[i].kind \in Kinds /\ q[i].rec \in Records
           /\ q[i].tags \in Seq(Tags)
           /\ Len(q[i].tags) \in Nat /\ DOMAIN q[i].tags = 1 .. Len(q[i].tags)
           /\ \A k \in DOMAIN q[i].tags : q[i].tags[k] \in Tags
<1>1. q[i] \in Item
  OBVIOUS
<1>2. q[i].tags \in Seq(Tags) /\ q[i].kind \in Kinds /\ q[i].rec \in Records
  BY <1>1 DEF Item
<1> QED
  BY <1>1, <1>2

(* The operations of a queue are of its transaction and kinds. *)
LEMMA RegisteredFacts ==
    ASSUME NEW q, NEW id, NEW kinds, NEW o, Registered(q, id, kinds, o)
    PROVE  /\ \A t \in TagsOf(q) : t \in DOMAIN o /\ o[t].kind \in kinds /\ o[t].tx = id
           /\ \A i \in DOMAIN q : \A k \in DOMAIN q[i].tags : q[i].tags[k] \in TagsOf(q)
           /\ \A i \in DOMAIN q : 1 \in DOMAIN q[i].tags /\ q[i].tags[1] \in TagsOf(q)
<1>1. ASSUME NEW t \in TagsOf(q)  PROVE t \in DOMAIN o /\ o[t].kind \in kinds /\ o[t].tx = id
  <2>1. PICK i \in DOMAIN q : \E k \in DOMAIN q[i].tags : q[i].tags[k] = t
    BY DEF TagsOf
  <2>2. PICK k \in DOMAIN q[i].tags : q[i].tags[k] = t
    BY <2>1
  <2>3. o[q[i].tags[k]] = [kind |-> q[i].kind, rec |-> q[i].rec, tx |-> id]
    BY <2>2 DEF Registered, Belongs
  <2> QED
    BY <2>2, <2>3 DEF Registered, Belongs
<1>2. ASSUME NEW i \in DOMAIN q, NEW k \in DOMAIN q[i].tags  PROVE q[i].tags[k] \in TagsOf(q)
  <2>1. q[i].tags[k] \in Tags
    BY ItemFacts DEF Registered
  <2> QED
    BY <2>1 DEF TagsOf
<1>3. ASSUME NEW i \in DOMAIN q  PROVE 1 \in DOMAIN q[i].tags
  <2>1. Len(q[i].tags) \in Nat /\ DOMAIN q[i].tags = 1 .. Len(q[i].tags)
    BY ItemFacts DEF Registered
  <2>2. Len(q[i].tags) >= 1
    BY DEF Registered, Belongs
  <2> QED
    BY <2>1, <2>2
<1> QED
  BY <1>1, <1>2, <1>3

(* Some of a queue is as well registered. *)
LEMMA PartRegistered ==
    ASSUME NEW q, NEW id, NEW kinds, NEW o, Registered(q, id, kinds, o),
           NEW p \in Seq(Item), Part(p, q)
    PROVE  Registered(p, id, kinds, o) /\ TagsOf(p) \subseteq TagsOf(q)
<1>1. PICK m, d : PartBy(p, q, m, d)
  BY DEF Part
<1>2. ASSUME NEW i \in DOMAIN p, NEW k \in DOMAIN p[i].tags
      PROVE  /\ m[i] \in DOMAIN q /\ k + d[i] \in DOMAIN q[m[i]].tags
             /\ p[i].tags[k] = q[m[i]].tags[k + d[i]]
             /\ k \in Nat /\ d[i] \in Nat
  <2>1. /\ m[i] \in DOMAIN q /\ d[i] \in Nat
        /\ Len(p[i].tags) + d[i] <= Len(q[m[i]].tags)
        /\ p[i].tags[k] = q[m[i]].tags[k + d[i]]
    BY <1>1 DEF PartBy
  <2>2. Len(p[i].tags) \in Nat /\ k \in 1 .. Len(p[i].tags)
    BY ItemFacts
  <2>3. Len(q[m[i]].tags) \in Nat /\ DOMAIN q[m[i]].tags = 1 .. Len(q[m[i]].tags)
    BY <2>1, ItemFacts DEF Registered
  <2> QED
    BY <2>1, <2>2, <2>3
<1>3. ASSUME NEW i \in DOMAIN p
      PROVE  Belongs(p[i], id, kinds, o)
  <2>1. /\ p[i].kind = q[m[i]].kind /\ p[i].rec = q[m[i]].rec /\ m[i] \in DOMAIN q
        /\ Len(p[i].tags) >= 1 /\ Len(p[i].tags) + d[i] <= Len(q[m[i]].tags)
        /\ d[i] \in Nat
    BY <1>1 DEF PartBy
  <2>2. Len(p[i].tags) \in Nat
    BY ItemFacts
  <2>3. Belongs(q[m[i]], id, kinds, o)
    BY <2>1 DEF Registered
  <2>4. p[i].kind \in kinds
    BY <2>1, <2>3 DEF Belongs
  <2>5. ASSUME p[i].kind # "hooks"  PROVE Len(p[i].tags) = 1
    <3>1. q[m[i]].kind # "hooks"
      BY <2>1, <2>5
    <3>2. Len(q[m[i]].tags) = 1
      BY <2>3, <3>1 DEF Belongs
    <3>3. /\ Len(p[i].tags) + d[i] <= 1 /\ Len(p[i].tags) >= 1
          /\ Len(p[i].tags) \in Nat /\ d[i] \in Nat
      BY <2>1, <2>2, <3>2
    <3>4. \A a, b \in Nat : a + b <= 1 /\ a >= 1 => a = 1
      OBVIOUS
    <3> QED
      BY <3>3, <3>4
  <2>6. ASSUME NEW k \in DOMAIN p[i].tags
        PROVE  /\ p[i].tags[k] \in DOMAIN o
               /\ o[p[i].tags[k]] = [kind |-> p[i].kind, rec |-> p[i].rec, tx |-> id]
    BY <2>1, <2>3, <1>2 DEF Belongs
  <2> QED
    BY <2>1, <2>4, <2>5, <2>6 DEF Belongs
<1>4. ASSUME NEW i \in DOMAIN p, NEW j \in DOMAIN p,
             NEW k \in DOMAIN p[i].tags, NEW l \in DOMAIN p[j].tags,
             p[i].tags[k] = p[j].tags[l]
      PROVE  i = j /\ k = l
  <2>1. /\ m[i] \in DOMAIN q /\ k + d[i] \in DOMAIN q[m[i]].tags
        /\ m[j] \in DOMAIN q /\ l + d[j] \in DOMAIN q[m[j]].tags
        /\ q[m[i]].tags[k + d[i]] = q[m[j]].tags[l + d[j]]
        /\ k \in Nat /\ d[i] \in Nat /\ l \in Nat /\ d[j] \in Nat
    BY <1>2, <1>4
  <2>2. m[i] = m[j] /\ k + d[i] = l + d[j]
    <3>1. Distinct(q)
      BY DEF Registered
    <3> QED
      BY <2>1, <3>1 DEF Distinct
  <2>3. i = j
    BY <1>1, <2>2 DEF PartBy
  <2> QED
    BY <2>1, <2>2, <2>3
<1>5. TagsOf(p) \subseteq TagsOf(q)
  <2> SUFFICES ASSUME NEW t \in TagsOf(p)  PROVE t \in TagsOf(q)
    OBVIOUS
  <2>1. PICK i \in DOMAIN p : \E k \in DOMAIN p[i].tags : p[i].tags[k] = t
    BY DEF TagsOf
  <2>2. PICK k \in DOMAIN p[i].tags : p[i].tags[k] = t
    BY <2>1
  <2> QED
    BY <1>2, <2>2, RegisteredFacts
<1> QED
  BY <1>3, <1>4, <1>5 DEF Registered, Distinct
-----------------------------------------------------------------------------
(* A registration is added: at the end of a queue, or in a record's slot.  *)

(* More operations, the earlier ones as they were. *)
Grows(o, o2) == DOMAIN o \subseteq DOMAIN o2 /\ \A t \in DOMAIN o : o2[t] = o[t]

(* Later operations change nothing about a queue. *)
LEMMA RegisteredGrows ==
    ASSUME NEW q, NEW id, NEW kinds, NEW o, Registered(q, id, kinds, o),
           NEW o2, Grows(o, o2)
    PROVE  Registered(q, id, kinds, o2)
<1>1. ASSUME NEW i \in DOMAIN q  PROVE Belongs(q[i], id, kinds, o2)
  <2>1. Belongs(q[i], id, kinds, o)
    BY DEF Registered
  <2> QED
    BY <2>1 DEF Belongs, Grows
<1> QED
  BY <1>1 DEF Registered

(* In the order of registration. *)
Rising(q) == \A i, j \in DOMAIN q : i < j => q[i].tags[1] < q[j].tags[1]

OnceKinds == {"job", "broadcast", "settled"}

(* Once for a record. *)
Alone(q) == \A i, j \in DOMAIN q : q[i].kind \in OnceKinds /\ Same(q[i], q[j]) => i = j

(* The operation n is new. *)
New(n, o, kind, rec, id, o2) ==
    /\ n \in Tags /\ Grows(o, o2) /\ n \in DOMAIN o2 /\ n \notin DOMAIN o
    /\ \A t \in DOMAIN o : t < n
    /\ o2[n] = [kind |-> kind, rec |-> rec, tx |-> id]

(* q2 has what q has, and what was registered since. *)
Extends(q2, q) ==
    /\ Len(q) <= Len(q2)
    /\ \A i \in DOMAIN q :
          /\ q2[i].kind = q[i].kind /\ q2[i].rec = q[i].rec
          /\ Len(q[i].tags) <= Len(q2[i].tags)
          /\ \A k \in DOMAIN q[i].tags : q2[i].tags[k] = q[i].tags[k]

(* An item at the end. *)
LEMMA AppendItem ==
    ASSUME NEW q \in Seq(Item), NEW x \in Item
    PROVE  /\ Append(q, x) \in Seq(Item) /\ Len(q) \in Nat /\ DOMAIN q = 1 .. Len(q)
           /\ Len(Append(q, x)) = Len(q) + 1
           /\ DOMAIN Append(q, x) = DOMAIN q \cup {Len(q) + 1}
           /\ Len(q) + 1 \notin DOMAIN q
           /\ \A i \in DOMAIN q : Append(q, x)[i] = q[i]
           /\ Append(q, x)[Len(q) + 1] = x
<1>1. Append(q, x) \in Seq(Item) /\ Len(Append(q, x)) = Len(q) + 1
  BY AppendProperties
<1>2. Len(q) \in Nat /\ DOMAIN q = 1 .. Len(q)
  OBVIOUS
<1>3. DOMAIN Append(q, x) = 1 .. Len(q) + 1
  BY <1>1, <1>2
<1>4. (\A i \in 1 .. Len(q) : Append(q, x)[i] = q[i]) /\ Append(q, x)[Len(q) + 1] = x
  BY AppendProperties
<1> QED
  BY <1>1, <1>2, <1>3, <1>4

(* A new registration at the end of a queue. *)
LEMMA AppendRegistered ==
    ASSUME NEW q, NEW id, NEW kinds, NEW o, Registered(q, id, kinds, o),
           NEW n, NEW kind \in Kinds, NEW rec \in Records, NEW o2,
           New(n, o, kind, rec, id, o2), kind \in kinds,
           NEW x, x = [kind |-> kind, rec |-> rec, tags |-> <<n>>]
    PROVE  /\ Registered(Append(q, x), id, kinds, o2)
           /\ TagsOf(Append(q, x)) = TagsOf(q) \cup {n}
           /\ Rising(q) => Rising(Append(q, x))
           /\ Alone(q) /\ (kind \in OnceKinds => ~In(q, x)) => Alone(Append(q, x))
           /\ Extends(Append(q, x), q)
<1> DEFINE p == Append(q, x)
           l == Len(q) + 1
<1>1. q \in Seq(Item)
  BY DEF Registered
<1>2. /\ x \in Item /\ x.kind = kind /\ x.rec = rec /\ x.tags = <<n>>
      /\ Len(x.tags) = 1 /\ DOMAIN x.tags = {1} /\ x.tags[1] = n
  BY DEF Item, New
<1>3. /\ p \in Seq(Item) /\ DOMAIN p = DOMAIN q \cup {l} /\ l \notin DOMAIN q
      /\ DOMAIN q = 1 .. Len(q) /\ l = Len(q) + 1 /\ Len(q) \in Nat /\ Len(p) = l
      /\ \A i \in DOMAIN q : p[i] = q[i]
      /\ p[l] = x
  BY <1>1, <1>2, AppendItem
<1> HIDE DEF p, l
<1>4. Registered(q, id, kinds, o2)
  BY RegisteredGrows DEF New
<1>5. Belongs(x, id, kinds, o2)
  BY <1>2 DEF Belongs, New
<1>6. ASSUME NEW i \in DOMAIN q, NEW k \in DOMAIN q[i].tags
      PROVE  q[i].tags[k] # n /\ q[i].tags[k] < n
  <2>1. Belongs(q[i], id, kinds, o)
    BY DEF Registered
  <2> QED
    BY <2>1 DEF Belongs, New
<1>7. Distinct(p)
  <2> SUFFICES ASSUME NEW i \in DOMAIN p, NEW j \in DOMAIN p,
                      NEW k \in DOMAIN p[i].tags, NEW m \in DOMAIN p[j].tags,
                      p[i].tags[k] = p[j].tags[m]
               PROVE  i = j /\ k = m
    BY DEF Distinct
  <2>1. CASE i \in DOMAIN q /\ j \in DOMAIN q
    <3>1. Distinct(q) /\ p[i] = q[i] /\ p[j] = q[j]
      BY <1>3, <2>1 DEF Registered
    <3> QED
      BY <2>1, <3>1 DEF Distinct
  <2>2. CASE i = l /\ j = l
    BY <1>2, <1>3, <2>2
  <2>3. CASE i \in DOMAIN q /\ j = l
    BY <1>2, <1>3, <1>6, <2>3
  <2>4. CASE i = l /\ j \in DOMAIN q
    BY <1>2, <1>3, <1>6, <2>4
  <2> QED
    BY <1>3, <2>1, <2>2, <2>3, <2>4
<1>8. Registered(p, id, kinds, o2)
  BY <1>3, <1>4, <1>5, <1>7 DEF Registered
<1>9. TagsOf(p) = TagsOf(q) \cup {n}
  <2>1. ASSUME NEW t \in TagsOf(p)  PROVE t \in TagsOf(q) \cup {n}
    <3>1. PICK i \in DOMAIN p : \E k \in DOMAIN p[i].tags : p[i].tags[k] = t
      BY DEF TagsOf
    <3>2. CASE i = l
      BY <1>2, <1>3, <3>1, <3>2
    <3>3. CASE i \in DOMAIN q
      BY <1>3, <3>1, <3>3 DEF TagsOf
    <3> QED
      BY <1>3, <3>2, <3>3
  <2>2. ASSUME NEW t \in TagsOf(q)  PROVE t \in TagsOf(p)
    <3>1. PICK i \in DOMAIN q : \E k \in DOMAIN q[i].tags : q[i].tags[k] = t
      BY DEF TagsOf
    <3> QED
      BY <1>3, <3>1 DEF TagsOf
  <2>3. n \in TagsOf(p)
    BY <1>2, <1>3 DEF TagsOf, New
  <2> QED
    BY <2>1, <2>2, <2>3
<1>10. Rising(q) => Rising(p)
  <2> SUFFICES ASSUME Rising(q), NEW i \in DOMAIN p, NEW j \in DOMAIN p, i < j
               PROVE  p[i].tags[1] < p[j].tags[1]
    BY DEF Rising
  <2>1. i \in DOMAIN q
    BY <1>3
  <2>2. CASE j \in DOMAIN q
    BY <1>3, <2>1, <2>2 DEF Rising
  <2>3. CASE j = l
    BY <1>2, <1>3, <1>6, <2>1, <2>3, RegisteredFacts
  <2> QED
    BY <1>3, <2>2, <2>3
<1>11. Alone(q) /\ (kind \in OnceKinds => ~In(q, x)) => Alone(p)
  <2> SUFFICES ASSUME Alone(q), kind \in OnceKinds => ~In(q, x),
                      NEW i \in DOMAIN p, NEW j \in DOMAIN p,
                      p[i].kind \in OnceKinds, Same(p[i], p[j]), i # j
               PROVE  FALSE
    BY DEF Alone
  <2>1. CASE i \in DOMAIN q /\ j \in DOMAIN q
    BY <1>3, <2>1 DEF Alone
  <2>2. CASE i \in DOMAIN q /\ j = l
    <3>1. Same(q[i], x) /\ kind \in OnceKinds
      BY <1>2, <1>3, <2>2 DEF Same
    <3> QED
      BY <2>2, <3>1 DEF In
  <2>3. CASE j \in DOMAIN q /\ i = l
    <3>1. Same(q[j], x) /\ kind \in OnceKinds
      BY <1>2, <1>3, <2>3 DEF Same
    <3> QED
      BY <2>3, <3>1 DEF In
  <2> QED
    BY <1>3, <2>1, <2>2, <2>3
<1>12. Extends(p, q)
  <2>1. ASSUME NEW i \in DOMAIN q  PROVE Len(q[i].tags) <= Len(q[i].tags)
    <3>1. Len(q[i].tags) \in Nat
      BY <1>1, ItemFacts
    <3> QED
      BY <3>1
  <2> QED
    BY <1>3, <2>1 DEF Extends
<1> QED
  BY <1>8, <1>9, <1>10, <1>11, <1>12 DEF p

Put(q, s, x) == [q EXCEPT ![s] = x]

WithTag(x, n) == [x EXCEPT !.tags = Append(x.tags, n)]

(* A registration into a record's slot. *)
LEMMA SlotRegistered ==
    ASSUME NEW q, NEW id, NEW kinds, NEW o, Registered(q, id, kinds, o),
           NEW n, NEW rec \in Records, NEW o2,
           New(n, o, "hooks", rec, id, o2),
           NEW s \in DOMAIN q, q[s].kind = "hooks", q[s].rec = rec,
           NEW p, p = Put(q, s, WithTag(q[s], n))
    PROVE  /\ Registered(p, id, kinds, o2)
           /\ TagsOf(p) = TagsOf(q) \cup {n}
           /\ Rising(q) => Rising(p)
           /\ Alone(q) => Alone(p)
           /\ Extends(p, q)
<1>1. q \in Seq(Item) /\ q[s] \in Item /\ n \in Tags
  BY DEF Registered, New
<1> DEFINE l == Len(q[s].tags) + 1
           x == WithTag(q[s], n)
<1>2. /\ Len(q[s].tags) \in Nat /\ DOMAIN q[s].tags = 1 .. Len(q[s].tags)
      /\ q[s].tags \in Seq(Tags)
  BY <1>1, ItemFacts
<1>3. /\ Append(q[s].tags, n) \in Seq(Tags) /\ Len(Append(q[s].tags, n)) = l
      /\ \A k \in DOMAIN q[s].tags : Append(q[s].tags, n)[k] = q[s].tags[k]
      /\ Append(q[s].tags, n)[l] = n
  BY <1>1, <1>2, AppendProperties
<1>4. /\ x \in Item /\ x.kind = "hooks" /\ x.rec = rec /\ x.tags = Append(q[s].tags, n)
  BY <1>1, <1>3 DEF Item, WithTag
<1>5. /\ Len(x.tags) = l /\ DOMAIN x.tags = DOMAIN q[s].tags \cup {l}
      /\ l \notin DOMAIN q[s].tags /\ l \in Nat /\ l = Len(q[s].tags) + 1
      /\ \A k \in DOMAIN q[s].tags : x.tags[k] = q[s].tags[k]
      /\ x.tags[l] = n
  <2>1. DOMAIN Append(q[s].tags, n) = 1 .. l
    BY <1>2, <1>3
  <2> QED
    BY <1>2, <1>3, <1>4, <2>1
<1>6. /\ p \in Seq(Item) /\ DOMAIN p = DOMAIN q /\ Len(p) = Len(q) /\ p[s] = x
      /\ DOMAIN q = 1 .. Len(q) /\ Len(q) \in Nat
      /\ \A i \in DOMAIN q \ {s} : p[i] = q[i]
  <2>1. p = [q EXCEPT ![s] = x]
    BY DEF Put
  <2> HIDE DEF x
  <2>2. s \in 1 .. Len(q) /\ DOMAIN q = 1 .. Len(q) /\ Len(q) \in Nat
    BY <1>1
  <2>3. /\ [q EXCEPT ![s] = x] \in Seq(Item) /\ Len([q EXCEPT ![s] = x]) = Len(q)
        /\ \A j \in 1 .. Len(q) : [q EXCEPT ![s] = x][j] = IF j = s THEN x ELSE q[j]
    BY <1>1, <1>4, <2>2, ExceptSeq
  <2>4. /\ p \in Seq(Item) /\ Len(p) = Len(q)
        /\ \A j \in 1 .. Len(q) : p[j] = IF j = s THEN x ELSE q[j]
    BY ONLY <2>1, <2>3
  <2> QED
    BY <2>2, <2>4
<1> HIDE DEF x, l
<1>7. Registered(q, id, kinds, o2)
  BY RegisteredGrows DEF New
<1>8. Belongs(x, id, kinds, o2)
  <2>1. Belongs(q[s], id, kinds, o2)
    BY <1>7 DEF Registered
  <2>2. Len(x.tags) >= 1
    BY <1>2, <1>5
  <2>3. ASSUME NEW k \in DOMAIN x.tags
        PROVE  /\ x.tags[k] \in DOMAIN o2
               /\ o2[x.tags[k]] = [kind |-> x.kind, rec |-> x.rec, tx |-> id]
    <3>1. CASE k = l
      BY <1>4, <1>5, <3>1 DEF New
    <3>2. CASE k \in DOMAIN q[s].tags
      BY <1>4, <1>5, <2>1, <3>2 DEF Belongs
    <3> QED
      BY <1>5, <2>3, <3>1, <3>2
  <2> QED
    BY <1>4, <2>1, <2>2, <2>3 DEF Belongs
<1>9. ASSUME NEW i \in DOMAIN q, NEW k \in DOMAIN q[i].tags
      PROVE  q[i].tags[k] # n
  <2>1. Belongs(q[i], id, kinds, o)
    BY DEF Registered
  <2> QED
    BY <2>1 DEF Belongs, New
(* Every tag of p is n, in its place, or q's. *)
<1>10. ASSUME NEW i \in DOMAIN p, NEW k \in DOMAIN p[i].tags
       PROVE  /\ i \in DOMAIN q
              /\ \/ i = s /\ k = l /\ p[i].tags[k] = n
                 \/ /\ k \in DOMAIN q[i].tags /\ p[i].tags[k] = q[i].tags[k]
                    /\ p[i].tags[k] # n
  <2>1. CASE i = s
    BY <1>5, <1>6, <1>9, <2>1
  <2>2. CASE i # s
    BY <1>6, <1>9, <2>2
  <2> QED
    BY <1>6, <2>1, <2>2
<1>11. Distinct(p)
  <2> SUFFICES ASSUME NEW i \in DOMAIN p, NEW j \in DOMAIN p,
                      NEW k \in DOMAIN p[i].tags, NEW m \in DOMAIN p[j].tags,
                      p[i].tags[k] = p[j].tags[m]
               PROVE  i = j /\ k = m
    BY DEF Distinct
  <2>1. CASE p[i].tags[k] = n
    BY <1>10, <2>1
  <2>2. CASE p[i].tags[k] # n
    <3>1. /\ Distinct(q) /\ i \in DOMAIN q /\ j \in DOMAIN q
          /\ k \in DOMAIN q[i].tags /\ m \in DOMAIN q[j].tags
          /\ q[i].tags[k] = q[j].tags[m]
      BY <1>10, <2>2 DEF Registered
    <3> QED
      BY <3>1 DEF Distinct
  <2> QED
    BY <2>1, <2>2
<1>12. Registered(p, id, kinds, o2)
  BY <1>6, <1>7, <1>8, <1>11 DEF Registered
<1>13. ASSUME NEW i \in DOMAIN q, NEW k \in DOMAIN q[i].tags
       PROVE  k \in DOMAIN p[i].tags /\ p[i].tags[k] = q[i].tags[k]
  BY <1>5, <1>6
<1>14. TagsOf(p) = TagsOf(q) \cup {n}
  <2>1. ASSUME NEW t \in TagsOf(p)  PROVE t \in TagsOf(q) \cup {n}
    <3>1. PICK i \in DOMAIN p : \E k \in DOMAIN p[i].tags : p[i].tags[k] = t
      BY DEF TagsOf
    <3>2. PICK k \in DOMAIN p[i].tags : p[i].tags[k] = t
      BY <3>1
    <3> QED
      BY <1>10, <3>2 DEF TagsOf
  <2>2. ASSUME NEW t \in TagsOf(q)  PROVE t \in TagsOf(p)
    <3>1. PICK i \in DOMAIN q : \E k \in DOMAIN q[i].tags : q[i].tags[k] = t
      BY DEF TagsOf
    <3>2. PICK k \in DOMAIN q[i].tags : q[i].tags[k] = t
      BY <3>1
    <3> QED
      BY <1>6, <1>13, <3>2 DEF TagsOf
  <2>3. n \in TagsOf(p)
    BY <1>1, <1>5, <1>6 DEF TagsOf
  <2> QED
    BY <2>1, <2>2, <2>3
<1>15. \A i \in DOMAIN q : p[i].kind = q[i].kind /\ p[i].rec = q[i].rec
  BY <1>4, <1>6
<1>16. \A i \in DOMAIN q : p[i].tags[1] = q[i].tags[1]
  BY <1>13, RegisteredFacts
<1>17. Rising(q) => Rising(p)
  BY <1>6, <1>16 DEF Rising
<1>18. Alone(q) => Alone(p)
  BY <1>6, <1>15 DEF Alone, Same
<1>19. Extends(p, q)
  <2>1. ASSUME NEW i \in DOMAIN q  PROVE Len(q[i].tags) <= Len(p[i].tags)
    <3>1. Len(q[i].tags) \in Nat
      BY <1>1, ItemFacts
    <3> QED
      BY <1>5, <1>6, <3>1
  <2> QED
    BY <1>6, <1>13, <1>15, <2>1 DEF Extends
<1> QED
  BY <1>12, <1>14, <1>17, <1>18, <1>19
-----------------------------------------------------------------------------
(* What a savepoint keeps of a queue (KeptQueue).                          *)

(* A savepoint of this queue. *)
Fits(s, q) ==
    /\ s.callbacks \in 0 .. Len(q)
    /\ DOMAIN s.hooks = 1 .. s.callbacks
    /\ \A i \in 1 .. s.callbacks : s.hooks[i] \in 1 .. Len(q[i].tags)

(* The first h of a sequence. *)
LEMMA SubSeqFirst ==
    ASSUME NEW S, NEW s \in Seq(S), NEW h \in 0 .. Len(s)
    PROVE  /\ SubSeq(s, 1, h) \in Seq(S) /\ Len(SubSeq(s, 1, h)) = h
           /\ DOMAIN SubSeq(s, 1, h) = 1 .. h
           /\ \A i \in 1 .. h : SubSeq(s, 1, h)[i] = s[i] /\ i \in DOMAIN s
<1>1. h \in Int /\ h >= 0 /\ \A i \in 1 .. h : i \in DOMAIN s /\ s[i] \in S
  OBVIOUS
<1>2. /\ SubSeq(s, 1, h) \in Seq(S)
      /\ Len(SubSeq(s, 1, h)) = IF 1 <= h THEN h - 1 + 1 ELSE 0
      /\ \A i \in 1 .. h - 1 + 1 : SubSeq(s, 1, h)[i] = s[1 + i - 1]
  BY <1>1, SubSeqProperties
<1>3. Len(SubSeq(s, 1, h)) = h
  BY <1>1, <1>2
<1>4. ASSUME NEW i \in 1 .. h  PROVE SubSeq(s, 1, h)[i] = s[i]
  <2>1. i \in 1 .. h - 1 + 1 /\ 1 + i - 1 = i
    BY <1>1
  <2>2. SubSeq(s, 1, h)[i] = s[1 + i - 1]
    BY <1>2, <2>1
  <2> QED
    BY <2>1, <2>2
<1> QED
  BY <1>1, <1>2, <1>3, <1>4

(* An item with other tags. *)
LEMMA KeptItem ==
    ASSUME NEW x \in Item, NEW v
    PROVE  /\ [x EXCEPT !.tags = v] = [kind |-> x.kind, rec |-> x.rec, tags |-> v]
           /\ v \in Seq(Tags) => [x EXCEPT !.tags = v] \in Item
BY DEF Item

(* x is y up to its tag h. *)
UpTo(x, y, h) ==
    /\ x.kind = y.kind /\ x.rec = y.rec
    /\ Len(x.tags) = h /\ h \in 1 .. Len(y.tags) /\ DOMAIN x.tags = 1 .. h
    /\ \A k \in DOMAIN x.tags : x.tags[k] = y.tags[k]

(* p is what the savepoint keeps of q. *)
KeptOf(p, q, s) ==
    /\ p \in Seq(Item) /\ Len(p) = s.callbacks /\ DOMAIN p = 1 .. s.callbacks
    /\ \A i \in DOMAIN p : i \in DOMAIN q /\ UpTo(p[i], q[i], s.hooks[i])

(* A rollback keeps the earlier items, up to their tags then. *)
LEMMA KeptFacts ==
    ASSUME NEW q, NEW id, NEW kinds, NEW o, Registered(q, id, kinds, o),
           NEW s, Fits(s, q), NEW p, p = KeptQueue(q, s)
    PROVE  KeptOf(p, q, s)
<1>1. q \in Seq(Item) /\ s.callbacks \in Nat /\ DOMAIN q = 1 .. Len(q) /\ Len(q) \in Nat
  BY DEF Registered, Fits
<1>2. p = [i \in 1 .. s.callbacks |-> [q[i] EXCEPT !.tags = SubSeq(@, 1, s.hooks[i])]]
  BY DEF KeptQueue
<1>3. ASSUME NEW i \in 1 .. s.callbacks
      PROVE  i \in DOMAIN q /\ p[i] \in Item /\ UpTo(p[i], q[i], s.hooks[i])
  <2>1. i \in DOMAIN q /\ s.hooks[i] \in 1 .. Len(q[i].tags)
    BY <1>1 DEF Fits
  <2>2. q[i] \in Item /\ q[i].tags \in Seq(Tags) /\ Len(q[i].tags) \in Nat
    BY <1>1, <2>1, ItemFacts
  <2> DEFINE v == SubSeq(q[i].tags, 1, s.hooks[i])
  <2>3. s.hooks[i] \in 0 .. Len(q[i].tags)
    BY <2>1, <2>2
  <2>4. /\ v \in Seq(Tags) /\ Len(v) = s.hooks[i] /\ DOMAIN v = 1 .. s.hooks[i]
        /\ \A k \in 1 .. s.hooks[i] : v[k] = q[i].tags[k]
    BY <2>2, <2>3, SubSeqFirst
  <2>5. p[i] = [q[i] EXCEPT !.tags = v]
    BY <1>2
  <2> HIDE DEF v
  <2>6. p[i] \in Item /\ p[i] = [kind |-> q[i].kind, rec |-> q[i].rec, tags |-> v]
    BY <2>2, <2>4, <2>5, KeptItem
  <2>7. p[i].kind = q[i].kind /\ p[i].rec = q[i].rec /\ p[i].tags = v
    BY <2>6
  <2> QED
    BY <2>1, <2>4, <2>6, <2>7 DEF UpTo
<1>4. DOMAIN p = 1 .. s.callbacks
  BY <1>2
<1>5. p \in Seq(Item) /\ Len(p) = s.callbacks
  <2>1. p \in [1 .. s.callbacks -> Item]
    BY <1>2, <1>3
  <2> QED
    BY <1>1, <2>1
<1> QED
  BY <1>3, <1>4, <1>5 DEF KeptOf

(* What a rollback keeps is as well registered. *)
LEMMA KeptRegistered ==
    ASSUME NEW q, NEW id, NEW kinds, NEW o, Registered(q, id, kinds, o),
           NEW s, Fits(s, q), NEW p, p = KeptQueue(q, s)
    PROVE  /\ Registered(p, id, kinds, o) /\ TagsOf(p) \subseteq TagsOf(q)
           /\ Rising(q) => Rising(p)
           /\ Alone(q) => Alone(p)
           /\ Extends(q, p)
<1>0. KeptOf(p, q, s)
  BY KeptFacts
<1>1. p \in Seq(Item) /\ Len(p) = s.callbacks /\ DOMAIN p = 1 .. s.callbacks
  BY <1>0 DEF KeptOf
<1>2. \A i \in DOMAIN p :
         /\ i \in DOMAIN q
         /\ p[i].kind = q[i].kind /\ p[i].rec = q[i].rec
         /\ Len(p[i].tags) = s.hooks[i] /\ s.hooks[i] \in 1 .. Len(q[i].tags)
         /\ DOMAIN p[i].tags = 1 .. s.hooks[i]
         /\ \A k \in DOMAIN p[i].tags : p[i].tags[k] = q[i].tags[k]
  BY <1>0 DEF KeptOf, UpTo
<1>3. \A i \in DOMAIN p :
         Len(q[i].tags) \in Nat /\ DOMAIN q[i].tags = 1 .. Len(q[i].tags)
  BY <1>2, ItemFacts DEF Registered
<1>4. PartBy(p, q, [i \in DOMAIN p |-> i], [i \in DOMAIN p |-> 0])
  <2>1. ASSUME NEW i \in DOMAIN p
        PROVE  /\ Len(p[i].tags) >= 1 /\ Len(p[i].tags) + 0 <= Len(q[i].tags)
               /\ \A k \in DOMAIN p[i].tags : p[i].tags[k] = q[i].tags[k + 0]
    BY <1>2, <1>3
  <2> QED
    BY <1>2, <2>1 DEF PartBy
<1>5. Registered(p, id, kinds, o) /\ TagsOf(p) \subseteq TagsOf(q)
  BY <1>1, <1>4, PartRegistered DEF Part
<1>6. Rising(q) => Rising(p)
  <2>1. \A i \in DOMAIN p : p[i].tags[1] = q[i].tags[1]
    BY <1>2
  <2> QED
    BY <1>2, <2>1 DEF Rising
<1>7. Alone(q) => Alone(p)
  BY <1>2 DEF Alone, Same
<1>8. Extends(q, p)
  <2>1. \A i \in DOMAIN p : Len(p[i].tags) <= Len(q[i].tags)
    BY <1>2, <1>3
  <2>2. Len(p) <= Len(q)
    BY <1>1 DEF Fits, Registered
  <2> QED
    BY <1>2, <2>1, <2>2 DEF Extends
<1> QED
  BY <1>5, <1>6, <1>7, <1>8

(* What is registered since does not change what a rollback keeps. *)
LEMMA KeptSame ==
    ASSUME NEW q, NEW id, NEW kinds, NEW o, Registered(q, id, kinds, o),
           NEW q2, NEW o2, Registered(q2, id, kinds, o2), Extends(q2, q),
           NEW s, Fits(s, q)
    PROVE  KeptQueue(q2, s) = KeptQueue(q, s) /\ Fits(s, q2)
<1>1. q \in Seq(Item) /\ q2 \in Seq(Item)
  BY DEF Registered
<1>2. ASSUME NEW i \in 1 .. s.callbacks
      PROVE  /\ s.hooks[i] \in 1 .. Len(q2[i].tags)
             /\ [q2[i] EXCEPT !.tags = SubSeq(@, 1, s.hooks[i])] =
                [q[i] EXCEPT !.tags = SubSeq(@, 1, s.hooks[i])]
  <2>1. i \in DOMAIN q /\ i \in DOMAIN q2
    BY <1>1 DEF Fits, Extends
  <2>2. /\ q[i] \in Item /\ q2[i] \in Item /\ Len(q[i].tags) \in Nat
        /\ Len(q2[i].tags) \in Nat /\ q[i].tags \in Seq(Tags) /\ q2[i].tags \in Seq(Tags)
        /\ DOMAIN q[i].tags = 1 .. Len(q[i].tags)
    BY <1>1, <2>1, ItemFacts
  <2> DEFINE h == s.hooks[i]
  <2>3. h \in 1 .. Len(q[i].tags) /\ Len(q[i].tags) <= Len(q2[i].tags)
    BY <2>1 DEF Fits, Extends
  <2> HIDE DEF h
  <2>4. h \in 0 .. Len(q[i].tags) /\ h \in 0 .. Len(q2[i].tags) /\ h \in 1 .. Len(q2[i].tags)
    BY <2>2, <2>3
  <2>5. SubSeq(q2[i].tags, 1, h) = SubSeq(q[i].tags, 1, h)
    <3> DEFINE a == SubSeq(q2[i].tags, 1, h)
               b == SubSeq(q[i].tags, 1, h)
    <3>1. /\ a \in Seq(Tags) /\ Len(a) = h
          /\ \A k \in 1 .. h : a[k] = q2[i].tags[k]
      BY <2>2, <2>4, SubSeqFirst
    <3>2. /\ b \in Seq(Tags) /\ Len(b) = h
          /\ \A k \in 1 .. h : b[k] = q[i].tags[k] /\ k \in DOMAIN q[i].tags
      BY <2>2, <2>4, SubSeqFirst
    <3> HIDE DEF a, b
    <3>3. \A k \in 1 .. Len(a) : a[k] = b[k]
      BY <2>1, <3>1, <3>2 DEF Extends
    <3>4. a = b
      BY <3>1, <3>2, <3>3, SeqEqual
    <3> QED
      BY <3>4 DEF a, b
  <2>6. q2[i].kind = q[i].kind /\ q2[i].rec = q[i].rec
    BY <2>1 DEF Extends
  <2> DEFINE a == SubSeq(q2[i].tags, 1, h)
             b == SubSeq(q[i].tags, 1, h)
  <2>7. /\ [q2[i] EXCEPT !.tags = a] = [kind |-> q2[i].kind, rec |-> q2[i].rec, tags |-> a]
        /\ [q[i] EXCEPT !.tags = b] = [kind |-> q[i].kind, rec |-> q[i].rec, tags |-> b]
    BY <2>2, KeptItem
  <2>8. [q2[i] EXCEPT !.tags = a] = [q[i] EXCEPT !.tags = b]
    BY <2>5, <2>6, <2>7
  <2> QED
    BY <2>4, <2>8 DEF h
<1>3. KeptQueue(q2, s) = KeptQueue(q, s)
  BY <1>2 DEF KeptQueue
<1>4. s.callbacks \in 0 .. Len(q2)
  BY <1>1 DEF Fits, Extends
<1> QED
  BY <1>2, <1>3, <1>4 DEF Fits
-----------------------------------------------------------------------------
(* The first items of a queue, and what is left when one is taken.         *)

(* Sequences that agree up to h. *)
LEMMA FirstsSame ==
    ASSUME NEW S, NEW s \in Seq(S), NEW t \in Seq(S), NEW h \in Nat,
           h <= Len(s), h <= Len(t), \A i \in 1 .. h : s[i] = t[i]
    PROVE  SubSeq(s, 1, h) = SubSeq(t, 1, h)
<1> DEFINE a == SubSeq(s, 1, h)
           b == SubSeq(t, 1, h)
<1>1. h \in 0 .. Len(s) /\ h \in 0 .. Len(t)
  OBVIOUS
<1>2. a \in Seq(S) /\ Len(a) = h /\ \A k \in 1 .. h : a[k] = s[k]
  BY <1>1, SubSeqFirst
<1>3. b \in Seq(S) /\ Len(b) = h /\ \A k \in 1 .. h : b[k] = t[k]
  BY <1>1, SubSeqFirst
<1> HIDE DEF a, b
<1>4. \A k \in 1 .. Len(a) : a[k] = b[k]
  BY <1>2, <1>3
<1>5. a = b
  BY <1>2, <1>3, <1>4, SeqEqual
<1> QED
  BY <1>5 DEF a, b

(* p is some items of q, whole. *)
LEMMA WholePart ==
    ASSUME NEW q, NEW id, NEW kinds, NEW o, Registered(q, id, kinds, o),
           NEW p \in Seq(Item), NEW m \in [DOMAIN p -> DOMAIN q],
           \A i, j \in DOMAIN p : m[i] = m[j] => i = j,
           \A i \in DOMAIN p : p[i] = q[m[i]]
    PROVE  Registered(p, id, kinds, o) /\ TagsOf(p) \subseteq TagsOf(q)
<1>1. ASSUME NEW i \in DOMAIN p
      PROVE  /\ Len(p[i].tags) >= 1 /\ Len(p[i].tags) + 0 <= Len(q[m[i]].tags)
             /\ \A k \in DOMAIN p[i].tags : p[i].tags[k] = q[m[i]].tags[k + 0]
  <2>1. m[i] \in DOMAIN q /\ p[i] = q[m[i]]
    OBVIOUS
  <2>2. Belongs(q[m[i]], id, kinds, o) /\ q \in Seq(Item)
    BY <2>1 DEF Registered
  <2>3. Len(q[m[i]].tags) \in Nat /\ DOMAIN q[m[i]].tags = 1 .. Len(q[m[i]].tags)
    BY <2>1, <2>2, ItemFacts
  <2>4. Len(p[i].tags) >= 1
    BY <2>1, <2>2 DEF Belongs
  <2> QED
    BY <2>1, <2>3, <2>4
<1>2. PartBy(p, q, m, [i \in DOMAIN p |-> 0])
  BY <1>1 DEF PartBy
<1> QED
  BY <1>2, PartRegistered DEF Part

(* p is the first h items of q. *)
FirstOf(p, q, h) ==
    /\ p \in Seq(Item) /\ Len(p) = h /\ TagsOf(p) \subseteq TagsOf(q)
    /\ \A i \in 1 .. h : p[i] = q[i]

(* The first items of a queue are as well registered. *)
LEMMA FirstsRegistered ==
    ASSUME NEW q, NEW id, NEW kinds, NEW o, Registered(q, id, kinds, o),
           NEW h \in 0 .. Len(q), NEW p, p = SubSeq(q, 1, h)
    PROVE  /\ Registered(p, id, kinds, o)
           /\ Rising(q) => Rising(p)
           /\ FirstOf(p, q, h)
<1>1. q \in Seq(Item)
  BY DEF Registered
<1>2. /\ p \in Seq(Item) /\ DOMAIN p = 1 .. h /\ Len(p) = h
      /\ \A i \in 1 .. h : p[i] = q[i] /\ i \in DOMAIN q
  BY <1>1, SubSeqFirst
<1> DEFINE m == [i \in DOMAIN p |-> i]
<1>3. /\ m \in [DOMAIN p -> DOMAIN q]
      /\ \A i, j \in DOMAIN p : m[i] = m[j] => i = j
      /\ \A i \in DOMAIN p : p[i] = q[m[i]]
  BY <1>2
<1>4. Registered(p, id, kinds, o) /\ TagsOf(p) \subseteq TagsOf(q)
  <2>1. p \in Seq(Item)
    BY <1>2
  <2> HIDE DEF m
  <2> QED
    BY ONLY Registered(q, id, kinds, o), <1>3, <2>1, WholePart
<1>5. Rising(q) => Rising(p)
  BY <1>2 DEF Rising
<1>6. FirstOf(p, q, h)
  BY <1>2, <1>4 DEF FirstOf
<1> QED
  BY <1>4, <1>5, <1>6

(* p is what is left of q when its first registration is taken. *)
Takes(p, q, id, kinds, o) ==
    /\ Registered(p, id, kinds, o)
    /\ q[1].tags[1] \in TagsOf(q)
    /\ TagsOf(p) = TagsOf(q) \ {q[1].tags[1]}

(* The first item goes with its only registration. *)
LEMMA TailTakes ==
    ASSUME NEW q, NEW id, NEW kinds, NEW o, Registered(q, id, kinds, o),
           q # <<>>, Len(q[1].tags) = 1
    PROVE  Takes(Tail(q), q, id, kinds, o)
<1> DEFINE p == Tail(q)
<1>1. q \in Seq(Item) /\ DOMAIN q = 1 .. Len(q) /\ Len(q) \in Nat /\ Len(q) >= 1
  <2>1. q \in Seq(Item)
    BY DEF Registered
  <2> QED
    BY <2>1
<1>2. /\ p \in Seq(Item) /\ Len(p) = Len(q) - 1
      /\ \A i \in 1 .. Len(p) : p[i] = q[i + 1]
  BY <1>1, HeadTailProperties
<1> HIDE DEF p
<1>3. DOMAIN p = 1 .. Len(q) - 1 /\ \A i \in DOMAIN p : p[i] = q[i + 1] /\ i + 1 \in DOMAIN q
  BY <1>1, <1>2
<1> DEFINE m == [i \in DOMAIN p |-> i + 1]
<1>4. /\ m \in [DOMAIN p -> DOMAIN q]
      /\ \A i, j \in DOMAIN p : m[i] = m[j] => i = j
      /\ \A i \in DOMAIN p : p[i] = q[m[i]]
  BY <1>3
<1>5. Registered(p, id, kinds, o) /\ TagsOf(p) \subseteq TagsOf(q)
  <2> HIDE DEF m
  <2> QED
    BY <1>2, <1>4, WholePart
<1>6. 1 \in DOMAIN q /\ 1 \in DOMAIN q[1].tags /\ q[1].tags[1] \in TagsOf(q)
  BY <1>1, RegisteredFacts
<1>7. DOMAIN q[1].tags = {1}
  BY <1>1, <1>6, ItemFacts
<1>8. q[1].tags[1] \notin TagsOf(p)
  <2> SUFFICES ASSUME q[1].tags[1] \in TagsOf(p)  PROVE FALSE
    OBVIOUS
  <2>1. PICK i \in DOMAIN p : \E k \in DOMAIN p[i].tags : p[i].tags[k] = q[1].tags[1]
    BY DEF TagsOf
  <2>2. PICK k \in DOMAIN p[i].tags : p[i].tags[k] = q[1].tags[1]
    BY <2>1
  <2>3. i + 1 \in DOMAIN q /\ k \in DOMAIN q[i + 1].tags /\ q[i + 1].tags[k] = q[1].tags[1]
    BY <1>3, <2>2
  <2>4. i + 1 # 1
    BY <1>1, <1>3
  <2>5. Distinct(q)
    BY DEF Registered
  <2> QED
    BY <1>6, <2>3, <2>4, <2>5 DEF Distinct
<1>9. ASSUME NEW t \in TagsOf(q), t # q[1].tags[1]  PROVE t \in TagsOf(p)
  <2>1. PICK i \in DOMAIN q : \E k \in DOMAIN q[i].tags : q[i].tags[k] = t
    BY DEF TagsOf
  <2>2. i # 1
    BY <1>7, <1>9, <2>1
  <2>3. i - 1 \in DOMAIN p /\ p[i - 1] = q[i]
    <3>1. i - 1 \in DOMAIN p /\ (i - 1) + 1 = i
      BY <1>1, <1>3, <2>2
    <3> QED
      BY <1>3, <3>1
  <2> QED
    BY <2>1, <2>3 DEF TagsOf
<1> QED
  BY <1>5, <1>6, <1>8, <1>9 DEF Takes, p

(* A record's slot keeps its later registrations. *)
LEMMA SlotTakes ==
    ASSUME NEW q, NEW id, NEW kinds, NEW o, Registered(q, id, kinds, o),
           q # <<>>, Len(q[1].tags) # 1,
           NEW p, p = [q EXCEPT ![1].tags = Tail(q[1].tags)]
    PROVE  Takes(p, q, id, kinds, o)
<1> DEFINE v == Tail(q[1].tags)
           x == [q[1] EXCEPT !.tags = v]
<1>1. q \in Seq(Item) /\ DOMAIN q = 1 .. Len(q) /\ Len(q) \in Nat /\ 1 \in DOMAIN q
  <2>1. q \in Seq(Item)
    BY DEF Registered
  <2> QED
    BY <2>1
<1>2. /\ q[1] \in Item /\ q[1].tags \in Seq(Tags) /\ Len(q[1].tags) \in Nat
      /\ DOMAIN q[1].tags = 1 .. Len(q[1].tags)
  BY <1>1, ItemFacts
<1>3. Belongs(q[1], id, kinds, o)
  BY <1>1 DEF Registered
<1>4. Len(q[1].tags) >= 2 /\ q[1].tags # <<>>
  <2>1. Len(q[1].tags) >= 1
    BY <1>3 DEF Belongs
  <2>2. \A n \in Nat : n >= 1 /\ n # 1 => n >= 2 /\ n # 0
    OBVIOUS
  <2>3. Len(q[1].tags) >= 2 /\ Len(q[1].tags) # 0
    BY <1>2, <2>1, <2>2
  <2> QED
    BY <2>3, EmptySeq
<1>5. /\ v \in Seq(Tags) /\ Len(v) = Len(q[1].tags) - 1
      /\ \A k \in 1 .. Len(v) : v[k] = q[1].tags[k + 1]
  BY <1>2, <1>4, HeadTailProperties
<1>6. DOMAIN v = 1 .. Len(q[1].tags) - 1 /\ \A k \in DOMAIN v : v[k] = q[1].tags[k + 1]
  BY <1>5
<1> HIDE DEF v
<1>7. x \in Item /\ x.kind = q[1].kind /\ x.rec = q[1].rec /\ x.tags = v
  BY <1>2, <1>5 DEF Item
<1>8. p = [q EXCEPT ![1] = x]
  BY DEF v
<1> HIDE DEF x
<1>9. /\ [q EXCEPT ![1] = x] \in Seq(Item) /\ Len([q EXCEPT ![1] = x]) = Len(q)
      /\ \A j \in 1 .. Len(q) : [q EXCEPT ![1] = x][j] = IF j = 1 THEN x ELSE q[j]
  BY <1>1, <1>7, ExceptSeq
<1>10. /\ p \in Seq(Item) /\ Len(p) = Len(q)
       /\ \A j \in 1 .. Len(q) : p[j] = IF j = 1 THEN x ELSE q[j]
  BY ONLY <1>8, <1>9
<1>11. DOMAIN p = DOMAIN q /\ p[1] = x /\ \A j \in DOMAIN q \ {1} : p[j] = q[j]
  BY <1>1, <1>10
<1>12. \A j \in DOMAIN q : Len(q[j].tags) \in Nat /\ Len(q[j].tags) >= 1
                           /\ DOMAIN q[j].tags = 1 .. Len(q[j].tags)
  <2> TAKE j \in DOMAIN q
  <2>1. Belongs(q[j], id, kinds, o)
    BY DEF Registered
  <2> QED
    BY <1>1, <2>1, ItemFacts DEF Belongs
<1> DEFINE m == [i \in DOMAIN p |-> i]
           d == [i \in DOMAIN p |-> IF i = 1 THEN 1 ELSE 0]
<1>13. ASSUME NEW i \in DOMAIN p
       PROVE  /\ p[i].kind = q[i].kind /\ p[i].rec = q[i].rec
              /\ Len(p[i].tags) >= 1 /\ Len(p[i].tags) + d[i] <= Len(q[i].tags)
              /\ \A k \in DOMAIN p[i].tags : p[i].tags[k] = q[i].tags[k + d[i]]
  <2>1. CASE i = 1
    <3>1. d[i] = 1 /\ p[i].tags = v
      BY <1>7, <1>11, <2>1
    <3>2. p[i].kind = q[i].kind /\ p[i].rec = q[i].rec
      BY <1>7, <1>11, <2>1
    <3>3. Len(v) >= 1 /\ Len(v) + 1 <= Len(q[1].tags)
      BY <1>2, <1>4, <1>5
    <3>4. \A k \in DOMAIN v : v[k] = q[1].tags[k + 1]
      BY <1>6
    <3> HIDE DEF d
    <3> QED
      BY <2>1, <3>1, <3>2, <3>3, <3>4
  <2>2. CASE i # 1
    <3>1. d[i] = 0 /\ p[i] = q[i]
      BY <1>11, <2>2
    <3>2. Len(q[i].tags) >= 1 /\ Len(q[i].tags) + 0 <= Len(q[i].tags)
      BY <1>11, <1>12
    <3>3. \A k \in DOMAIN q[i].tags : q[i].tags[k] = q[i].tags[k + 0]
      BY <1>11, <1>12
    <3> HIDE DEF d
    <3> QED
      BY <3>1, <3>2, <3>3
  <2> QED
    BY <2>1, <2>2
<1>14. PartBy(p, q, m, d)
  <2>1. d \in [DOMAIN p -> Nat] /\ m \in [DOMAIN p -> DOMAIN q] /\ \A i \in DOMAIN p : m[i] = i
    BY <1>11
  <2> HIDE DEF m, d
  <2> QED
    BY <1>13, <2>1 DEF PartBy
<1>15. Registered(p, id, kinds, o) /\ TagsOf(p) \subseteq TagsOf(q)
  BY <1>10, <1>14, PartRegistered DEF Part
<1>16. 1 \in DOMAIN q[1].tags /\ q[1].tags[1] \in TagsOf(q)
  BY <1>1, RegisteredFacts
<1>17. q[1].tags[1] \notin TagsOf(p)
  <2> SUFFICES ASSUME q[1].tags[1] \in TagsOf(p)  PROVE FALSE
    OBVIOUS
  <2>1. PICK i \in DOMAIN p : \E k \in DOMAIN p[i].tags : p[i].tags[k] = q[1].tags[1]
    BY DEF TagsOf
  <2>2. PICK k \in DOMAIN p[i].tags : p[i].tags[k] = q[1].tags[1]
    BY <2>1
  <2>3. Distinct(q)
    BY DEF Registered
  <2>4. CASE i = 1
    <3>1. k \in DOMAIN v /\ v[k] = q[1].tags[1]
      BY <1>7, <1>11, <2>2, <2>4
    <3>2. k + 1 \in DOMAIN q[1].tags /\ q[1].tags[k + 1] = q[1].tags[1] /\ k + 1 # 1
      BY <1>2, <1>6, <3>1
    <3> QED
      BY <1>1, <1>16, <2>3, <3>2 DEF Distinct
  <2>5. CASE i # 1
    BY <1>1, <1>11, <1>16, <2>2, <2>3, <2>5 DEF Distinct
  <2> QED
    BY <2>4, <2>5
<1>18. ASSUME NEW t \in TagsOf(q), t # q[1].tags[1]  PROVE t \in TagsOf(p)
  <2>1. PICK i \in DOMAIN q : \E k \in DOMAIN q[i].tags : q[i].tags[k] = t
    BY DEF TagsOf
  <2>2. PICK k \in DOMAIN q[i].tags : q[i].tags[k] = t
    BY <2>1
  <2>3. CASE i = 1
    <3>1. k # 1 /\ k \in 1 .. Len(q[1].tags)
      BY <1>2, <1>18, <2>2, <2>3
    <3>2. k - 1 \in DOMAIN v /\ v[k - 1] = t
      <4>1. k - 1 \in DOMAIN v /\ (k - 1) + 1 = k
        BY <1>2, <1>6, <3>1
      <4> QED
        BY <1>6, <2>2, <2>3, <4>1
    <3> QED
      BY <1>1, <1>7, <1>11, <3>2 DEF TagsOf
  <2>4. CASE i # 1
    BY <1>11, <2>1, <2>4 DEF TagsOf
  <2> QED
    BY <2>3, <2>4
<1> QED
  BY <1>15, <1>16, <1>17, <1>18 DEF Takes
-----------------------------------------------------------------------------
(* A choice of a queue's items; which one Latest makes.                    *)

(* p is the elements of q at the positions K, in some order. *)
SelectsBy(p, q, K, m) ==
    /\ m \in [DOMAIN p -> K]
    /\ \A i, j \in DOMAIN p : m[i] = m[j] => i = j
    /\ \A k \in K : \E i \in DOMAIN p : m[i] = k
    /\ \A i \in DOMAIN p : p[i] = q[m[i]]

Selects(p, q, K) == \E m : SelectsBy(p, q, K, m)

(* Picked chooses the items at the positions. *)
LEMMA PickedSelects ==
    ASSUME NEW S, NEW q \in Seq(S), NEW K, K \subseteq DOMAIN q
    PROVE  /\ Picked(q, K) \in Seq(S)
           /\ SelectsBy(Picked(q, K), q, K, InOrder(K))
<1> DEFINE n == Cardinality(K)
           m == InOrder(K)
<1>1. Len(q) \in Nat /\ K \subseteq 1 .. Len(q)
  OBVIOUS
<1>2. /\ n \in Nat /\ m \in [1 .. n -> K]
      /\ \A i, j \in 1 .. n : m[i] = m[j] => i = j
      /\ \A k \in K : \E i \in 1 .. n : m[i] = k
  BY <1>1, InOrderFacts
<1>3. Picked(q, K) = [i \in 1 .. n |-> q[m[i]]]
  BY DEF Picked
<1> HIDE DEF n, m
<1>4. Picked(q, K) \in [1 .. n -> S]
  BY <1>2, <1>3
<1>5. Picked(q, K) \in Seq(S) /\ DOMAIN Picked(q, K) = 1 .. n
  BY <1>2, <1>4
<1>6. SelectsBy(Picked(q, K), q, K, m)
  BY <1>2, <1>3, <1>5 DEF SelectsBy
<1> QED
  BY <1>5, <1>6 DEF m

(* The operations registered at the positions K. *)
TagsAt(q, K) ==
    {t \in Tags : \E i \in K : \E k \in DOMAIN q[i].tags : q[i].tags[k] = t}

(* A choice of items is as well registered. *)
LEMMA SelectsRegistered ==
    ASSUME NEW q, NEW id, NEW kinds, NEW o, Registered(q, id, kinds, o),
           NEW K, K \subseteq DOMAIN q,
           NEW p \in Seq(Item), Selects(p, q, K)
    PROVE  Registered(p, id, kinds, o) /\ TagsOf(p) = TagsAt(q, K)
<1>1. PICK m : SelectsBy(p, q, K, m)
  BY DEF Selects
<1>2. /\ m \in [DOMAIN p -> DOMAIN q]
      /\ \A i, j \in DOMAIN p : m[i] = m[j] => i = j
      /\ \A i \in DOMAIN p : p[i] = q[m[i]]
  BY <1>1 DEF SelectsBy
<1>3. Registered(p, id, kinds, o)
  BY <1>2, WholePart
<1>4. ASSUME NEW t \in TagsOf(p)  PROVE t \in TagsAt(q, K)
  <2>1. PICK i \in DOMAIN p : \E k \in DOMAIN p[i].tags : p[i].tags[k] = t
    BY DEF TagsOf
  <2>2. m[i] \in K /\ p[i] = q[m[i]]
    BY <1>1 DEF SelectsBy
  <2>3. t \in Tags
    BY DEF TagsOf
  <2> QED
    BY <2>1, <2>2, <2>3 DEF TagsAt
<1>5. ASSUME NEW t \in TagsAt(q, K)  PROVE t \in TagsOf(p)
  <2>1. PICK k \in K : \E l \in DOMAIN q[k].tags : q[k].tags[l] = t
    BY DEF TagsAt
  <2>2. PICK i \in DOMAIN p : m[i] = k
    BY <1>1 DEF SelectsBy
  <2>3. p[i] = q[k] /\ t \in Tags
    BY <1>2, <2>2 DEF TagsAt
  <2> QED
    BY <2>1, <2>3 DEF TagsOf
<1> QED
  BY <1>3, <1>4, <1>5

(* The positions whose registration is not replaced by a later one. *)
Lasts(q) ==
    {j \in DOMAIN q : LatestOnly(q[j]) => \A k \in j + 1 .. Len(q) : ~Same(q[k], q[j])}

(* The last item of the same kind and record. *)
LEMMA LastSameFacts ==
    ASSUME NEW q \in Seq(Item), NEW i \in DOMAIN q
    PROVE  /\ LastSame(q, i) \in DOMAIN q /\ Same(q[LastSame(q, i)], q[i])
           /\ \A k \in LastSame(q, i) + 1 .. Len(q) : ~Same(q[k], q[i])
<1> DEFINE S == {j \in DOMAIN q : Same(q[j], q[i])}
<1>1. Len(q) \in Nat /\ DOMAIN q = 1 .. Len(q)
  OBVIOUS
<1>2. i \in S
  BY DEF Same
<1>3. S # {} /\ S \subseteq 0 .. Len(q)
  BY <1>1, <1>2
<1>4. PICK j \in S : \A k \in S : k <= j
  <2> HIDE DEF S
  <2> QED
    BY <1>1, <1>3, GreatestNatural
<1>5. \A k \in j + 1 .. Len(q) : ~Same(q[k], q[i])
  <2> SUFFICES ASSUME NEW k \in j + 1 .. Len(q), Same(q[k], q[i])  PROVE FALSE
    OBVIOUS
  <2>1. k \in DOMAIN q /\ ~(k <= j)
    BY <1>1, <1>4
  <2> QED
    BY <1>4, <2>1
<1>6. \E l \in DOMAIN q : Same(q[l], q[i]) /\ \A k \in l + 1 .. Len(q) : ~Same(q[k], q[i])
  BY <1>4, <1>5
<1> QED
  BY <1>6 DEF LastSame

(* Latest chooses the items that no later one replaces. *)
LEMMA LatestSelects ==
    ASSUME NEW q \in Seq(Item)
    PROVE  Latest(q) \in Seq(Item) /\ Selects(Latest(q), q, Lasts(q))
<1> DEFINE r == [i \in DOMAIN q |-> IF LatestOnly(q[i]) THEN q[LastSame(q, i)] ELSE q[i]]
           p == Latest(q)
           F == Firsts(q)
           m == InOrder(F)
           at(i) == IF LatestOnly(q[i]) THEN LastSame(q, i) ELSE i
           l == [n \in DOMAIN p |-> at(m[n])]
<1>1. Len(q) \in Nat /\ DOMAIN q = 1 .. Len(q)
  OBVIOUS
<1>2. r \in Seq(Item) /\ DOMAIN r = DOMAIN q
  <2>1. r \in [1 .. Len(q) -> Item]
    <3>1. ASSUME NEW i \in DOMAIN q  PROVE r[i] \in Item
      BY LastSameFacts
    <3> QED
      BY <1>1, <3>1
  <2> QED
    BY <1>1, <2>1
<1>3. \A i \in DOMAIN q : at(i) \in DOMAIN q /\ r[i] = q[at(i)]
  BY LastSameFacts
<1>4. F \subseteq DOMAIN q /\ F \subseteq DOMAIN r /\ p = Picked(r, F)
  BY <1>2 DEF Firsts, Latest
<1>5. p \in Seq(Item) /\ SelectsBy(p, r, F, m)
  <2> HIDE DEF r, p, F
  <2>1. Picked(r, F) \in Seq(Item) /\ SelectsBy(Picked(r, F), r, F, InOrder(F))
    BY <1>2, <1>4, PickedSelects
  <2> QED
    BY <1>4, <2>1
(* Of a replaced one's positions the first is kept, for the last's item. *)
<1>6. ASSUME NEW i \in F  PROVE at(i) \in Lasts(q)
  <2>1. CASE LatestOnly(q[i])
    <3>1. /\ LastSame(q, i) \in DOMAIN q /\ Same(q[LastSame(q, i)], q[i])
          /\ \A k \in LastSame(q, i) + 1 .. Len(q) : ~Same(q[k], q[i])
      BY <1>4, LastSameFacts
    <3>2. \A k \in LastSame(q, i) + 1 .. Len(q) : ~Same(q[k], q[LastSame(q, i)])
      BY <3>1 DEF Same
    <3> QED
      BY <2>1, <3>1, <3>2 DEF Lasts
  <2>2. CASE ~LatestOnly(q[i])
    BY <1>4, <2>2 DEF Lasts
  <2> QED
    BY <2>1, <2>2
<1>7. ASSUME NEW i \in F, NEW j \in F, at(i) = at(j)  PROVE i = j
  <2>0. i \in DOMAIN q /\ j \in DOMAIN q
    BY <1>4
  <2>1. ASSUME NEW k \in DOMAIN q, LatestOnly(q[k])
        PROVE  Same(q[LastSame(q, k)], q[k]) /\ LatestOnly(q[LastSame(q, k)])
    BY <2>1, LastSameFacts DEF Same, LatestOnly
  <2>2. LatestOnly(q[i]) <=> LatestOnly(q[j])
    BY <1>7, <2>0, <2>1
  <2>3. CASE LatestOnly(q[i]) /\ LatestOnly(q[j])
    <3>1. Same(q[i], q[j]) /\ Same(q[j], q[i])
      BY <1>7, <2>0, <2>1, <2>3 DEF Same
    <3>2. i \in Nat /\ j \in Nat
      BY <1>1, <2>0
    <3>3. ~(i < j)
      <4> SUFFICES ASSUME i < j  PROVE FALSE
        OBVIOUS
      <4>1. i \in 1 .. j - 1
        BY <1>1, <2>0
      <4> QED
        BY <2>3, <3>1, <4>1 DEF Firsts
    <3>4. ~(j < i)
      <4> SUFFICES ASSUME j < i  PROVE FALSE
        OBVIOUS
      <4>1. j \in 1 .. i - 1
        BY <1>1, <2>0
      <4> QED
        BY <2>3, <3>1, <4>1 DEF Firsts
    <3> QED
      BY <3>2, <3>3, <3>4
  <2> QED
    BY <1>7, <2>2, <2>3
<1>8. ASSUME NEW j \in Lasts(q)  PROVE \E i \in F : at(i) = j
  <2>0. j \in DOMAIN q
    BY DEF Lasts
  <2>1. CASE ~LatestOnly(q[j])
    BY <2>0, <2>1 DEF Firsts
  <2>2. CASE LatestOnly(q[j])
    <3> DEFINE S == {i \in DOMAIN q : Same(q[i], q[j])}
    <3>1. S \subseteq Nat /\ S # {}
      BY <1>1, <2>0 DEF Same
    <3>2. PICK i \in S : \A k \in S : i <= k
      <4> HIDE DEF S
      <4> QED
        BY <3>1, LeastNatural
    <3>3. i \in DOMAIN q /\ Same(q[i], q[j]) /\ LatestOnly(q[i])
      BY <2>2 DEF Same, LatestOnly
    <3>4. \A k \in 1 .. i - 1 : ~Same(q[k], q[i])
      <4> SUFFICES ASSUME NEW k \in 1 .. i - 1, Same(q[k], q[i])  PROVE FALSE
        OBVIOUS
      <4>1. k \in DOMAIN q /\ Same(q[k], q[j]) /\ ~(i <= k)
        BY <1>1, <3>3 DEF Same
      <4> QED
        BY <3>2, <4>1
    <3>5. i \in F
      BY <3>3, <3>4 DEF Firsts
    <3> DEFINE w == LastSame(q, i)
    <3>6. /\ w \in DOMAIN q /\ Same(q[w], q[i]) /\ \A k \in w + 1 .. Len(q) : ~Same(q[k], q[i])
      BY <3>3, LastSameFacts
    <3> HIDE DEF w
    <3>7. ~(w < j)
      <4> SUFFICES ASSUME w < j  PROVE FALSE
        OBVIOUS
      <4>1. j \in w + 1 .. Len(q) /\ Same(q[j], q[i])
        BY <1>1, <2>0, <3>3, <3>6 DEF Same
      <4> QED
        BY <3>6, <4>1
    <3>8. ~(j < w)
      <4> SUFFICES ASSUME j < w  PROVE FALSE
        OBVIOUS
      <4>1. w \in j + 1 .. Len(q) /\ Same(q[w], q[j])
        BY <1>1, <2>0, <3>3, <3>6 DEF Same
      <4> QED
        BY <2>2, <4>1 DEF Lasts
    <3>9. w = j
      BY <1>1, <2>0, <3>6, <3>7, <3>8
    <3> QED
      BY <3>3, <3>5, <3>9 DEF w
  <2> QED
    BY <2>1, <2>2
<1>9. SelectsBy(p, q, Lasts(q), l)
  <2>1. /\ DOMAIN l = DOMAIN p
        /\ \A n \in DOMAIN p : l[n] = at(m[n]) /\ m[n] \in F /\ p[n] = r[m[n]]
    BY <1>5 DEF SelectsBy
  <2>2. l \in [DOMAIN p -> Lasts(q)]
    BY <1>6, <2>1
  <2>3. \A n \in DOMAIN p : p[n] = q[l[n]]
    BY <1>3, <1>4, <2>1
  <2> HIDE DEF at, l, m, p, F
  <2>4. ASSUME NEW i \in DOMAIN p, NEW j \in DOMAIN p, l[i] = l[j]  PROVE i = j
    <3>1. m[i] \in F /\ m[j] \in F /\ at(m[i]) = at(m[j])
      BY <2>1, <2>4
    <3>2. m[i] = m[j]
      BY <1>7, <3>1
    <3> QED
      BY <1>5, <3>2 DEF SelectsBy
  <2>5. ASSUME NEW k \in Lasts(q)  PROVE \E n \in DOMAIN p : l[n] = k
    <3>1. PICK i \in F : at(i) = k
      BY <1>8
    <3>2. PICK n \in DOMAIN p : m[n] = i
      BY <1>5 DEF SelectsBy
    <3> QED
      BY <2>1, <3>1, <3>2
  <2> QED
    BY <2>2, <2>3, <2>4, <2>5 DEF SelectsBy
<1> QED
  BY <1>5, <1>9 DEF Selects
-----------------------------------------------------------------------------
(* The operations that Latest leaves, and the effects of a queue.          *)

(* The item of an operation. *)
LEMMA ItemOfTag ==
    ASSUME NEW q, NEW id, NEW kinds, NEW o, Registered(q, id, kinds, o),
           NEW t \in TagsOf(q)
    PROVE  \E i \in DOMAIN q : \E k \in DOMAIN q[i].tags :
              /\ q[i].tags[k] = t /\ o[t].kind = q[i].kind /\ o[t].rec = q[i].rec
              /\ o[t] = [kind |-> q[i].kind, rec |-> q[i].rec, tx |-> id]
              /\ q[i].kind # "hooks" => k = 1 /\ q[i].tags[1] = t
<1>1. PICK i \in DOMAIN q : \E k \in DOMAIN q[i].tags : q[i].tags[k] = t
  BY DEF TagsOf
<1>2. PICK k \in DOMAIN q[i].tags : q[i].tags[k] = t
  BY <1>1
<1>3. Belongs(q[i], id, kinds, o) /\ q \in Seq(Item)
  BY DEF Registered
<1>4. o[t] = [kind |-> q[i].kind, rec |-> q[i].rec, tx |-> id]
  BY <1>2, <1>3 DEF Belongs
<1>5. o[t].kind = q[i].kind /\ o[t].rec = q[i].rec
  BY <1>4
<1>6. q[i].kind # "hooks" => k = 1
  <2>1. k \in 1 .. Len(q[i].tags)
    BY <1>2, <1>3, ItemFacts
  <2> QED
    BY <1>3, <2>1 DEF Belongs
<1> QED
  BY <1>2, <1>4, <1>5, <1>6

(* The operation first registered in an item. *)
(* x is in the queue, and its first operation is n. *)
FirstIs(n, x, q, id, kinds, o) ==
    /\ n = x.tags[1] /\ n \in TagsOf(q) /\ n \in Tags /\ n \in DOMAIN o
    /\ o[n] = [kind |-> x.kind, rec |-> x.rec, tx |-> id]
    /\ o[n].kind = x.kind /\ o[n].rec = x.rec /\ x.kind \in kinds

(* The first operation of an item. *)
LEMMA FirstTag ==
    ASSUME NEW q, NEW id, NEW kinds, NEW o, Registered(q, id, kinds, o),
           NEW i \in DOMAIN q
    PROVE  FirstIs(q[i].tags[1], q[i], q, id, kinds, o)
<1>1. 1 \in DOMAIN q[i].tags /\ q[i].tags[1] \in TagsOf(q)
  BY RegisteredFacts
<1>2. Belongs(q[i], id, kinds, o)
  BY DEF Registered
<1>3. /\ q[i].tags[1] \in DOMAIN o
      /\ o[q[i].tags[1]] = [kind |-> q[i].kind, rec |-> q[i].rec, tx |-> id]
      /\ q[i].kind \in kinds
  BY <1>1, <1>2 DEF Belongs
<1>4. o[q[i].tags[1]].kind = q[i].kind /\ o[q[i].tags[1]].rec = q[i].rec
  BY <1>3
<1>5. q[i].tags[1] \in Tags
  BY <1>1 DEF TagsOf
<1> QED
  BY <1>1, <1>3, <1>4, <1>5 DEF FirstIs

LatestKinds == {"latest", "prep"}

(* Of a record's latest callbacks and preparations, the last registered. *)
LEMMA LatestTags ==
    ASSUME NEW q, NEW id, NEW kinds, NEW o, Registered(q, id, kinds, o), Rising(q)
    PROVE  /\ Registered(Latest(q), id, kinds, o)
           /\ TagsOf(Latest(q)) =
                {t \in TagsOf(q) :
                    o[t].kind \in LatestKinds => \A u \in TagsOf(q) : o[u] = o[t] => u <= t}
           /\ Latest(q) = <<>> => q = <<>>
<1> DEFINE p == Latest(q)
           L == Lasts(q)
<1>1. q \in Seq(Item) /\ DOMAIN q = 1 .. Len(q) /\ Len(q) \in Nat
  <2>1. q \in Seq(Item)
    BY DEF Registered
  <2> QED
    BY <2>1
<1>2. p \in Seq(Item) /\ Selects(p, q, L) /\ L \subseteq DOMAIN q
  BY <1>1, LatestSelects DEF Lasts
<1>3. Registered(p, id, kinds, o) /\ TagsOf(p) = TagsAt(q, L)
  <2> HIDE DEF p, L
  <2> QED
    BY <1>2, SelectsRegistered
<1>4. ASSUME NEW t \in TagsAt(q, L), o[t].kind \in LatestKinds, NEW u \in TagsOf(q), o[u] = o[t]
      PROVE  t \in TagsOf(q) /\ u <= t
  <2>1. PICK i \in L : \E k \in DOMAIN q[i].tags : q[i].tags[k] = t
    BY DEF TagsAt
  <2>2. i \in DOMAIN q /\ t \in TagsOf(q)
    BY <1>2, <2>1 DEF TagsAt, TagsOf
  <2>3. PICK a \in DOMAIN q : \E k \in DOMAIN q[a].tags :
              /\ q[a].tags[k] = t /\ o[t].kind = q[a].kind /\ o[t].rec = q[a].rec
              /\ o[t] = [kind |-> q[a].kind, rec |-> q[a].rec, tx |-> id]
              /\ q[a].kind # "hooks" => k = 1 /\ q[a].tags[1] = t
    BY <2>2, ItemOfTag
  <2>4. a = i
    BY <2>1, <2>2, <2>3 DEF Registered, Distinct
  <2>5. PICK b \in DOMAIN q : \E k \in DOMAIN q[b].tags :
              /\ q[b].tags[k] = u /\ o[u].kind = q[b].kind /\ o[u].rec = q[b].rec
              /\ o[u] = [kind |-> q[b].kind, rec |-> q[b].rec, tx |-> id]
              /\ q[b].kind # "hooks" => k = 1 /\ q[b].tags[1] = u
    BY <1>4, ItemOfTag
  <2>6. /\ q[i].tags[1] = t /\ q[b].tags[1] = u /\ Same(q[b], q[i]) /\ LatestOnly(q[i])
    BY <1>4, <2>3, <2>4, <2>5 DEF Same, LatestOnly, LatestKinds
  <2>7. ~(i < b)
    <3> SUFFICES ASSUME i < b  PROVE FALSE
      OBVIOUS
    <3>1. b \in i + 1 .. Len(q)
      BY <1>1, <2>2
    <3> QED
      BY <2>1, <2>6, <3>1 DEF Lasts
  <2>8. i \in Nat /\ b \in Nat /\ t \in Nat /\ u \in Nat
    <3>1. t \in Tags /\ u \in Tags
      BY <2>2 DEF TagsOf
    <3> QED
      BY <1>1, <2>2, <3>1 DEF Tags
  <2>9. CASE b < i
    <3>1. u < t
      BY <2>2, <2>6, <2>9 DEF Rising
    <3> QED
      BY <2>2, <2>8, <3>1
  <2>10. CASE b = i
    BY <2>2, <2>6, <2>8, <2>10
  <2> QED
    BY <2>7, <2>8, <2>9, <2>10
<1>5. ASSUME NEW t \in TagsOf(q),
             o[t].kind \in LatestKinds => \A u \in TagsOf(q) : o[u] = o[t] => u <= t
      PROVE  t \in TagsAt(q, L)
  <2>1. PICK i \in DOMAIN q : \E k \in DOMAIN q[i].tags :
              /\ q[i].tags[k] = t /\ o[t].kind = q[i].kind /\ o[t].rec = q[i].rec
              /\ o[t] = [kind |-> q[i].kind, rec |-> q[i].rec, tx |-> id]
              /\ q[i].kind # "hooks" => k = 1 /\ q[i].tags[1] = t
    BY ItemOfTag
  <2>2. i \in L
    <3> SUFFICES ASSUME LatestOnly(q[i]), NEW k \in i + 1 .. Len(q), Same(q[k], q[i])
                 PROVE  FALSE
      BY DEF Lasts
    <3>1. k \in DOMAIN q /\ i < k
      BY <1>1
    <3>2. q[i].tags[1] = t /\ o[t].kind \in LatestKinds
      BY <2>1 DEF LatestOnly, LatestKinds
    <3>3. /\ q[k].tags[1] \in TagsOf(q) /\ q[k].tags[1] \in Tags
          /\ o[q[k].tags[1]] = [kind |-> q[k].kind, rec |-> q[k].rec, tx |-> id]
      BY <3>1, FirstTag DEF FirstIs
    <3>4. o[q[k].tags[1]] = o[t]
      BY <2>1, <3>3 DEF Same
    <3>5. t < q[k].tags[1]
      BY <3>1, <3>2 DEF Rising
    <3>6. q[k].tags[1] <= t
      BY <1>5, <3>2, <3>3, <3>4
    <3>7. t \in Tags
      BY DEF TagsOf
    <3> QED
      BY <3>3, <3>5, <3>6, <3>7 DEF Tags
  <2>3. t \in Tags
    BY DEF TagsOf
  <2> QED
    BY <2>1, <2>2, <2>3 DEF TagsAt
<1>6. ASSUME NEW t \in TagsAt(q, L)  PROVE t \in TagsOf(q)
  BY <1>2 DEF TagsAt, TagsOf
<1>7. ASSUME p = <<>>, q # <<>>  PROVE FALSE
  <2>1. Len(q) \in DOMAIN q /\ Len(q) + 1 .. Len(q) = {}
    BY <1>1, <1>7
  <2>2. Len(q) \in L
    BY <2>1 DEF Lasts
  <2>3. PICK m : SelectsBy(p, q, L, m)
    BY <1>2 DEF Selects
  <2>4. \E n \in DOMAIN p : m[n] = Len(q)
    <3> HIDE DEF p, L
    <3> QED
      BY <2>2, <2>3 DEF SelectsBy
  <2>5. DOMAIN p = {}
    <3> HIDE DEF p
    <3> QED
      BY <1>7
  <2> QED
    BY <2>4, <2>5
<1>8. TagsAt(q, L) =
        {t \in TagsOf(q) :
            o[t].kind \in LatestKinds => \A u \in TagsOf(q) : o[u] = o[t] => u <= t}
  <2> HIDE DEF L
  <2> QED
    BY <1>4, <1>5, <1>6
<1> QED
  BY <1>3, <1>7, <1>8

EffectRec == [kind : Kinds, rec : Records, tag : 0 .. MaxOps]

(* e is the effects of the operations T, each once. *)
EffectsFor(e, T, o) ==
    /\ e \in Seq(EffectRec)
    /\ \A n \in DOMAIN e : e[n].tag \in T /\ e[n].kind = o[e[n].tag].kind
    /\ \A n, m \in DOMAIN e : e[n].tag = e[m].tag => n = m
    /\ \A t \in T : \E n \in DOMAIN e : e[n].tag = t

(* The effects of a queue are those of its operations, each once. *)
LEMMA EffectsOf ==
    ASSUME NEW q, NEW id, NEW kinds, NEW o, Registered(q, id, kinds, o), "hooks" \notin kinds
    PROVE  EffectsFor(Effects(q), TagsOf(q), o)
<1> DEFINE e == Effects(q)
<1>1. q \in Seq(Item) /\ DOMAIN q = 1 .. Len(q) /\ Len(q) \in Nat
  <2>1. q \in Seq(Item)
    BY DEF Registered
  <2> QED
    BY <2>1
<1>2. DOMAIN e = DOMAIN q /\ \A i \in DOMAIN q :
            e[i] = [kind |-> q[i].kind, rec |-> q[i].rec, tag |-> q[i].tags[1]]
  BY DEF Effects, Effect
<1> HIDE DEF e
<1>3. ASSUME NEW i \in DOMAIN q
      PROVE  /\ e[i] \in EffectRec /\ e[i].tag = q[i].tags[1] /\ e[i].tag \in TagsOf(q)
             /\ e[i].kind = o[e[i].tag].kind
  <2>1. /\ q[i].tags[1] \in TagsOf(q) /\ q[i].tags[1] \in Tags
        /\ o[q[i].tags[1]].kind = q[i].kind
    <3>1. FirstIs(q[i].tags[1], q[i], q, id, kinds, o)
      BY FirstTag
    <3> QED
      BY <3>1 DEF FirstIs
  <2>2. q[i].kind \in Kinds /\ q[i].rec \in Records
    BY <1>1, ItemFacts
  <2>3. e[i].tag = q[i].tags[1] /\ e[i].kind = q[i].kind /\ e[i].rec = q[i].rec
    BY <1>2
  <2>4. q[i].tags[1] \in 0 .. MaxOps
    BY <2>1 DEF Tags
  <2>5. e[i] \in EffectRec
    BY <1>2, <2>2, <2>4 DEF EffectRec
  <2> QED
    BY <2>1, <2>3, <2>5
<1>4. e \in Seq(EffectRec)
  <2>1. e = [i \in 1 .. Len(q) |-> e[i]]
    BY <1>1, <1>2 DEF e, Effects
  <2>2. e \in [1 .. Len(q) -> EffectRec]
    BY <1>1, <1>3, <2>1
  <2> QED
    BY <1>1, <2>2
<1>5. ASSUME NEW i \in DOMAIN q, NEW j \in DOMAIN q, e[i].tag = e[j].tag  PROVE i = j
  <2>1. q[i].tags[1] = q[j].tags[1] /\ 1 \in DOMAIN q[i].tags /\ 1 \in DOMAIN q[j].tags
    BY <1>3, <1>5, RegisteredFacts
  <2> QED
    BY <2>1 DEF Registered, Distinct
<1>6. ASSUME NEW t \in TagsOf(q)  PROVE \E i \in DOMAIN q : e[i].tag = t
  <2>1. PICK i \in DOMAIN q : \E k \in DOMAIN q[i].tags :
              /\ q[i].tags[k] = t /\ o[t].kind = q[i].kind /\ o[t].rec = q[i].rec
              /\ o[t] = [kind |-> q[i].kind, rec |-> q[i].rec, tx |-> id]
              /\ q[i].kind # "hooks" => k = 1 /\ q[i].tags[1] = t
    BY ItemOfTag
  <2>2. q[i].kind # "hooks"
    <3>1. q[i].kind \in kinds
      BY DEF Registered, Belongs
    <3> QED
      BY <3>1
  <2> QED
    BY <1>3, <2>1, <2>2
<1> QED
  BY <1>2, <1>3, <1>4, <1>5, <1>6 DEF EffectsFor, e
-----------------------------------------------------------------------------
(* A write under way, its queues and savepoints.                           *)

Done == {"callbacks", "hook"}

QueueKinds == {"event", "job", "broadcast", "hook", "hooks", "latest", "settled"}

OpRec == [kind : Kinds, rec : Records, tx : Nat]

OpsOK(o, b) == o \in Seq(OpRec) /\ Len(o) <= MaxOps /\ \A t \in DOMAIN o : o[t].tx <= b

DataOK(d, o) == d \in Data /\ d.writes \subseteq DOMAIN o /\ d.jobs \subseteq DOMAIN o

(* A savepoint of the write f. *)
SaveOK(s, f, o) ==
    /\ DataOK(s.work, o) /\ Fits(s, f.queue)
    /\ s.finals \in 0 .. Len(f.finals) /\ s.preps \in 0 .. Len(f.preps)

(* It is also one of what the savepoint s, within it, keeps. *)
Below(r, s, q) == Fits(r, KeptQueue(q, s)) /\ r.finals <= s.finals /\ r.preps <= s.preps

SavesOK(f, o) ==
    /\ \A n \in DOMAIN f.saves : SaveOK(f.saves[n], f, o)
    /\ \A m, n \in DOMAIN f.saves : m < n => Below(f.saves[m], f.saves[n], f.queue)

QueuesOK(f, o) ==
    /\ Registered(f.queue, f.id, QueueKinds, o) /\ Registered(f.finals, f.id, {"final"}, o)
    /\ Registered(f.preps, f.id, {"prep"}, o) /\ Registered(f.pending, f.id, {"prep"}, o)

(* A write under way. *)
FrameOK(f, o, b) ==
    /\ f \in Tx /\ f.id \in 1 .. b /\ QueuesOK(f, o) /\ SavesOK(f, o)
    /\ f.at \notin {"body", "prep"} => f.saves = <<>>
    /\ f.at \in InTx => Rising(f.queue) /\ Rising(f.preps) /\ Alone(f.queue)
    /\ f.at \in Done => f.finals = <<>> /\ f.preps = <<>> /\ f.pending = <<>>

Shape ==
    /\ begun \in Nat /\ OpsOK(ops, begun) /\ DataOK(db, ops) /\ DataOK(work, ops)
    /\ stack \in Seq(Tx)
    /\ \A i \in DOMAIN stack : FrameOK(stack[i], ops, begun)
    /\ \A i, j \in DOMAIN stack : i < j => stack[i].id < stack[j].id
    /\ open => Top.id = begun

(* What a rollback to here would keep: of the write as it is, and of its   *)
(* savepoints.                                                             *)
Current(f, w) ==
    [work |-> w, queue |-> TagsOf(f.queue), finals |-> TagsOf(f.finals),
     preps |-> TagsOf(f.preps)]

Kept(f, s) ==
    [work |-> s.work, queue |-> TagsOf(KeptQueue(f.queue, s)),
     finals |-> TagsOf(SubSeq(f.finals, 1, s.finals)),
     preps |-> TagsOf(SubSeq(f.preps, 1, s.preps))]

Shots(f) == {Kept(f, f.saves[n]) : n \in DOMAIN f.saves}

-----------------------------------------------------------------------------

(* A queue extends itself. *)
LEMMA SameExtends ==
    ASSUME NEW q \in Seq(Item)
    PROVE  Extends(q, q)
<1>1. Len(q) \in Nat /\ \A i \in DOMAIN q : Len(q[i].tags) \in Nat
  BY ItemFacts
<1> QED
  BY <1>1 DEF Extends

(* p2 is p, and what was added to it. *)
Prefixed(p2, p) == Len(p) <= Len(p2) /\ \A i \in 1 .. Len(p) : p2[i] = p[i]

(* The write g is the write f with more registered. *)
More(g, f, o) ==
    /\ g \in Tx /\ g.at = f.at /\ g.id = f.id /\ g.saves = f.saves /\ g.pending = f.pending
    /\ Registered(g.queue, f.id, QueueKinds, o) /\ Registered(g.finals, f.id, {"final"}, o)
    /\ Registered(g.preps, f.id, {"prep"}, o)
    /\ Rising(g.queue) /\ Rising(g.preps) /\ Alone(g.queue)
    /\ Extends(g.queue, f.queue) /\ Prefixed(g.finals, f.finals) /\ Prefixed(g.preps, f.preps)

(* Later operations change nothing about the rows. *)
LEMMA DataGrows ==
    ASSUME NEW d, NEW o, NEW o2, DataOK(d, o), Grows(o, o2)
    PROVE  DataOK(d, o2)
BY DEF DataOK, Grows

(* What is registered since does not change what a savepoint keeps. *)
LEMMA KeptMore ==
    ASSUME NEW f, NEW g, NEW o, NEW o2, NEW b,
           FrameOK(f, o, b), Grows(o, o2), More(g, f, o2),
           NEW s, SaveOK(s, f, o)
    PROVE  /\ SaveOK(s, g, o2)
           /\ KeptQueue(g.queue, s) = KeptQueue(f.queue, s)
           /\ Kept(g, s) = Kept(f, s)
<1>1. /\ Registered(f.queue, f.id, QueueKinds, o) /\ Registered(g.queue, f.id, QueueKinds, o2)
      /\ Extends(g.queue, f.queue) /\ Fits(s, f.queue)
  BY DEF FrameOK, QueuesOK, More, SaveOK
<1>2. KeptQueue(g.queue, s) = KeptQueue(f.queue, s) /\ Fits(s, g.queue)
  BY ONLY <1>1, KeptSame
<1>3. /\ f.finals \in Seq(Item) /\ g.finals \in Seq(Item)
      /\ f.preps \in Seq(Item) /\ g.preps \in Seq(Item)
  BY DEF FrameOK, QueuesOK, More, Registered
<1>4. /\ s.finals \in 0 .. Len(f.finals) /\ s.preps \in 0 .. Len(f.preps)
      /\ Prefixed(g.finals, f.finals) /\ Prefixed(g.preps, f.preps)
  BY DEF SaveOK, More
<1>5. /\ s.finals \in Nat /\ s.finals <= Len(f.finals) /\ s.finals <= Len(g.finals)
      /\ \A i \in 1 .. s.finals : f.finals[i] = g.finals[i]
  BY <1>3, <1>4 DEF Prefixed
<1>6. /\ s.preps \in Nat /\ s.preps <= Len(f.preps) /\ s.preps <= Len(g.preps)
      /\ \A i \in 1 .. s.preps : f.preps[i] = g.preps[i]
  BY <1>3, <1>4 DEF Prefixed
<1>7. SubSeq(f.finals, 1, s.finals) = SubSeq(g.finals, 1, s.finals)
  BY <1>3, <1>5, FirstsSame
<1>8. SubSeq(f.preps, 1, s.preps) = SubSeq(g.preps, 1, s.preps)
  BY <1>3, <1>6, FirstsSame
<1>9. s.finals \in 0 .. Len(g.finals) /\ s.preps \in 0 .. Len(g.preps)
  BY <1>3, <1>5, <1>6
<1>10. DataOK(s.work, o2)
  BY DataGrows DEF SaveOK
<1>11. SaveOK(s, g, o2)
  BY <1>2, <1>9, <1>10 DEF SaveOK
<1> QED
  BY <1>2, <1>7, <1>8, <1>11 DEF Kept

(* A write with more registered has the same savepoints. *)
LEMMA MoreFrame ==
    ASSUME NEW f, NEW g, NEW o, NEW o2, NEW b,
           FrameOK(f, o, b), f.at \in {"body", "prep"}, Grows(o, o2), More(g, f, o2)
    PROVE  FrameOK(g, o2, b) /\ Shots(g) = Shots(f)
<1>1. g.saves = f.saves /\ g.id = f.id /\ g.at = f.at /\ g \in Tx /\ g.pending = f.pending
  BY DEF More
<1>2. ASSUME NEW n \in DOMAIN f.saves
      PROVE  /\ SaveOK(f.saves[n], g, o2)
             /\ KeptQueue(g.queue, f.saves[n]) = KeptQueue(f.queue, f.saves[n])
             /\ Kept(g, f.saves[n]) = Kept(f, f.saves[n])
  <2>1. SaveOK(f.saves[n], f, o)
    BY DEF FrameOK, SavesOK
  <2> QED
    BY <2>1, KeptMore
<1>3. SavesOK(g, o2)
  <2>1. \A m, n \in DOMAIN f.saves : m < n => Below(f.saves[m], f.saves[n], f.queue)
    BY DEF FrameOK, SavesOK
  <2>2. \A m, n \in DOMAIN g.saves : m < n => Below(g.saves[m], g.saves[n], g.queue)
    BY <1>1, <1>2, <2>1 DEF Below
  <2> QED
    BY <1>1, <1>2, <2>2 DEF SavesOK
<1>4. Registered(f.pending, f.id, {"prep"}, o2)
  BY RegisteredGrows DEF FrameOK, QueuesOK
<1>5. QueuesOK(g, o2)
  BY <1>1, <1>4 DEF More, QueuesOK
<1>6. FrameOK(g, o2, b)
  BY <1>1, <1>3, <1>5 DEF FrameOK, More, Done
<1> QED
  BY <1>1, <1>2, <1>6 DEF Shots

(* The other writes under way. *)
LEMMA FrameGrowsOps ==
    ASSUME NEW f, NEW o, NEW o2, NEW b, NEW b2,
           FrameOK(f, o, b), Grows(o, o2), b \in Nat, b2 \in Nat, b <= b2
    PROVE  FrameOK(f, o2, b2)
<1>1. QueuesOK(f, o2)
  BY RegisteredGrows DEF FrameOK, QueuesOK
<1>2. \A n \in DOMAIN f.saves : SaveOK(f.saves[n], f, o2)
  BY DataGrows DEF FrameOK, SavesOK, SaveOK
<1>3. f.id \in 1 .. b2
  BY DEF FrameOK
<1> QED
  BY <1>1, <1>2, <1>3 DEF FrameOK, SavesOK
-----------------------------------------------------------------------------
(* A savepoint is taken or released.                                       *)

(* The savepoint taken now. *)
Mark(f, w) ==
    [work |-> w, callbacks |-> Len(f.queue),
     hooks |-> [i \in DOMAIN f.queue |-> Len(f.queue[i].tags)],
     finals |-> Len(f.finals), preps |-> Len(f.preps)]

(* The first of a sequence, up to its length, is all of it. *)
LEMMA WholeSeq ==
    ASSUME NEW S, NEW s \in Seq(S)
    PROVE  SubSeq(s, 1, Len(s)) = s
<1> DEFINE a == SubSeq(s, 1, Len(s))
<1>1. Len(s) \in 0 .. Len(s)
  OBVIOUS
<1>2. a \in Seq(S) /\ Len(a) = Len(s) /\ \A i \in 1 .. Len(s) : a[i] = s[i]
  BY <1>1, SubSeqFirst
<1> HIDE DEF a
<1>3. a = s
  BY <1>2, SeqEqual
<1> QED
  BY <1>3 DEF a

(* A savepoint taken now keeps everything. *)
LEMMA MarkFacts ==
    ASSUME NEW f, NEW o, NEW b, FrameOK(f, o, b), NEW w, DataOK(w, o)
    PROVE  /\ Mark(f, w) \in Save
           /\ SaveOK(Mark(f, w), f, o)
           /\ KeptQueue(f.queue, Mark(f, w)) = f.queue
           /\ Kept(f, Mark(f, w)) = Current(f, w)
<1> DEFINE s == Mark(f, w)
<1>1. f.queue \in Seq(Item) /\ f.finals \in Seq(Item) /\ f.preps \in Seq(Item)
  BY DEF FrameOK, QueuesOK, Registered
<1>2. /\ Len(f.queue) \in Nat /\ DOMAIN f.queue = 1 .. Len(f.queue)
      /\ Len(f.finals) \in Nat /\ Len(f.preps) \in Nat
  BY <1>1
<1>3. ASSUME NEW i \in DOMAIN f.queue
      PROVE  /\ Len(f.queue[i].tags) \in Nat /\ Len(f.queue[i].tags) >= 1
             /\ f.queue[i].tags \in Seq(Tags) /\ f.queue[i] \in Item
  <2>1. Belongs(f.queue[i], f.id, QueueKinds, o)
    BY DEF FrameOK, QueuesOK, Registered
  <2> QED
    BY <1>1, <2>1, ItemFacts DEF Belongs
<1>4. /\ s.work = w /\ s.callbacks = Len(f.queue) /\ s.finals = Len(f.finals)
      /\ s.preps = Len(f.preps)
      /\ s.hooks = [i \in DOMAIN f.queue |-> Len(f.queue[i].tags)]
  BY DEF Mark
<1>5. s.hooks \in Seq(Nat)
  <2>1. s.hooks \in [1 .. Len(f.queue) -> Nat]
    BY <1>2, <1>3, <1>4
  <2> HIDE DEF s
  <2> QED
    BY <1>2, <2>1
<1>6. s \in Save
  BY <1>2, <1>4, <1>5 DEF Mark, Save, DataOK
<1> HIDE DEF s
<1>7. Fits(s, f.queue)
  BY <1>2, <1>3, <1>4 DEF Fits
<1>8. SaveOK(s, f, o)
  BY <1>2, <1>4, <1>7 DEF SaveOK
<1>9. KeptQueue(f.queue, s) = f.queue
  <2> DEFINE p == KeptQueue(f.queue, s)
  <2>1. ASSUME NEW i \in 1 .. Len(f.queue)
        PROVE  [f.queue[i] EXCEPT !.tags = SubSeq(@, 1, s.hooks[i])] = f.queue[i]
    <3>1. SubSeq(f.queue[i].tags, 1, s.hooks[i]) = f.queue[i].tags
      BY <1>2, <1>3, <1>4, WholeSeq
    <3>2. f.queue[i] \in Item
      BY <1>2, <1>3
    <3> QED
      BY <3>1, <3>2 DEF Item
  <2>2. p = [i \in 1 .. Len(f.queue) |-> f.queue[i]]
    BY <1>4, <2>1 DEF KeptQueue
  <2> QED
    BY <1>1, <1>2, <2>2
<1>10. /\ SubSeq(f.finals, 1, s.finals) = f.finals
       /\ SubSeq(f.preps, 1, s.preps) = f.preps
  BY <1>1, <1>4, WholeSeq
<1>11. Kept(f, s) = Current(f, w)
  BY <1>4, <1>9, <1>10 DEF Kept, Current
<1> QED
  BY <1>6, <1>8, <1>9, <1>11 DEF s

(* Frames that differ in where they are, whether they failed and their saves. *)
SameQueues(g, f) ==
    /\ g \in Tx /\ g.id = f.id /\ g.queue = f.queue /\ g.finals = f.finals
    /\ g.preps = f.preps /\ g.pending = f.pending

(* A savepoint is taken. *)
LEMMA SavepointFrame ==
    ASSUME NEW f, NEW g, NEW o, NEW b, FrameOK(f, o, b), f.at \in {"body", "prep"},
           NEW w, DataOK(w, o),
           g = [f EXCEPT !.saves = Append(@, Mark(f, w))]
    PROVE  /\ FrameOK(g, o, b) /\ Shots(g) = Shots(f) \cup {Current(f, w)}
           /\ SameQueues(g, f) /\ g.at = f.at /\ g.failed = f.failed
<1> DEFINE s == Mark(f, w)
           l == Len(f.saves) + 1
<1>1. f \in Tx /\ f.saves \in Seq(Save)
  BY DEF FrameOK, Tx
<1>2. /\ s \in Save /\ SaveOK(s, f, o) /\ KeptQueue(f.queue, s) = f.queue
      /\ Kept(f, s) = Current(f, w)
  BY MarkFacts
<1>3. s.finals = Len(f.finals) /\ s.preps = Len(f.preps)
  BY DEF Mark
<1> HIDE DEF s
<1>4. /\ Append(f.saves, s) \in Seq(Save) /\ Len(f.saves) \in Nat
      /\ DOMAIN f.saves = 1 .. Len(f.saves)
      /\ DOMAIN Append(f.saves, s) = DOMAIN f.saves \cup {l}
      /\ \A n \in DOMAIN f.saves : Append(f.saves, s)[n] = f.saves[n] /\ n < l
      /\ Append(f.saves, s)[l] = s
  <2>1. Append(f.saves, s) \in Seq(Save) /\ Len(Append(f.saves, s)) = Len(f.saves) + 1
    BY <1>1, <1>2, AppendProperties
  <2>2. Len(f.saves) \in Nat /\ DOMAIN f.saves = 1 .. Len(f.saves)
    BY <1>1
  <2>3. DOMAIN Append(f.saves, s) = 1 .. Len(f.saves) + 1
    BY <2>1, <2>2
  <2>4. /\ \A n \in 1 .. Len(f.saves) : Append(f.saves, s)[n] = f.saves[n]
        /\ Append(f.saves, s)[l] = s
    BY <1>1, <1>2, AppendProperties
  <2> QED
    BY <2>1, <2>2, <2>3, <2>4
<1>5. /\ g \in Tx /\ g.at = f.at /\ g.id = f.id /\ g.queue = f.queue /\ g.finals = f.finals
      /\ g.preps = f.preps /\ g.pending = f.pending /\ g.failed = f.failed
      /\ g.saves = Append(f.saves, s)
  <2>1. g = [f EXCEPT !.saves = Append(f.saves, s)]
    BY DEF s
  <2> QED
    BY <1>1, <1>4, <2>1 DEF Tx
<1> HIDE DEF l
<1>6. ASSUME NEW r  PROVE SaveOK(r, g, o) <=> SaveOK(r, f, o)
  BY <1>5 DEF SaveOK
<1>7. ASSUME NEW r  PROVE Kept(g, r) = Kept(f, r)
  BY <1>5 DEF Kept
<1>8. \A n \in DOMAIN f.saves : SaveOK(f.saves[n], f, o)
  BY DEF FrameOK, SavesOK
<1>9. \A n \in DOMAIN g.saves : SaveOK(g.saves[n], g, o)
  BY <1>2, <1>4, <1>5, <1>6, <1>8
<1>10. ASSUME NEW m \in DOMAIN g.saves, NEW n \in DOMAIN g.saves, m < n
       PROVE  Below(g.saves[m], g.saves[n], g.queue)
  <2>1. CASE n = l
    <3>1. m \in DOMAIN f.saves
      BY <1>4, <1>5, <1>10, <2>1 DEF l
    <3>2. SaveOK(f.saves[m], f, o) /\ g.saves[m] = f.saves[m] /\ g.saves[n] = s
      BY <1>4, <1>5, <1>8, <2>1, <3>1
    <3>3. f.finals \in Seq(Item) /\ f.preps \in Seq(Item)
      BY DEF FrameOK, QueuesOK, Registered
    <3>4. f.saves[m].finals <= s.finals /\ f.saves[m].preps <= s.preps
      BY <1>3, <3>2, <3>3 DEF SaveOK
    <3>5. Fits(f.saves[m], KeptQueue(g.queue, s))
      BY <1>2, <1>5, <3>2 DEF SaveOK
    <3> QED
      BY ONLY <3>2, <3>4, <3>5 DEF Below
  <2>2. CASE n # l
    <3>1. n \in DOMAIN f.saves /\ m \in DOMAIN f.saves
      BY <1>4, <1>5, <1>10, <2>2 DEF l
    <3>2. Below(f.saves[m], f.saves[n], f.queue)
      BY <1>10, <3>1 DEF FrameOK, SavesOK
    <3>3. g.saves[m] = f.saves[m] /\ g.saves[n] = f.saves[n] /\ g.queue = f.queue
      BY <1>4, <1>5, <3>1
    <3> QED
      BY ONLY <3>2, <3>3
  <2> QED
    BY <2>1, <2>2
<1>11. SavesOK(g, o)
  BY <1>9, <1>10 DEF SavesOK
<1>12. QueuesOK(g, o)
  BY <1>5 DEF FrameOK, QueuesOK
<1>13. FrameOK(g, o, b)
  BY <1>5, <1>11, <1>12 DEF FrameOK, Done
<1>14. Shots(g) = Shots(f) \cup {Kept(f, s)}
  <2>1. Shots(g) = {Kept(g, g.saves[n]) : n \in DOMAIN g.saves}
    BY DEF Shots
  <2>2. Shots(f) = {Kept(f, f.saves[n]) : n \in DOMAIN f.saves}
    BY DEF Shots
  <2>3. \A n \in DOMAIN f.saves : n \in DOMAIN g.saves /\ Kept(g, g.saves[n]) = Kept(f, f.saves[n])
    BY <1>4, <1>5, <1>7
  <2>4. l \in DOMAIN g.saves /\ Kept(g, g.saves[l]) = Kept(f, s)
    BY <1>4, <1>5, <1>7
  <2>5. DOMAIN g.saves = DOMAIN f.saves \cup {l}
    BY <1>4, <1>5
  <2> QED
    BY ONLY <2>1, <2>2, <2>3, <2>4, <2>5
<1> QED
  BY <1>2, <1>5, <1>13, <1>14 DEF SameQueues

(* The first savepoints of f, its queues as they are. *)
LEMMA FrontSaves ==
    ASSUME NEW f, f \in Tx, f.saves # <<>>
    PROVE  /\ Front(f.saves) \in Seq(Save)
           /\ DOMAIN Front(f.saves) \subseteq DOMAIN f.saves
           /\ Len(f.saves) \in DOMAIN f.saves /\ Last(f.saves) = f.saves[Len(f.saves)]
           /\ \A n \in DOMAIN Front(f.saves) :
                 Front(f.saves)[n] = f.saves[n] /\ n < Len(f.saves)
<1>1. f.saves \in Seq(Save)
  BY DEF Tx
<1>2. Len(f.saves) \in Nat \ {0} /\ DOMAIN f.saves = 1 .. Len(f.saves)
  BY <1>1
<1>3. /\ Front(f.saves) \in Seq(Save) /\ Len(Front(f.saves)) = Len(f.saves) - 1
      /\ \A i \in 1 .. Len(f.saves) - 1 : Front(f.saves)[i] = f.saves[i]
  BY <1>1, <1>2, FrontFacts
<1>4. DOMAIN Front(f.saves) = 1 .. Len(f.saves) - 1
  BY <1>2, <1>3
<1> QED
  BY <1>2, <1>3, <1>4 DEF Last

(* A savepoint is released. *)
LEMMA ReleaseFrame ==
    ASSUME NEW f, NEW g, NEW o, NEW b, FrameOK(f, o, b), f.saves # <<>>,
           g = [f EXCEPT !.saves = Front(@)]
    PROVE  /\ FrameOK(g, o, b) /\ Shots(g) \subseteq Shots(f)
           /\ SameQueues(g, f) /\ g.at = f.at /\ g.failed = f.failed
<1>1. f \in Tx /\ f.at \in {"body", "prep"}
  BY DEF FrameOK
<1>2. /\ Front(f.saves) \in Seq(Save)
      /\ DOMAIN Front(f.saves) \subseteq DOMAIN f.saves
      /\ \A n \in DOMAIN Front(f.saves) : Front(f.saves)[n] = f.saves[n]
  BY <1>1, FrontSaves
<1>3. /\ g \in Tx /\ g.at = f.at /\ g.id = f.id /\ g.queue = f.queue /\ g.finals = f.finals
      /\ g.preps = f.preps /\ g.pending = f.pending /\ g.failed = f.failed
      /\ g.saves = Front(f.saves)
  <2> DEFINE v == Front(f.saves)
  <2>1. g = [f EXCEPT !.saves = v] /\ v \in Seq(Save)
    BY <1>2
  <2> HIDE DEF v
  <2>2. /\ g \in Tx /\ g.at = f.at /\ g.id = f.id /\ g.queue = f.queue /\ g.finals = f.finals
        /\ g.preps = f.preps /\ g.pending = f.pending /\ g.failed = f.failed
        /\ g.saves = v
    BY <1>1, <2>1 DEF Tx
  <2> QED
    BY <2>2 DEF v
<1>4. \A n \in DOMAIN g.saves : n \in DOMAIN f.saves /\ g.saves[n] = f.saves[n]
  BY <1>2, <1>3
<1>5. SavesOK(g, o)
  <2>1. SavesOK(f, o)
    BY DEF FrameOK
  <2>2. \A n \in DOMAIN g.saves : SaveOK(g.saves[n], g, o)
    BY <1>3, <1>4, <2>1 DEF SavesOK, SaveOK
  <2>3. \A m, n \in DOMAIN g.saves : m < n => Below(g.saves[m], g.saves[n], g.queue)
    BY <1>3, <1>4, <2>1 DEF SavesOK
  <2> QED
    BY <2>2, <2>3 DEF SavesOK
<1>6. QueuesOK(g, o)
  BY <1>3 DEF FrameOK, QueuesOK
<1>7. FrameOK(g, o, b)
  BY <1>1, <1>3, <1>5, <1>6 DEF FrameOK, Done
<1>8. Shots(g) \subseteq Shots(f)
  BY <1>3, <1>4 DEF Shots, Kept
<1> QED
  BY <1>3, <1>7, <1>8 DEF SameQueues
-----------------------------------------------------------------------------
(* Rollback to a savepoint, and the rounds of preparations.                *)

(* The truncation of a write, field by field. *)
LEMMA TruncatedIs ==
    ASSUME NEW f, NEW s
    PROVE  Truncated(f, s) =
             [f EXCEPT !.queue = KeptQueue(f.queue, s),
                       !.finals = SubSeq(f.finals, 1, s.finals),
                       !.preps = SubSeq(f.preps, 1, s.preps), !.saves = Front(f.saves)]
BY DEF Truncated

(* After a rollback the write is what its savepoint kept. *)
LEMMA RollbackFrame ==
    ASSUME NEW f, NEW g, NEW o, NEW b, FrameOK(f, o, b), f.saves # <<>>,
           NEW s, s = Last(f.saves), g = Truncated(f, s)
    PROVE  /\ FrameOK(g, o, b) /\ Shots(g) \subseteq Shots(f)
           /\ Current(g, s.work) \in Shots(f) /\ DataOK(s.work, o)
           /\ g.at = f.at /\ g.failed = f.failed /\ g.id = f.id /\ g.pending = f.pending
           /\ TagsOf(g.queue) \subseteq TagsOf(f.queue)
           /\ TagsOf(g.finals) \subseteq TagsOf(f.finals)
<1> DEFINE l == Len(f.saves)
           Q == KeptQueue(f.queue, s)
           F == SubSeq(f.finals, 1, s.finals)
           P == SubSeq(f.preps, 1, s.preps)
           V == Front(f.saves)
<1>1. f \in Tx /\ f.at \in {"body", "prep"} /\ QueuesOK(f, o) /\ SavesOK(f, o)
  BY DEF FrameOK
<1>2. /\ V \in Seq(Save) /\ DOMAIN V \subseteq DOMAIN f.saves
      /\ l \in DOMAIN f.saves /\ s = f.saves[l]
      /\ \A n \in DOMAIN V : V[n] = f.saves[n] /\ n < l
  BY <1>1, FrontSaves
<1>3. SaveOK(s, f, o)
  BY <1>1, <1>2 DEF SavesOK
<1>4. /\ Fits(s, f.queue) /\ s.finals \in 0 .. Len(f.finals) /\ s.preps \in 0 .. Len(f.preps)
      /\ DataOK(s.work, o)
  BY <1>3 DEF SaveOK
<1>5. /\ Registered(f.queue, f.id, QueueKinds, o) /\ Registered(f.finals, f.id, {"final"}, o)
      /\ Registered(f.preps, f.id, {"prep"}, o) /\ Registered(f.pending, f.id, {"prep"}, o)
      /\ Rising(f.queue) /\ Rising(f.preps) /\ Alone(f.queue)
  BY <1>1 DEF FrameOK, QueuesOK, InTx
<1>0. /\ Q = KeptQueue(f.queue, s) /\ F = SubSeq(f.finals, 1, s.finals)
      /\ P = SubSeq(f.preps, 1, s.preps) /\ V = Front(f.saves)
  OBVIOUS
<1> HIDE DEF Q, F, P, V
<1>6. /\ Registered(Q, f.id, QueueKinds, o) /\ TagsOf(Q) \subseteq TagsOf(f.queue)
      /\ Rising(Q) /\ Alone(Q) /\ Extends(f.queue, Q)
  BY <1>0, <1>4, <1>5, KeptRegistered
<1>7. /\ Registered(F, f.id, {"final"}, o) /\ TagsOf(F) \subseteq TagsOf(f.finals)
      /\ F \in Seq(Item) /\ Len(F) = s.finals /\ \A i \in 1 .. s.finals : F[i] = f.finals[i]
  <2>1. Registered(f.finals, f.id, {"final"}, o) /\ s.finals \in 0 .. Len(f.finals)
    BY <1>4, <1>5
  <2>2. F = SubSeq(f.finals, 1, s.finals)
    BY <1>0
  <2>3. Registered(F, f.id, {"final"}, o) /\ FirstOf(F, f.finals, s.finals)
    BY ONLY <2>1, <2>2, FirstsRegistered
  <2> QED
    BY <2>3 DEF FirstOf
<1>8. /\ Registered(P, f.id, {"prep"}, o) /\ Rising(P)
      /\ P \in Seq(Item) /\ Len(P) = s.preps /\ \A i \in 1 .. s.preps : P[i] = f.preps[i]
  <2>1. Registered(f.preps, f.id, {"prep"}, o) /\ s.preps \in 0 .. Len(f.preps) /\ Rising(f.preps)
    BY <1>4, <1>5
  <2>2. P = SubSeq(f.preps, 1, s.preps)
    BY <1>0
  <2>3. Registered(P, f.id, {"prep"}, o) /\ FirstOf(P, f.preps, s.preps)
    BY ONLY <2>1, <2>2, FirstsRegistered
  <2>4. Rising(P)
    <3>1. /\ P \in Seq(Item) /\ Len(P) = s.preps /\ f.preps \in Seq(Item)
          /\ \A i \in 1 .. s.preps : P[i] = f.preps[i]
      BY <1>5, <2>3 DEF FirstOf, Registered
    <3>2. DOMAIN P = 1 .. s.preps /\ \A i \in DOMAIN P : i \in DOMAIN f.preps
      BY <2>1, <3>1
    <3> QED
      BY <2>1, <3>1, <3>2 DEF Rising
  <2> QED
    BY <2>3, <2>4 DEF FirstOf
<1>9. g = [f EXCEPT !.queue = Q, !.finals = F, !.preps = P, !.saves = V]
  BY <1>0, TruncatedIs
<1>10. Kept(f, s) = [work |-> s.work, queue |-> TagsOf(Q), finals |-> TagsOf(F),
                     preps |-> TagsOf(P)]
  BY <1>0 DEF Kept
<1>11. Kept(f, s) \in Shots(f)
  BY <1>2 DEF Shots
<1>12. f.finals \in Seq(Item) /\ f.preps \in Seq(Item)
  BY <1>5 DEF Registered
<1> HIDE DEF l
<1>13. Q \in Seq(Item)
  BY <1>6 DEF Registered
<1>14. /\ g \in Tx /\ g.at = f.at /\ g.id = f.id /\ g.queue = Q /\ g.finals = F
       /\ g.preps = P /\ g.pending = f.pending /\ g.failed = f.failed /\ g.saves = V
  BY <1>1, <1>2, <1>7, <1>8, <1>9, <1>13 DEF Tx
<1>15. ASSUME NEW n \in DOMAIN V
       PROVE  /\ SaveOK(V[n], g, o) /\ Kept(g, V[n]) = Kept(f, V[n])
              /\ KeptQueue(Q, V[n]) = KeptQueue(f.queue, V[n])
  <2> DEFINE r == V[n]
  <2>1. r = f.saves[n] /\ n \in DOMAIN f.saves /\ n < l
    BY <1>2
  <2>2. SaveOK(r, f, o) /\ Below(r, s, f.queue)
    BY <1>1, <1>2, <2>1 DEF SavesOK
  <2> HIDE DEF r
  <2>3. Fits(r, Q) /\ r.finals <= s.finals /\ r.preps <= s.preps
    BY <1>0, <2>2 DEF Below
  <2>4. KeptQueue(f.queue, r) = KeptQueue(Q, r)
    BY <1>5, <1>6, <2>3, KeptSame
  <2>5. r.finals \in Nat /\ r.preps \in Nat
    BY <2>2 DEF SaveOK
  <2>6. r.finals \in 0 .. Len(F) /\ r.preps \in 0 .. Len(P)
    BY <1>4, <1>7, <1>8, <2>3, <2>5
  <2>7. SubSeq(F, 1, r.finals) = SubSeq(f.finals, 1, r.finals)
    <3>1. r.finals <= Len(F) /\ r.finals <= Len(f.finals)
      BY <1>4, <1>7, <1>12, <2>3, <2>5
    <3>2. \A i \in 1 .. r.finals : F[i] = f.finals[i]
      BY <1>4, <1>7, <2>3, <2>5
    <3> QED
      BY <1>7, <1>12, <2>5, <3>1, <3>2, FirstsSame
  <2>8. SubSeq(P, 1, r.preps) = SubSeq(f.preps, 1, r.preps)
    <3>1. r.preps <= Len(P) /\ r.preps <= Len(f.preps)
      BY <1>4, <1>8, <1>12, <2>3, <2>5
    <3>2. \A i \in 1 .. r.preps : P[i] = f.preps[i]
      BY <1>4, <1>8, <2>3, <2>5
    <3> QED
      BY <1>8, <1>12, <2>5, <3>1, <3>2, FirstsSame
  <2>9. Kept(g, r) = Kept(f, r)
    BY <1>14, <2>4, <2>7, <2>8 DEF Kept
  <2>10. SaveOK(r, g, o)
    BY <1>14, <2>2, <2>3, <2>6 DEF SaveOK
  <2> QED
    BY <2>4, <2>9, <2>10 DEF r
<1>16. SavesOK(g, o)
  <2>1. ASSUME NEW m \in DOMAIN V, NEW n \in DOMAIN V, m < n
        PROVE  Below(V[m], V[n], Q)
    <3>1. Below(f.saves[m], f.saves[n], f.queue)
      BY <1>1, <1>2, <2>1 DEF SavesOK
    <3>2. V[m] = f.saves[m] /\ V[n] = f.saves[n]
      BY <1>2
    <3>3. Below(V[m], V[n], f.queue)
      BY ONLY <3>1, <3>2
    <3>4. KeptQueue(Q, V[n]) = KeptQueue(f.queue, V[n])
      BY <1>15
    <3> QED
      BY ONLY <3>3, <3>4 DEF Below
  <2>2. \A n \in DOMAIN V : SaveOK(V[n], g, o)
    BY <1>15
  <2> QED
    BY <1>14, <2>1, <2>2 DEF SavesOK
<1>17. QueuesOK(g, o)
  BY <1>5, <1>6, <1>7, <1>8, <1>14 DEF QueuesOK
<1>18. FrameOK(g, o, b)
  <2>1. f.id \in 1 .. b
    BY DEF FrameOK
  <2> QED
    BY <1>1, <1>6, <1>8, <1>14, <1>16, <1>17, <2>1 DEF FrameOK, Done
<1>19. Shots(g) \subseteq Shots(f)
  <2>1. \A n \in DOMAIN V : n \in DOMAIN f.saves /\ Kept(g, V[n]) = Kept(f, f.saves[n])
    BY <1>2, <1>15
  <2>2. Shots(g) = {Kept(g, V[n]) : n \in DOMAIN V}
    BY <1>14 DEF Shots
  <2>3. Shots(f) = {Kept(f, f.saves[n]) : n \in DOMAIN f.saves}
    BY DEF Shots
  <2> QED
    BY ONLY <2>1, <2>2, <2>3
<1>20. Current(g, s.work) = Kept(f, s)
  BY <1>10, <1>14 DEF Current
<1> QED
  BY <1>4, <1>6, <1>7, <1>11, <1>14, <1>18, <1>19, <1>20

(* An empty queue. *)
LEMMA EmptyQueue ==
    ASSUME NEW id, NEW kinds, NEW o
    PROVE  /\ Registered(<<>>, id, kinds, o) /\ TagsOf(<<>>) = {}
           /\ Rising(<<>>) /\ Alone(<<>>)
BY DEF Registered, Distinct, TagsOf, Rising, Alone

(* The tags of a record's latest registrations. *)
LatestOf(T, o) ==
    {t \in T : o[t].kind \in LatestKinds => \A u \in T : o[u] = o[t] => u <= t}

(* g is f with the next round of preparations at hand. *)
Rounds(g, f, o) ==
    \/ g = f
    \/ /\ TagsOf(f.pending) = {} /\ TagsOf(g.preps) = {}
       /\ TagsOf(g.pending) = LatestOf(TagsOf(f.preps), o)

Rounded(g, f, o, b) ==
    /\ FrameOK(g, o, b) /\ g.at = "prepare" /\ g.id = f.id /\ g.failed = f.failed
    /\ g.queue = f.queue /\ g.finals = f.finals /\ g.saves = <<>>
    /\ Rounds(g, f, o)
    /\ g.pending = <<>> => f.pending = <<>> /\ f.preps = <<>>

(* A round takes the latest preparations. *)
LEMMA RoundFrame ==
    ASSUME NEW f, NEW g, NEW o, NEW b, FrameOK(f, o, b), f.at = "prepare",
           g = Round(f)
    PROVE  Rounded(g, f, o, b)
<1>1. f \in Tx /\ f.saves = <<>>
  BY DEF FrameOK
<1>2. CASE f.pending # <<>>
  BY <1>1, <1>2 DEF Round, Rounded, Rounds
<1>3. CASE f.pending = <<>>
  <2> DEFINE P == Latest(f.preps)
  <2>1. g = [f EXCEPT !.pending = P, !.preps = <<>>]
    BY <1>3 DEF Round
  <2>2. Registered(f.preps, f.id, {"prep"}, o) /\ Rising(f.preps)
    BY DEF FrameOK, QueuesOK, InTx
  <2>3. /\ Registered(P, f.id, {"prep"}, o)
        /\ TagsOf(P) = LatestOf(TagsOf(f.preps), o)
        /\ P = <<>> => f.preps = <<>>
    BY <2>2, LatestTags DEF LatestOf
  <2>4. P \in Seq(Item)
    BY <2>3 DEF Registered
  <2> HIDE DEF P
  <2>5. /\ g \in Tx /\ g.at = f.at /\ g.id = f.id /\ g.queue = f.queue /\ g.finals = f.finals
        /\ g.preps = <<>> /\ g.pending = P /\ g.failed = f.failed /\ g.saves = f.saves
    <3> DEFINE E == <<>>
    <3>1. E \in Seq(Item) /\ g = [f EXCEPT !.pending = P, !.preps = E]
      BY <2>1
    <3>2. E = <<>>
      OBVIOUS
    <3> HIDE DEF E
    <3>3. /\ g \in Tx /\ g.at = f.at /\ g.id = f.id /\ g.queue = f.queue /\ g.finals = f.finals
          /\ g.preps = E /\ g.pending = P /\ g.failed = f.failed /\ g.saves = f.saves
      <4>1. f \in Tx /\ P \in Seq(Item) /\ E \in Seq(Item)
        BY <1>1, <2>4, <3>1
      <4>2. g = [f EXCEPT !.pending = P, !.preps = E]
        BY <3>1
      <4> QED
        BY ONLY <4>1, <4>2 DEF Tx
    <3> QED
      BY ONLY <3>2, <3>3
  <2>6. Registered(<<>>, f.id, {"prep"}, o) /\ TagsOf(<<>>) = {} /\ Rising(<<>>)
    BY EmptyQueue
  <2>7. QueuesOK(g, o)
    BY <2>3, <2>5, <2>6 DEF FrameOK, QueuesOK
  <2>8. SavesOK(g, o)
    BY <1>1, <2>5 DEF SavesOK
  <2>9. FrameOK(g, o, b)
    BY <1>1, <2>5, <2>6, <2>7, <2>8 DEF FrameOK, Done
  <2>10. /\ TagsOf(f.pending) = {} /\ TagsOf(g.preps) = {}
         /\ TagsOf(g.pending) = LatestOf(TagsOf(f.preps), o)
    BY <1>3, <2>3, <2>5, <2>6
  <2>11. g.pending = <<>> => f.pending = <<>> /\ f.preps = <<>>
    BY <1>3, <2>3, <2>5
  <2>12. /\ g.at = "prepare" /\ g.id = f.id /\ g.failed = f.failed
         /\ g.queue = f.queue /\ g.finals = f.finals /\ g.saves = <<>>
    BY <1>1, <2>5
  <2> QED
    BY ONLY <2>9, <2>10, <2>11, <2>12 DEF Rounded, Rounds
<1> QED
  BY <1>2, <1>3

(* The next preparation of the round. *)
Prepared(f) == [f EXCEPT !.at = "prep", !.pending = Tail(f.pending)]

NextUp(f) == Head(f.pending).tags[1]

Prepares(g, f, h, o, b) ==
    /\ FrameOK(g, o, b) /\ g.at = "prep" /\ g.id = f.id /\ g.failed = f.failed
    /\ g.queue = f.queue /\ g.finals = f.finals /\ g.preps = f.preps
    /\ g.saves = <<>>
    /\ h \in TagsOf(f.pending) /\ TagsOf(g.pending) = TagsOf(f.pending) \ {h}

(* A preparation leaves the round. *)
LEMMA PrepareFrame ==
    ASSUME NEW f, NEW g, NEW o, NEW b, FrameOK(f, o, b), f.at = "prepare",
           f.pending # <<>>, g = Prepared(f), NEW h, h = NextUp(f)
    PROVE  Prepares(g, f, h, o, b)
<1> DEFINE P == Tail(f.pending)
<1>1. f \in Tx /\ f.saves = <<>>
  BY DEF FrameOK
<1>2. Registered(f.pending, f.id, {"prep"}, o)
  BY DEF FrameOK, QueuesOK
<1>3. f.pending \in Seq(Item) /\ 1 \in DOMAIN f.pending /\ Head(f.pending) = f.pending[1]
  <2>1. f.pending \in Seq(Item)
    BY <1>2 DEF Registered
  <2> QED
    BY <2>1
<1>4. Len(f.pending[1].tags) = 1
  <2>1. Belongs(f.pending[1], f.id, {"prep"}, o)
    BY <1>2, <1>3 DEF Registered
  <2> QED
    BY <2>1 DEF Belongs
<1>5. Takes(P, f.pending, f.id, {"prep"}, o)
  BY <1>2, <1>4, TailTakes
<1>6. /\ Registered(P, f.id, {"prep"}, o) /\ h \in TagsOf(f.pending)
      /\ TagsOf(P) = TagsOf(f.pending) \ {h}
  BY <1>3, <1>5 DEF Takes, NextUp
<1>7. P \in Seq(Item)
  BY <1>6 DEF Registered
<1>8. g = [f EXCEPT !.at = "prep", !.pending = P]
  BY DEF Prepared
<1> HIDE DEF P
<1>9. /\ g \in Tx /\ g.at = "prep" /\ g.id = f.id /\ g.queue = f.queue /\ g.finals = f.finals
      /\ g.preps = f.preps /\ g.pending = P /\ g.failed = f.failed /\ g.saves = f.saves
  BY <1>1, <1>7, <1>8 DEF Tx
<1>10. QueuesOK(g, o)
  BY <1>6, <1>9 DEF FrameOK, QueuesOK
<1>11. SavesOK(g, o)
  BY <1>1, <1>9 DEF SavesOK
<1>12. FrameOK(g, o, b)
  BY <1>9, <1>10, <1>11 DEF FrameOK, Done, InTx
<1> QED
  BY <1>1, <1>6, <1>9, <1>12 DEF Prepares

(* The body or a preparation returns. *)
LEMMA AtFrame ==
    ASSUME NEW f, NEW g, NEW o, NEW b, FrameOK(f, o, b), NEW at,
           \/ at = "prepare" /\ f.at \in {"body", "prep"} /\ f.saves = <<>>
           \/ at \in Done /\ f.at \in Done,
           g = [f EXCEPT !.at = at]
    PROVE  /\ FrameOK(g, o, b) /\ g.at = at /\ SameQueues(g, f) /\ g.failed = f.failed
           /\ g.saves = f.saves
<1>1. f \in Tx /\ f.saves = <<>>
  BY DEF FrameOK, Done
<1>2. /\ g \in Tx /\ g.at = at /\ g.id = f.id /\ g.queue = f.queue /\ g.finals = f.finals
      /\ g.preps = f.preps /\ g.pending = f.pending /\ g.failed = f.failed
      /\ g.saves = f.saves
  BY <1>1 DEF Tx, Done
<1>3. QueuesOK(g, o)
  BY <1>2 DEF FrameOK, QueuesOK
<1>4. SavesOK(g, o)
  BY <1>1, <1>2 DEF SavesOK
<1>5. FrameOK(g, o, b)
  BY <1>1, <1>2, <1>3, <1>4 DEF FrameOK, Done, InTx
<1> QED
  BY <1>1, <1>2, <1>5 DEF SameQueues
-----------------------------------------------------------------------------
(* What a commit makes of the queue.                                       *)

(* The items at some positions. *)
LEMMA PickedTags ==
    ASSUME NEW q, NEW id, NEW kinds, NEW o, Registered(q, id, kinds, o),
           NEW K, K \subseteq DOMAIN q
    PROVE  /\ Registered(Picked(q, K), id, kinds, o)
           /\ TagsOf(Picked(q, K)) = TagsAt(q, K)
           /\ \A n \in DOMAIN Picked(q, K) : \E i \in K : Picked(q, K)[n] = q[i]
<1> DEFINE p == Picked(q, K)
<1>1. q \in Seq(Item)
  BY DEF Registered
<1>2. p \in Seq(Item) /\ SelectsBy(p, q, K, InOrder(K))
  BY <1>1, PickedSelects
<1>3. Selects(p, q, K)
  BY <1>2 DEF Selects
<1> HIDE DEF p
<1>4. Registered(p, id, kinds, o) /\ TagsOf(p) = TagsAt(q, K)
  BY <1>2, <1>3, SelectsRegistered
<1>5. \A n \in DOMAIN p : \E i \in K : p[n] = q[i]
  BY <1>2 DEF SelectsBy
<1> QED
  BY <1>4, <1>5 DEF p

(* The position of an operation. *)
Holds(i, t, q, id, o) ==
    /\ i \in DOMAIN q /\ t \in Tags /\ t \in TagsOf(q)
    /\ \E k \in DOMAIN q[i].tags : q[i].tags[k] = t
    /\ o[t] = [kind |-> q[i].kind, rec |-> q[i].rec, tx |-> id]
    /\ o[t].kind = q[i].kind /\ o[t].rec = q[i].rec
    /\ q[i].kind # "hooks" => q[i].tags[1] = t

(* An operation of a queue is held by an item. *)
LEMMA TagHeld ==
    ASSUME NEW q, NEW id, NEW kinds, NEW o, Registered(q, id, kinds, o),
           NEW t \in TagsOf(q)
    PROVE  \E i : Holds(i, t, q, id, o)
<1>1. PICK i \in DOMAIN q : \E k \in DOMAIN q[i].tags :
              /\ q[i].tags[k] = t /\ o[t].kind = q[i].kind /\ o[t].rec = q[i].rec
              /\ o[t] = [kind |-> q[i].kind, rec |-> q[i].rec, tx |-> id]
              /\ q[i].kind # "hooks" => k = 1 /\ q[i].tags[1] = t
  BY ItemOfTag
<1>2. t \in Tags
  BY DEF TagsOf
<1>3. Holds(i, t, q, id, o)
  BY <1>1, <1>2 DEF Holds
<1> QED
  BY <1>3

(* So is one registered at some of its positions. *)
LEMMA TagAt ==
    ASSUME NEW q, NEW id, NEW kinds, NEW o, Registered(q, id, kinds, o),
           NEW K, K \subseteq DOMAIN q, NEW t \in TagsAt(q, K)
    PROVE  \E i \in K : Holds(i, t, q, id, o)
<1>1. PICK i \in K : \E k \in DOMAIN q[i].tags : q[i].tags[k] = t
  BY DEF TagsAt
<1>2. t \in TagsOf(q)
  BY <1>1 DEF TagsAt, TagsOf
<1>3. PICK j : Holds(j, t, q, id, o)
  BY <1>2, TagHeld
<1>4. i = j
  <2>1. PICK k \in DOMAIN q[i].tags : q[i].tags[k] = t
    BY <1>1
  <2>2. j \in DOMAIN q /\ \E l \in DOMAIN q[j].tags : q[j].tags[l] = t
    BY <1>3 DEF Holds
  <2>3. PICK l \in DOMAIN q[j].tags : q[j].tags[l] = t
    BY <2>2
  <2>4. Distinct(q) /\ i \in DOMAIN q
    BY DEF Registered
  <2> QED
    BY <2>1, <2>2, <2>3, <2>4 DEF Distinct
<1> QED
  BY <1>1, <1>3, <1>4

(* And the other way round. *)
LEMMA HeldAt ==
    ASSUME NEW q, NEW id, NEW o, NEW K, NEW i \in K, NEW t, Holds(i, t, q, id, o)
    PROVE  t \in TagsAt(q, K)
BY DEF Holds, TagsAt

(* A queue whose items are all of some kinds. *)
LEMMA Narrowed ==
    ASSUME NEW q, NEW id, NEW kinds, NEW o, Registered(q, id, kinds, o),
           NEW ks, \A i \in DOMAIN q : q[i].kind \in ks
    PROVE  Registered(q, id, ks, o)
<1>1. ASSUME NEW i \in DOMAIN q  PROVE Belongs(q[i], id, ks, o)
  <2>1. Belongs(q[i], id, kinds, o) /\ q[i].kind \in ks
    BY DEF Registered
  <2> QED
    BY <2>1 DEF Belongs
<1> QED
  BY <1>1 DEF Registered

-----------------------------------------------------------------------------
(* What a commit leaves in the queue. *)
RemainsOf(T, o) ==
    {t \in T : o[t].kind # "settled" /\ (o[t].kind = "job" => o[t].rec \notin work.gone)}

(* What a commit leaves in the queue is for these operations. *)
LEMMA RemainingTags ==
    ASSUME NEW q, NEW id, NEW kinds, NEW o, Registered(q, id, kinds, o)
    PROVE  /\ Registered(Remaining(q), id, kinds, o)
           /\ TagsOf(Remaining(q)) = RemainsOf(TagsOf(q), o)
<1> DEFINE K == {i \in DOMAIN q : Remains(q[i])}
<1>1. Remaining(q) = Picked(q, K) /\ K \subseteq DOMAIN q
  BY DEF Remaining
<1>2. /\ Registered(Picked(q, K), id, kinds, o) /\ TagsOf(Picked(q, K)) = TagsAt(q, K)
  BY <1>1, PickedTags
<1>3. ASSUME NEW t \in TagsAt(q, K)  PROVE t \in RemainsOf(TagsOf(q), o)
  <2>1. PICK i \in K : Holds(i, t, q, id, o)
    BY <1>1, TagAt
  <2>2. Remains(q[i])
    BY <2>1
  <2> QED
    BY <2>1, <2>2 DEF Holds, Remains, Enqueues, RemainsOf
<1>4. ASSUME NEW t \in RemainsOf(TagsOf(q), o)  PROVE t \in TagsAt(q, K)
  <2>1. /\ t \in TagsOf(q) /\ o[t].kind # "settled"
        /\ o[t].kind = "job" => o[t].rec \notin work.gone
    BY DEF RemainsOf
  <2>2. PICK i : Holds(i, t, q, id, o)
    BY <2>1, TagHeld
  <2>3. i \in K
    BY <2>1, <2>2 DEF Holds, Remains, Enqueues
  <2> HIDE DEF K
  <2> QED
    BY <2>2, <2>3, HeldAt
<1> HIDE DEF K
<1>5. TagsAt(q, K) = RemainsOf(TagsOf(q), o)
  BY <1>3, <1>4
<1> QED
  BY <1>1, <1>2, <1>5

(* The jobs enqueued at the commit. *)
EnqueuedOf(T, o) == {t \in T : o[t].kind = "job" /\ o[t].rec \notin work.gone}

(* The jobs it enqueues are these. *)
LEMMA EnqueuedTags ==
    ASSUME NEW q, NEW id, NEW kinds, NEW o, Registered(q, id, kinds, o)
    PROVE  Enqueued(q) = EnqueuedOf(TagsOf(q), o)
<1>1. ASSUME NEW t \in Enqueued(q)  PROVE t \in EnqueuedOf(TagsOf(q), o)
  <2>1. PICK i \in DOMAIN q : Enqueues(q[i]) /\ t = q[i].tags[1]
    BY DEF Enqueued
  <2>2. FirstIs(q[i].tags[1], q[i], q, id, kinds, o)
    BY FirstTag
  <2> QED
    BY <2>1, <2>2 DEF FirstIs, Enqueues, EnqueuedOf
<1>2. ASSUME NEW t \in EnqueuedOf(TagsOf(q), o)  PROVE t \in Enqueued(q)
  <2>1. t \in TagsOf(q) /\ o[t].kind = "job" /\ o[t].rec \notin work.gone
    BY DEF EnqueuedOf
  <2>2. PICK i : Holds(i, t, q, id, o)
    BY <2>1, TagHeld
  <2>3. i \in DOMAIN q /\ Enqueues(q[i]) /\ t = q[i].tags[1]
    BY <2>1, <2>2 DEF Holds, Enqueues
  <2> QED
    BY <2>3 DEF Enqueued
<1> QED
  BY <1>1, <1>2

(* s is the records of the settled broadcasts T. *)
SettlesFor(s, T, o) ==
    /\ s \in Seq(Records)
    /\ \A n \in DOMAIN s : \E t \in T : o[t].kind = "settled" /\ o[t].rec = s[n]
    /\ \A t \in T : o[t].kind = "settled" => \E n \in DOMAIN s : s[n] = o[t].rec

(* The broadcasts it collects are of these. *)
LEMMA SettlingTags ==
    ASSUME NEW q, NEW id, NEW kinds, NEW o, Registered(q, id, kinds, o)
    PROVE  SettlesFor(Settling(q), TagsOf(q), o)
<1> DEFINE K == {i \in DOMAIN q : q[i].kind = "settled"}
           p == Picked(q, K)
           s == Settling(q)
<1>1. q \in Seq(Item) /\ K \subseteq DOMAIN q
  BY DEF Registered
<1>2. p \in Seq(Item) /\ SelectsBy(p, q, K, InOrder(K))
  <2> HIDE DEF K
  <2> QED
    BY <1>1, PickedSelects
<1>3. s = [n \in DOMAIN p |-> p[n].rec]
  BY DEF Settling
<1> HIDE DEF p, s
<1>4. ASSUME NEW n \in DOMAIN p
      PROVE  /\ s[n] = p[n].rec /\ s[n] \in Records
             /\ \E t \in TagsOf(q) : o[t].kind = "settled" /\ o[t].rec = s[n]
  <2>1. s[n] = p[n].rec /\ p[n].rec \in Records
    BY <1>2, <1>3, ItemFacts
  <2>2. PICK i \in K : p[n] = q[i]
    <3> HIDE DEF K
    <3> QED
      BY <1>2 DEF SelectsBy
  <2>3. FirstIs(q[i].tags[1], q[i], q, id, kinds, o)
    BY <2>2, FirstTag
  <2> QED
    BY <2>1, <2>2, <2>3 DEF FirstIs
<1>5. ASSUME NEW t \in TagsOf(q), o[t].kind = "settled"
      PROVE  \E n \in DOMAIN s : s[n] = o[t].rec
  <2>1. PICK i : Holds(i, t, q, id, o)
    BY TagHeld
  <2>2. i \in K
    BY <1>5, <2>1 DEF Holds
  <2>3. PICK n \in DOMAIN p : p[n] = q[i]
    <3> HIDE DEF K
    <3> QED
      BY <1>2, <2>2 DEF SelectsBy
  <2> QED
    BY <1>3, <2>1, <2>3 DEF Holds
<1>6. s \in Seq(Records)
  <2>1. DOMAIN p = 1 .. Len(p) /\ Len(p) \in Nat
    BY <1>2
  <2>2. s \in [1 .. Len(p) -> Records]
    BY <1>3, <1>4, <2>1
  <2> QED
    BY <2>1, <2>2
<1>7. DOMAIN s = DOMAIN p
  BY <1>3
<1> QED
  BY <1>4, <1>5, <1>6, <1>7 DEF SettlesFor, s

(* The jobs still to be announced when a callback fails. *)
WokenOf(T, o) == {t \in T : o[t].kind \in {"event", "job"}}

(* The jobs announced when a callback fails are these. *)
LEMMA WokenEffects ==
    ASSUME NEW q, NEW id, NEW kinds, NEW o, Registered(q, id, kinds, o)
    PROVE  EffectsFor(Woken(q), WokenOf(TagsOf(q), o), o)
<1> DEFINE K == {i \in DOMAIN q : q[i].kind \in {"event", "job"}}
           p == Picked(q, K)
<1>1. Woken(q) = Effects(p) /\ K \subseteq DOMAIN q
  BY DEF Woken
<1>2. /\ Registered(p, id, kinds, o) /\ TagsOf(p) = TagsAt(q, K)
      /\ \A n \in DOMAIN p : \E i \in K : p[n] = q[i]
  <2> HIDE DEF K
  <2> QED
    BY <1>1, PickedTags
<1> HIDE DEF p
<1>3. \A n \in DOMAIN p : p[n].kind \in {"event", "job"}
  BY <1>2
<1>4. Registered(p, id, {"event", "job"}, o)
  BY <1>2, <1>3, Narrowed
<1>5. EffectsFor(Effects(p), TagsOf(p), o)
  BY <1>4, EffectsOf
<1>6. ASSUME NEW t \in TagsAt(q, K)  PROVE t \in WokenOf(TagsOf(q), o)
  <2>1. PICK i \in K : Holds(i, t, q, id, o)
    BY <1>1, TagAt
  <2>2. q[i].kind \in {"event", "job"}
    BY <2>1
  <2> QED
    BY <2>1, <2>2 DEF Holds, WokenOf
<1>7. ASSUME NEW t \in WokenOf(TagsOf(q), o)  PROVE t \in TagsAt(q, K)
  <2>1. t \in TagsOf(q) /\ o[t].kind \in {"event", "job"}
    BY DEF WokenOf
  <2>2. PICK i : Holds(i, t, q, id, o)
    BY <2>1, TagHeld
  <2>3. i \in K
    BY <2>1, <2>2 DEF Holds
  <2> HIDE DEF K
  <2> QED
    BY <2>2, <2>3, HeldAt
<1> HIDE DEF K
<1>8. TagsAt(q, K) = WokenOf(TagsOf(q), o)
  BY <1>6, <1>7
<1> QED
  BY <1>1, <1>2, <1>5, <1>8
-----------------------------------------------------------------------------
(* Broadcasts are collected; a write begins, takes a callback or commits.  *)

(* c is the records of s and then those of r that are new, each once. *)
Collects(c, s, r) ==
    /\ c \in Seq(Records)
    /\ \A i, j \in DOMAIN c : c[i] = c[j] => i = j
    /\ \A n \in DOMAIN c : (\E i \in DOMAIN s : s[i] = c[n]) \/ (\E i \in DOMAIN r : r[i] = c[n])
    /\ \A i \in DOMAIN s : \E n \in DOMAIN c : c[n] = s[i]
    /\ \A i \in DOMAIN r : \E n \in DOMAIN c : c[n] = r[i]

(* Collecting adds each new broadcast once and forgets none. *)
LEMMA CollectedFacts ==
    ASSUME settled \in Seq(Records),
           \A i, j \in DOMAIN settled : settled[i] = settled[j] => i = j,
           NEW r \in Seq(Records)
    PROVE  Collects(Collected(r), settled, r)
<1> DEFINE K == {i \in DOMAIN r : /\ ~Contains(settled, r[i])
                                  /\ \A j \in 1 .. i - 1 : r[j] # r[i]}
           p == Picked(r, K)
           m == InOrder(K)
           c == Collected(r)
<1>1. c = settled \o p /\ K \subseteq DOMAIN r
  BY DEF Collected
<1>2. p \in Seq(Records) /\ SelectsBy(p, r, K, m)
  <2> HIDE DEF K
  <2> QED
    BY <1>1, PickedSelects
<1>3. ASSUME NEW i \in K
      PROVE  /\ i \in DOMAIN r /\ \A n \in DOMAIN settled : settled[n] # r[i]
             /\ \A j \in K : r[j] = r[i] => j = i
  <2>1. i \in DOMAIN r /\ ~Contains(settled, r[i]) /\ \A j \in 1 .. i - 1 : r[j] # r[i]
    OBVIOUS
  <2>2. \A n \in DOMAIN settled : settled[n] # r[i]
    BY <2>1 DEF Contains
  <2>3. ASSUME NEW j \in K, r[j] = r[i], j # i  PROVE FALSE
    <3>1. j \in DOMAIN r /\ \A k \in 1 .. j - 1 : r[k] # r[j]
      OBVIOUS
    <3>2. i \in Nat /\ j \in Nat /\ i >= 1 /\ j >= 1
      BY <2>1, <3>1
    <3>3. i \in 1 .. j - 1 \/ j \in 1 .. i - 1
      BY <2>3, <3>2
    <3> QED
      BY <2>1, <2>3, <3>1, <3>3
  <2> QED
    BY <2>1, <2>2, <2>3
(* The first of its value is kept, unless it was there before. *)
<1>4. ASSUME NEW i \in DOMAIN r, \A n \in DOMAIN settled : settled[n] # r[i]
      PROVE  \E k \in K : r[k] = r[i]
  <2> DEFINE S == {k \in DOMAIN r : r[k] = r[i]}
  <2>1. S \subseteq Nat /\ i \in S
    OBVIOUS
  <2>2. PICK k \in S : \A j \in S : k <= j
    <3> HIDE DEF S
    <3> QED
      BY <2>1, LeastNatural
  <2>3. k \in DOMAIN r /\ r[k] = r[i] /\ k \in Nat /\ DOMAIN r = 1 .. Len(r) /\ Len(r) \in Nat
    OBVIOUS
  <2>4. \A j \in 1 .. k - 1 : r[j] # r[k]
    <3> SUFFICES ASSUME NEW j \in 1 .. k - 1, r[j] = r[k]  PROVE FALSE
      OBVIOUS
    <3>1. j \in S
      BY <2>3
    <3> QED
      BY <2>2, <2>3, <3>1
  <2>5. ~Contains(settled, r[k])
    BY <1>4, <2>3 DEF Contains
  <2> QED
    BY <2>3, <2>4, <2>5
<1> HIDE DEF K, p, m, c
<1> DEFINE l == Len(settled)
<1>5. /\ c \in Seq(Records) /\ l \in Nat /\ Len(p) \in Nat /\ Len(c) = l + Len(p)
      /\ DOMAIN settled = 1 .. l /\ DOMAIN p = 1 .. Len(p) /\ DOMAIN c = 1 .. l + Len(p)
      /\ \A i \in 1 .. l : c[i] = settled[i]
      /\ \A i \in 1 .. Len(p) : c[l + i] = p[i]
  <2>1. /\ settled \o p \in Seq(Records) /\ Len(settled \o p) = Len(settled) + Len(p)
        /\ \A i \in 1 .. Len(settled) + Len(p) :
              (settled \o p)[i] = IF i <= Len(settled) THEN settled[i] ELSE p[i - Len(settled)]
    BY <1>2, ConcatProperties
  <2>2. /\ c \in Seq(Records) /\ Len(c) = l + Len(p)
        /\ \A i \in 1 .. l + Len(p) : c[i] = IF i <= l THEN settled[i] ELSE p[i - l]
    BY <1>1, <2>1
  <2>3. l \in Nat /\ Len(p) \in Nat
    BY <1>2
  <2>4. \A i \in 1 .. l : c[i] = settled[i]
    BY <2>2, <2>3
  <2>5. ASSUME NEW i \in 1 .. Len(p)  PROVE c[l + i] = p[i]
    <3>1. l + i \in 1 .. l + Len(p) /\ ~(l + i <= l) /\ l + i - l = i
      BY <2>3
    <3> QED
      BY <2>2, <3>1
  <2> QED
    BY <1>2, <2>2, <2>3, <2>4, <2>5
<1> HIDE DEF l
<1>6. ASSUME NEW n \in DOMAIN c
      PROVE  \/ n \in DOMAIN settled /\ c[n] = settled[n]
             \/ \E i \in DOMAIN p : n = l + i /\ c[n] = p[i]
  <2>1. CASE n <= l
    BY <1>5, <2>1
  <2>2. CASE ~(n <= l)
    <3>1. n - l \in DOMAIN p /\ n = l + (n - l)
      BY <1>5, <2>2
    <3> QED
      BY <1>5, <3>1
  <2> QED
    BY <2>1, <2>2
<1>7. ASSUME NEW i \in DOMAIN p
      PROVE  m[i] \in K /\ p[i] = r[m[i]]
  BY <1>2 DEF SelectsBy
<1>8. ASSUME NEW i \in DOMAIN c, NEW j \in DOMAIN c, c[i] = c[j]  PROVE i = j
  <2>1. CASE i \in DOMAIN settled /\ c[i] = settled[i]
    <3>1. CASE j \in DOMAIN settled /\ c[j] = settled[j]
      BY <1>8, <2>1, <3>1
    <3>2. CASE \E k \in DOMAIN p : j = l + k /\ c[j] = p[k]
      <4>1. PICK k \in DOMAIN p : c[j] = p[k]
        BY <3>2
      <4>2. m[k] \in K /\ p[k] = r[m[k]]
        BY <1>7
      <4>3. settled[i] # r[m[k]]
        BY <1>3, <2>1, <4>2
      <4> QED
        BY <1>8, <2>1, <4>1, <4>2, <4>3
    <3> QED
      BY <1>6, <3>1, <3>2
  <2>2. CASE \E n \in DOMAIN p : i = l + n /\ c[i] = p[n]
    <3>1. CASE j \in DOMAIN settled /\ c[j] = settled[j]
      <4>1. PICK k \in DOMAIN p : c[i] = p[k]
        BY <2>2
      <4>2. m[k] \in K /\ p[k] = r[m[k]]
        BY <1>7
      <4>3. settled[j] # r[m[k]]
        BY <1>3, <3>1, <4>2
      <4> QED
        BY <1>8, <3>1, <4>1, <4>2, <4>3
    <3>2. CASE \E k \in DOMAIN p : j = l + k /\ c[j] = p[k]
      <4>1. PICK n \in DOMAIN p : i = l + n /\ c[i] = p[n]
        BY <2>2
      <4>2. PICK k \in DOMAIN p : j = l + k /\ c[j] = p[k]
        BY <3>2
      <4>3. m[n] = m[k]
        BY <1>3, <1>7, <1>8, <4>1, <4>2
      <4>4. n = k
        BY <1>2, <4>3 DEF SelectsBy
      <4> QED
        BY <4>1, <4>2, <4>4
    <3> QED
      BY <1>6, <3>1, <3>2
  <2> QED
    BY <1>6, <2>1, <2>2
<1>9. \A n \in DOMAIN c : (\E i \in DOMAIN settled : settled[i] = c[n]) \/ (\E i \in DOMAIN r : r[i] = c[n])
  BY <1>3, <1>6, <1>7
<1>10. \A i \in DOMAIN settled : i \in DOMAIN c /\ c[i] = settled[i]
  BY <1>5
<1>11. ASSUME NEW i \in DOMAIN r  PROVE \E n \in DOMAIN c : c[n] = r[i]
  <2>1. CASE \E n \in DOMAIN settled : settled[n] = r[i]
    BY <1>10, <2>1
  <2>2. CASE \A n \in DOMAIN settled : settled[n] # r[i]
    <3>1. PICK k \in K : r[k] = r[i]
      BY <1>4, <2>2
    <3>2. PICK n \in DOMAIN p : m[n] = k
      BY <1>2 DEF SelectsBy
    <3>3. l + n \in DOMAIN c /\ c[l + n] = p[n]
      BY <1>5
    <3> QED
      BY <1>7, <3>1, <3>2, <3>3
  <2> QED
    BY <2>1, <2>2
<1>12. Collects(c, settled, r)
  BY <1>5, <1>8, <1>9, <1>10, <1>11 DEF Collects
<1> QED
  BY <1>12 DEF c

-----------------------------------------------------------------------------
(* A write begins. *)
LEMMA NewFrame ==
    ASSUME NEW o, NEW id \in Nat \ {0}
    PROVE  /\ FrameOK(NewTx(id), o, id)
           /\ NewTx(id).at = "body" /\ NewTx(id).id = id /\ NewTx(id).saves = <<>>
           /\ TagsOf(NewTx(id).queue) = {} /\ TagsOf(NewTx(id).finals) = {}
           /\ TagsOf(NewTx(id).preps) = {} /\ TagsOf(NewTx(id).pending) = {}
           /\ Shots(NewTx(id)) = {}
<1> DEFINE f == NewTx(id)
<1>1. /\ f.at = "body" /\ f.id = id /\ f.queue = <<>> /\ f.finals = <<>> /\ f.preps = <<>>
      /\ f.pending = <<>> /\ f.saves = <<>> /\ f \in Tx
  BY DEF NewTx, Tx
<1> HIDE DEF f
<1>2. /\ Registered(<<>>, id, QueueKinds, o) /\ Registered(<<>>, id, {"final"}, o)
      /\ Registered(<<>>, id, {"prep"}, o) /\ TagsOf(<<>>) = {}
      /\ Rising(<<>>) /\ Alone(<<>>)
  BY EmptyQueue
<1>3. QueuesOK(f, o)
  BY <1>1, <1>2 DEF QueuesOK
<1>4. SavesOK(f, o) /\ Shots(f) = {}
  BY <1>1 DEF SavesOK, Shots
<1>5. id \in 1 .. id
  OBVIOUS
<1>6. FrameOK(f, o, id)
  BY <1>1, <1>2, <1>3, <1>4, <1>5 DEF FrameOK, Done
<1> QED
  BY <1>1, <1>2, <1>4, <1>6 DEF f

(* A callback is taken from the queue. *)
Taken(f, at, q) == [f EXCEPT !.at = at, !.queue = q]

(* The write after a callback is taken. *)
LEMMA TakeFrame ==
    ASSUME NEW f, NEW o, NEW b, FrameOK(f, o, b), f.at \in Done,
           NEW q, Takes(q, f.queue, f.id, QueueKinds, o),
           NEW at \in Done,
           NEW g, g = Taken(f, at, q)
    PROVE  /\ FrameOK(g, o, b) /\ g.id = f.id /\ g.at = at /\ g.queue = q
           /\ g.finals = f.finals
<1>1. f \in Tx /\ Registered(q, f.id, QueueKinds, o) /\ f.saves = <<>>
  BY DEF FrameOK, Takes, Done
<1>2. q \in Seq(Item)
  BY <1>1 DEF Registered
<1>3. /\ g \in Tx /\ g.at = at /\ g.id = f.id /\ g.queue = q /\ g.finals = f.finals
      /\ g.preps = f.preps /\ g.pending = f.pending /\ g.failed = f.failed /\ g.saves = f.saves
  BY <1>1, <1>2 DEF Tx, Done, Taken
<1>4. QueuesOK(g, o)
  BY <1>1, <1>3 DEF FrameOK, QueuesOK
<1>5. SavesOK(g, o)
  BY <1>1, <1>3 DEF SavesOK
<1>6. FrameOK(g, o, b)
  BY <1>1, <1>3, <1>4, <1>5 DEF FrameOK, Done, InTx
<1> QED
  BY <1>3, <1>6

(* The commit: what is left for after it. *)
Committed(f, q) == [f EXCEPT !.at = "callbacks", !.finals = <<>>, !.queue = q]

Left(g, f, q, o, b) ==
    /\ FrameOK(g, o, b) /\ g.id = f.id /\ g.at = "callbacks" /\ g.queue = q
    /\ TagsOf(g.finals) = {}

(* The write after its commit. *)
LEMMA CommitFrame ==
    ASSUME NEW f, NEW o, NEW b, FrameOK(f, o, b), f.at = "prepare",
           f.preps = <<>> /\ f.pending = <<>>,
           NEW q, Registered(q, f.id, QueueKinds, o),
           NEW g, g = Committed(f, q)
    PROVE  Left(g, f, q, o, b)
<1>1. f \in Tx /\ f.saves = <<>>
  BY DEF FrameOK
<1>2. q \in Seq(Item)
  BY DEF Registered
<1>3. /\ g \in Tx /\ g.at = "callbacks" /\ g.id = f.id /\ g.queue = q /\ g.finals = <<>>
      /\ g.preps = f.preps /\ g.pending = f.pending /\ g.failed = f.failed /\ g.saves = f.saves
  <2> DEFINE E == <<>>
  <2>1. E \in Seq(Item) /\ g = [f EXCEPT !.at = "callbacks", !.finals = E, !.queue = q]
    BY DEF Committed
  <2>2. E = <<>>
    OBVIOUS
  <2> HIDE DEF E
  <2>3. /\ g \in Tx /\ g.at = "callbacks" /\ g.id = f.id /\ g.queue = q /\ g.finals = E
        /\ g.preps = f.preps /\ g.pending = f.pending /\ g.failed = f.failed /\ g.saves = f.saves
    BY ONLY <1>1, <1>2, <2>1 DEF Tx
  <2> QED
    BY ONLY <2>2, <2>3
<1>4. Registered(<<>>, f.id, {"final"}, o) /\ TagsOf(<<>>) = {}
  BY EmptyQueue
<1>5. QueuesOK(g, o)
  BY <1>3, <1>4 DEF FrameOK, QueuesOK
<1>6. SavesOK(g, o)
  BY <1>1, <1>3 DEF SavesOK
<1>7. FrameOK(g, o, b)
  BY <1>1, <1>3, <1>5, <1>6 DEF FrameOK, Done, InTx
<1> QED
  BY <1>3, <1>4, <1>7 DEF Left
=============================================================================
