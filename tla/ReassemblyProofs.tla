-------------------------- MODULE ReassemblyProofs --------------------------
(***************************************************************************)
(* What is true of Reassembly for every set of shards, every budget and    *)
(* every order of arrivals, evictions and sweeps: each byte charged is a   *)
(* byte buffered and the budgets hold; and, while no more group ids exist  *)
(* than reassembled_groups holds, a body surfaces once and whole, and a    *)
(* small group the log holds whole has been reassembled.                   *)
(***************************************************************************)
EXTENDS Reassembly, SequenceTheorems, FiniteSetTheorems, FunctionTheorems, TLAPS

-----------------------------------------------------------------------------
(* Sums counted unit by unit *)

\* A set indexed without repeats has the size of its index.
LEMMA SameSize ==
  ASSUME NEW I, IsFiniteSet(I), NEW f, \A i, j \in I : f[i] = f[j] => i = j
  PROVE  /\ IsFiniteSet({f[i] : i \in I})
         /\ Cardinality({f[i] : i \in I}) = Cardinality(I)
<1> DEFINE F == [i \in I |-> f[i]]
           T == {f[i] : i \in I}
<1>1. F \in [I -> T] /\ (\A i, j \in I : F[i] = F[j] => i = j)
  OBVIOUS
<1>2. \A t \in T : \E i \in I : F[i] = t
  OBVIOUS
<1> HIDE DEF F, T
<1>3. F \in Bijection(I, T)
  BY <1>1, <1>2, Fun_IsBij
<1>4. ExistsBijection(I, T)
  BY <1>3, Fun_ExistsBij
<1>5. IsFiniteSet(T) /\ Cardinality(T) = Cardinality(I)
  BY <1>4, FS_Bijection
<1> QED BY <1>5 DEF T

\* What a unit is.
LEMMA UnitIs ==
  ASSUME NEW s, NEW p
  PROVE  p \in Units(s) <=> \E x \in DOMAIN s : \E i \in 1..s[x] : p = <<x, i>>
BY DEF Units

\* n units of x, after the first a.
More(x, a, n) == {x} \X ((a + 1)..(a + n))

\* They are n.
LEMMA Stretch ==
  ASSUME NEW x, NEW a \in Nat, NEW n \in Nat
  PROVE  IsFiniteSet(More(x, a, n)) /\ Cardinality(More(x, a, n)) = n
<1> DEFINE I == (a + 1)..(a + n)
           f == [i \in I |-> <<x, i>>]
<1>1. IsFiniteSet(I) /\ Cardinality(I) = n
  BY FS_Interval
<1>2. \A i, j \in I : f[i] = f[j] => i = j
  OBVIOUS
<1>3. More(x, a, n) = {f[i] : i \in I}
  BY DEF More
<1> HIDE DEF I, f
<1>4. IsFiniteSet({f[i] : i \in I}) /\ Cardinality({f[i] : i \in I}) = n
  BY <1>1, <1>2, SameSize
<1> QED BY <1>3, <1>4

\* One size has grown by n, or a new one of n has appeared.
Grown(s, t, X, x, n) ==
  /\ s \in [X -> Nat] /\ t \in [X \cup {x} -> Nat]
  /\ \A y \in X : y # x => t[y] = s[y]
  /\ x \in X => t[x] = s[x] + n
  /\ x \notin X => t[x] = n

\* So has the sum.
LEMMA SumGrows ==
  ASSUME NEW X, NEW s, NEW t, NEW x, NEW n \in Nat, Grown(s, t, X, x, n),
         IsFiniteSet(Units(s))
  PROVE  /\ IsFiniteSet(Units(t)) /\ SumOf(t) = SumOf(s) + n
         /\ SumOf(s) \in Nat
<1> SUFFICES ASSUME s \in [X -> Nat], t \in [X \cup {x} -> Nat],
                    \A y \in X : y # x => t[y] = s[y],
                    x \in X => t[x] = s[x] + n, x \notin X => t[x] = n
             PROVE  IsFiniteSet(Units(t)) /\ SumOf(t) = SumOf(s) + n /\ SumOf(s) \in Nat
  BY DEF Grown
<1>0. PICK a \in Nat : a = IF x \in X THEN s[x] ELSE 0
  OBVIOUS
<1> DEFINE N == More(x, a, n)
<1>1. a \in Nat /\ t[x] = a + n /\ DOMAIN t = X \cup {x} /\ DOMAIN s = X
  BY <1>0
<1>2. IsFiniteSet(N) /\ Cardinality(N) = n
  BY Stretch
<1>3. Units(t) = Units(s) \cup N
  <2>1. ASSUME NEW p \in Units(t) PROVE p \in Units(s) \cup N
    <3>1. PICK y \in X \cup {x}, i \in Int : i \in 1..t[y] /\ p = <<y, i>>
      BY <1>1, UnitIs
    <3>2. CASE y # x
      BY <1>1, <3>1, <3>2, UnitIs
    <3>3. CASE y = x /\ i > a
      BY <1>1, <3>1, <3>3 DEF More
    <3>4. CASE y = x /\ i <= a
      <4>1. x \in X /\ i \in 1..s[x]
        BY <1>0, <1>1, <3>1, <3>4
      <4> QED BY <1>1, <3>1, <3>4, <4>1, UnitIs
    <3> QED BY <1>1, <3>1, <3>2, <3>3, <3>4
  <2>2. ASSUME NEW p \in Units(s) PROVE p \in Units(t)
    <3>1. PICK y \in X, i \in Int : i \in 1..s[y] /\ p = <<y, i>>
      BY <1>1, UnitIs
    <3>2. i \in 1..t[y]
      BY <1>0, <1>1, <3>1
    <3> QED BY <1>1, <3>1, <3>2, UnitIs
  <2>3. ASSUME NEW p \in N PROVE p \in Units(t)
    <3>1. PICK i \in (a + 1)..(a + n) : p = <<x, i>>
      BY DEF More
    <3>2. i \in 1..t[x] /\ x \in DOMAIN t
      BY <1>1
    <3> QED BY <3>1, <3>2, UnitIs
  <2> QED BY <2>1, <2>2, <2>3
<1>4. Units(s) \cap N = {}
  <2> SUFFICES ASSUME NEW p \in Units(s), p \in N PROVE FALSE
    OBVIOUS
  <2>1. PICK y \in X, i \in Int : i \in 1..s[y] /\ p = <<y, i>>
    BY <1>1, UnitIs
  <2>2. PICK j \in (a + 1)..(a + n) : p = <<x, j>>
    BY DEF More
  <2>3. y = x /\ i = j
    BY <2>1, <2>2
  <2> QED BY <1>0, <1>1, <2>1, <2>2, <2>3
<1> HIDE DEF N
<1>5. /\ IsFiniteSet(Units(s) \cup N)
      /\ Cardinality(Units(s) \cup N) = Cardinality(Units(s)) + n - Cardinality({})
  <2>1. Cardinality(Units(s) \cup N)
          = Cardinality(Units(s)) + Cardinality(N) - Cardinality(Units(s) \cap N)
    BY <1>2, FS_Union
  <2> QED BY <1>2, <1>4, <2>1, FS_Union
<1>6. Cardinality({}) = 0 /\ Cardinality(Units(s)) \in Nat
  BY FS_EmptySet, FS_CardinalityType
<1> QED BY <1>3, <1>5, <1>6 DEF SumOf

\* Splitting the keys splits the sum.
LEMMA SumSplits ==
  ASSUME NEW Y, NEW s \in [Y -> Nat], IsFiniteSet(Units(s)), NEW X \in SUBSET Y
  PROVE  LET in == [x \in X |-> s[x]]
             out == [x \in Y \ X |-> s[x]]
         IN  /\ IsFiniteSet(Units(in)) /\ IsFiniteSet(Units(out))
             /\ SumOf(in) \in Nat /\ SumOf(out) \in Nat
             /\ SumOf(s) = SumOf(in) + SumOf(out)
<1> DEFINE in == [x \in X |-> s[x]]
           out == [x \in Y \ X |-> s[x]]
<1>1. /\ DOMAIN in = X /\ DOMAIN out = Y \ X /\ DOMAIN s = Y
      /\ \A x \in X : in[x] = s[x]
      /\ \A x \in Y \ X : out[x] = s[x]
  OBVIOUS
<1> HIDE DEF in, out
<1>2. \A p : p \in Units(s) => p \in Units(in) \/ p \in Units(out)
  <2> SUFFICES ASSUME NEW p \in Units(s) PROVE p \in Units(in) \/ p \in Units(out)
    OBVIOUS
  <2>1. PICK y \in Y, i \in Int : i \in 1..s[y] /\ p = <<y, i>>
    BY <1>1, UnitIs
  <2> QED BY <1>1, <2>1, UnitIs
<1>3. Units(in) \subseteq Units(s)
  <2> SUFFICES ASSUME NEW p \in Units(in) PROVE p \in Units(s)
    OBVIOUS
  <2>1. PICK y \in X, i \in Int : i \in 1..in[y] /\ p = <<y, i>>
    BY <1>1, UnitIs
  <2> QED BY <1>1, <2>1, UnitIs
<1>4. Units(out) \subseteq Units(s)
  <2> SUFFICES ASSUME NEW p \in Units(out) PROVE p \in Units(s)
    OBVIOUS
  <2>1. PICK y \in Y \ X, i \in Int : i \in 1..out[y] /\ p = <<y, i>>
    BY <1>1, UnitIs
  <2> QED BY <1>1, <2>1, UnitIs
<1>5. Units(in) \cap Units(out) = {}
  <2> SUFFICES ASSUME NEW p \in Units(in), p \in Units(out) PROVE FALSE
    OBVIOUS
  <2>1. PICK y \in X, i \in Int : i \in 1..in[y] /\ p = <<y, i>>
    BY <1>1, UnitIs
  <2>2. PICK z \in Y \ X, j \in Int : j \in 1..out[z] /\ p = <<z, j>>
    BY <1>1, UnitIs
  <2> QED BY <2>1, <2>2
<1>6. Units(s) = Units(in) \cup Units(out)
  BY <1>2, <1>3, <1>4
<1>7. IsFiniteSet(Units(in)) /\ IsFiniteSet(Units(out))
  BY <1>3, <1>4, FS_Subset
<1>8. Cardinality(Units(s)) = Cardinality(Units(in)) + Cardinality(Units(out)) - Cardinality({})
  BY <1>5, <1>6, <1>7, FS_Union
<1>9. /\ Cardinality({}) = 0
      /\ Cardinality(Units(in)) \in Nat /\ Cardinality(Units(out)) \in Nat
  BY <1>7, FS_EmptySet, FS_CardinalityType
<1>10. /\ IsFiniteSet(Units(in)) /\ IsFiniteSet(Units(out))
       /\ SumOf(in) \in Nat /\ SumOf(out) \in Nat
       /\ SumOf(s) = SumOf(in) + SumOf(out)
  BY <1>7, <1>8, <1>9 DEF SumOf
<1> QED BY <1>10 DEF in, out

-----------------------------------------------------------------------------
(* The store *)

Group == [total : Nat, slots : SUBSET Frames, bytes : Nat, idle : Nat, age : Nat, asked : Nat]

Sizes(fs) == [f \in fs |-> f.size]
Charges(gs, ks) == [k \in ks |-> gs[k].bytes]
OfAuthor(gs, a) == {k \in DOMAIN gs : k[1] = a}

\* One buffered group: shards of its key and total, one a slot, each charged.
Partial(g, k) ==
  /\ g \in Group
  /\ g.bytes <= GroupMax
  /\ IsFiniteSet(g.slots)
  /\ \A f \in g.slots : Key(f) = k /\ f.total = g.total
  /\ \A f, h \in g.slots : f.idx = h.idx => f = h
  /\ IsFiniteSet(Units(Sizes(g.slots)))
  /\ g.bytes = SumOf(Sizes(g.slots))

\* A store whose counters are the sums of what it buffers.
Sound(st) ==
  /\ DOMAIN st.groups \subseteq Keys
  /\ \A k \in DOMAIN st.groups : Partial(st.groups[k], k)
  /\ IsFiniteSet(Units(Charges(st.groups, DOMAIN st.groups)))
  /\ st.author_bytes \in [Authors -> Nat]
  /\ \A a \in Authors : st.author_bytes[a] = Bytes(st.groups, OfAuthor(st.groups, a))
  /\ st.total_bytes \in Nat
  /\ st.total_bytes = Bytes(st.groups, DOMAIN st.groups)

Within(st) ==
  /\ \A a \in Authors : st.author_bytes[a] <= AuthorBudget
  /\ st.total_bytes <= TotalBudget

\* What is charged to some keys is what is charged to each part of them.
LEMMA BytesSplit ==
  ASSUME NEW gs, NEW Y, \A k \in Y : gs[k].bytes \in Nat,
         IsFiniteSet(Units(Charges(gs, Y))), NEW X \in SUBSET Y
  PROVE  /\ IsFiniteSet(Units(Charges(gs, X))) /\ IsFiniteSet(Units(Charges(gs, Y \ X)))
         /\ Bytes(gs, X) \in Nat /\ Bytes(gs, Y \ X) \in Nat
         /\ Bytes(gs, Y) = Bytes(gs, X) + Bytes(gs, Y \ X)
<1> DEFINE s == Charges(gs, Y)
           in == [x \in X |-> s[x]]
           out == [x \in Y \ X |-> s[x]]
<1>1. s \in [Y -> Nat]
  BY DEF Charges
<1>2. in = Charges(gs, X) /\ out = Charges(gs, Y \ X)
  BY DEF Charges
<1> HIDE DEF s
<1>3. /\ IsFiniteSet(Units(in)) /\ IsFiniteSet(Units(out))
      /\ SumOf(in) \in Nat /\ SumOf(out) \in Nat
      /\ SumOf(s) = SumOf(in) + SumOf(out)
  BY <1>1, SumSplits DEF s
<1> HIDE DEF in, out
<1>4. /\ Bytes(gs, Y) = SumOf(s)
      /\ Bytes(gs, X) = SumOf(Charges(gs, X))
      /\ Bytes(gs, Y \ X) = SumOf(Charges(gs, Y \ X))
  BY DEF Bytes, Charges, s
<1> QED BY <1>2, <1>3, <1>4

\* Equal groups are charged the same.
LEMMA BytesSame ==
  ASSUME NEW gs, NEW hs, NEW ks, \A k \in ks : gs[k].bytes = hs[k].bytes
  PROVE  Charges(gs, ks) = Charges(hs, ks) /\ Bytes(gs, ks) = Bytes(hs, ks)
BY DEF Charges, Bytes

\* evict gives back what it drops, to the author and to the whole, and nothing
\* else.
LEMMA EvictSound ==
  ASSUME NEW st, Sound(st), NEW ks
  PROVE  LET E == Evict(st, ks)
         IN  /\ Sound(E) /\ DOMAIN E.groups = DOMAIN st.groups \ ks
             /\ \A k \in DOMAIN E.groups : E.groups[k] = st.groups[k]
             /\ \A a \in Authors : E.author_bytes[a] <= st.author_bytes[a]
             /\ E.total_bytes <= st.total_bytes
<1> DEFINE E == Evict(st, ks)
           gs == st.groups
           D == DOMAIN st.groups
           gone == ks \cap D
           Of(a) == {k \in gone : k[1] = a}
<1>1. /\ D \subseteq Keys /\ (\A k \in D : Partial(gs[k], k))
      /\ IsFiniteSet(Units(Charges(gs, D)))
      /\ st.author_bytes \in [Authors -> Nat]
      /\ \A a \in Authors : st.author_bytes[a] = Bytes(gs, OfAuthor(gs, a))
      /\ st.total_bytes \in Nat /\ st.total_bytes = Bytes(gs, D)
  BY DEF Sound
<1>2. \A k \in D : gs[k].bytes \in Nat
  BY <1>1 DEF Partial, Group
<1>3. /\ E.groups = [k \in D \ gone |-> gs[k]]
      /\ E.author_bytes = [a \in Authors |-> SaturatingSub(st.author_bytes[a], Bytes(gs, Of(a)))]
      /\ E.total_bytes = SaturatingSub(st.total_bytes, Bytes(gs, gone))
  BY DEF Evict, Restrict
<1> HIDE DEF E
<1>4. /\ DOMAIN E.groups = D \ gone /\ D \ gone = D \ ks
      /\ \A k \in D \ gone : E.groups[k] = gs[k]
  BY <1>3
<1>5. /\ IsFiniteSet(Units(Charges(gs, D \ gone)))
      /\ Bytes(gs, gone) \in Nat /\ Bytes(gs, D \ gone) \in Nat
      /\ Bytes(gs, D) = Bytes(gs, gone) + Bytes(gs, D \ gone)
  <2>1. gone \in SUBSET D
    OBVIOUS
  <2>2. IsFiniteSet(Units(Charges(gs, D)))
    BY <1>1
  <2> HIDE DEF D, gone, gs
  <2>3. \A k \in D : gs[k].bytes \in Nat
    BY <1>2
  <2> QED BY <2>1, <2>2, <2>3, BytesSplit
<1>6. /\ Charges(E.groups, D \ gone) = Charges(gs, D \ gone)
      /\ Bytes(E.groups, D \ gone) = Bytes(gs, D \ gone)
  BY <1>4, BytesSame
<1>7. /\ E.total_bytes \in Nat /\ E.total_bytes = Bytes(E.groups, DOMAIN E.groups)
      /\ E.total_bytes <= st.total_bytes
  <2> HIDE DEF D, gone, gs
  <2> QED BY <1>1, <1>3, <1>4, <1>5, <1>6 DEF SaturatingSub
<1>8. ASSUME NEW a \in Authors
      PROVE  /\ E.author_bytes[a] \in Nat /\ E.author_bytes[a] <= st.author_bytes[a]
             /\ E.author_bytes[a] = Bytes(E.groups, OfAuthor(E.groups, a))
  <2> DEFINE A == OfAuthor(gs, a)
             B == OfAuthor(E.groups, a)
  <2>1. A \in SUBSET D /\ Of(a) \in SUBSET A /\ B = A \ Of(a) /\ B \subseteq D \ gone
    BY <1>4 DEF OfAuthor
  <2>2. E.author_bytes[a] = SaturatingSub(st.author_bytes[a], Bytes(gs, Of(a)))
    BY <1>3
  <2> HIDE DEF D, gone, gs, A, B, Of
  <2>3. IsFiniteSet(Units(Charges(gs, A)))
    BY <1>1, <1>2, <2>1, BytesSplit
  <2>4. /\ Bytes(gs, Of(a)) \in Nat /\ Bytes(gs, B) \in Nat
        /\ Bytes(gs, A) = Bytes(gs, Of(a)) + Bytes(gs, B)
    BY <1>2, <2>1, <2>3, BytesSplit
  <2>5. Bytes(E.groups, B) = Bytes(gs, B)
    BY <1>4, <2>1, BytesSame
  <2>6. st.author_bytes[a] = Bytes(gs, A)
    BY <1>1 DEF A
  <2> QED BY <2>2, <2>4, <2>5, <2>6 DEF SaturatingSub, B
<1>9. E.author_bytes \in [Authors -> Nat]
  BY <1>3, <1>8
<1>10. Sound(E)
  <2>1. \A k \in DOMAIN E.groups : Partial(E.groups[k], k)
    BY <1>1, <1>4
  <2>2. DOMAIN E.groups \subseteq Keys /\ IsFiniteSet(Units(Charges(E.groups, DOMAIN E.groups)))
    BY <1>1, <1>4, <1>5, <1>6
  <2> HIDE DEF D, gone, gs, Of
  <2> QED BY <1>7, <1>8, <1>9, <2>1, <2>2 DEF Sound
<1> QED BY <1>4, <1>7, <1>8, <1>10 DEF E

\* x is charged n more, and no other key anything.
Charged(gs, hs, X, x, n) ==
  /\ \A k \in X : gs[k].bytes \in Nat
  /\ \A k \in X : k # x => hs[k].bytes = gs[k].bytes
  /\ x \in X => hs[x].bytes = gs[x].bytes + n
  /\ x \notin X => hs[x].bytes = n

\* A key's charge grows by n, or a new key is charged n.
LEMMA BytesGrow ==
  ASSUME NEW gs, NEW hs, NEW X, NEW x, NEW n \in Nat, NEW Y, Y = X \cup {x},
         Charged(gs, hs, X, x, n), IsFiniteSet(Units(Charges(gs, X)))
  PROVE  /\ IsFiniteSet(Units(Charges(hs, Y)))
         /\ Bytes(hs, Y) = Bytes(gs, X) + n
<1> DEFINE s == Charges(gs, X)
           t == Charges(hs, Y)
<1>1. /\ s \in [X -> Nat] /\ t \in [X \cup {x} -> Nat]
      /\ \A y \in X : y # x => t[y] = s[y]
  BY DEF Charges, Charged
<1>2. (x \in X => t[x] = s[x] + n) /\ (x \notin X => t[x] = n)
  BY DEF Charges, Charged
<1>3. IsFiniteSet(Units(s))
  OBVIOUS
<1>4. Bytes(gs, X) = SumOf(s) /\ Bytes(hs, Y) = SumOf(t)
  BY DEF Bytes, Charges
<1> HIDE DEF s, t
<1>5. IsFiniteSet(Units(t)) /\ SumOf(t) = SumOf(s) + n
  <2>1. Grown(s, t, X, x, n)
    BY <1>1, <1>2 DEF Grown
  <2> QED BY <1>3, <2>1, SumGrows
<1> QED BY <1>4, <1>5 DEF t

\* What a shard is.
LEMMA FrameFacts ==
  ASSUME NEW f \in Frames
  PROVE  /\ f.total \in Nat /\ f.idx \in 0..(f.total - 1) /\ f.total > 0
         /\ f.size \in Nat /\ f.size <= GroupMax /\ GroupMax \in Nat
         /\ Key(f) \in Keys /\ Key(f)[1] = f.author /\ f.author \in Authors
<1>1. /\ f.total \in Nat /\ f.idx \in 0..(f.total - 1)
      /\ f.size \in Nat /\ f.size <= GroupMax /\ GroupMax \in Nat
  BY ReassemblyAssumption
<1>2. f.total > 0
  BY <1>1
<1> QED BY <1>1, <1>2 DEF Key, Keys, Authors

\* A group with one more of its shards in is still what a group is.
LEMMA FillSlot ==
  ASSUME NEW f \in Frames, NEW old, Partial(old, Key(f)), old.total = f.total,
         \A h \in old.slots : h.idx # f.idx, old.bytes + f.size <= GroupMax
  PROVE  LET new == [old EXCEPT !.slots = @ \cup {f}, !.bytes = @ + f.size, !.idle = 0]
         IN  /\ Partial(new, Key(f))
             /\ new.slots = old.slots \cup {f} /\ new.bytes = old.bytes + f.size
             /\ new.total = f.total
<1> DEFINE new == [old EXCEPT !.slots = @ \cup {f}, !.bytes = @ + f.size, !.idle = 0]
<1>1. /\ old \in Group /\ old.bytes \in Nat /\ IsFiniteSet(old.slots)
      /\ \A h \in old.slots : Key(h) = Key(f) /\ h.total = old.total
      /\ \A g, h \in old.slots : g.idx = h.idx => g = h
      /\ IsFiniteSet(Units(Sizes(old.slots))) /\ old.bytes = SumOf(Sizes(old.slots))
      /\ old.slots \subseteq Frames
  BY DEF Partial, Group
<1>2. f.total \in Nat /\ f.size \in Nat
  BY FrameFacts
<1>3. /\ new \in Group /\ new.slots = old.slots \cup {f} /\ new.bytes = old.bytes + f.size
      /\ new.total = f.total
  <2> DEFINE S == old.slots \cup {f}
             n == old.bytes + f.size
  <2>1. S \in SUBSET Frames /\ n \in Nat
    BY <1>1, <1>2
  <2>2. new = [old EXCEPT !.slots = S, !.bytes = n, !.idle = 0]
    BY <1>1 DEF Group
  <2> HIDE DEF new, S, n
  <2>3. new \in Group /\ new.slots = S /\ new.bytes = n /\ new.total = old.total
    BY <1>1, <2>1, <2>2 DEF Group
  <2> QED BY <2>3 DEF S, n
<1> HIDE DEF new
<1>4. IsFiniteSet(new.slots)
  BY <1>1, <1>3, FS_AddElement
<1>5. /\ IsFiniteSet(Units(Sizes(new.slots)))
      /\ SumOf(Sizes(new.slots)) = SumOf(Sizes(old.slots)) + f.size
  <2> DEFINE X == old.slots
             s == Sizes(old.slots)
             t == Sizes(new.slots)
  <2>1. f \notin X
    OBVIOUS
  <2>2. \A h \in X \cup {f} : h.size \in Nat
    BY <1>1, FrameFacts
  <2>3. /\ s \in [X -> Nat] /\ t \in [X \cup {f} -> Nat]
        /\ \A y \in X : y # f => t[y] = s[y]
        /\ t[f] = f.size
    BY <1>3, <2>2 DEF Sizes
  <2>4. Grown(s, t, X, f, f.size)
    <3> HIDE DEF s, t, X
    <3> QED BY <2>1, <2>3 DEF Grown
  <2>5. IsFiniteSet(Units(s))
    BY <1>1
  <2> HIDE DEF s, t, X
  <2>6. IsFiniteSet(Units(t)) /\ SumOf(t) = SumOf(s) + f.size
    BY <1>2, <2>4, <2>5, SumGrows
  <2> QED BY <2>6 DEF s, t
<1>6. Partial(new, Key(f))
  BY <1>1, <1>2, <1>3, <1>4, <1>5 DEF Partial
<1> QED BY <1>3, <1>6 DEF new

\* A fresh group buffers nothing.
LEMMA FreshGroup ==
  ASSUME NEW f \in Frames
  PROVE  /\ Partial(NewGroup(f), Key(f)) /\ NewGroup(f).total = f.total
         /\ NewGroup(f).slots = {} /\ NewGroup(f).bytes = 0
<1> DEFINE g == NewGroup(f)
<1>1. f.total \in Nat /\ RepairIdle \in Nat /\ GroupMax \in Nat
  BY ReassemblyAssumption
<1>2. /\ g \in Group /\ g.slots = {} /\ g.bytes = 0 /\ g.total = f.total
  BY <1>1 DEF NewGroup, Group
<1> HIDE DEF g
<1>3. Units(Sizes({})) = {}
  BY DEF Units, Sizes
<1>4. IsFiniteSet({}) /\ Cardinality({}) = 0
  BY FS_EmptySet
<1>5. Partial(g, Key(f))
  BY <1>1, <1>2, <1>3, <1>4 DEF Partial, SumOf
<1> QED BY <1>2, <1>5 DEF g

\* Buffering a shard the budgets admit keeps the counters and the budgets.
LEMMA BufferSound ==
  ASSUME NEW st, Sound(st), Within(st), NEW f \in Frames, Admits(st, f),
         Key(f) \in DOMAIN st.groups =>
           /\ st.groups[Key(f)].total = f.total
           /\ \A h \in st.groups[Key(f)].slots : h.idx # f.idx
           /\ st.groups[Key(f)].bytes + f.size <= GroupMax
  PROVE  LET B == Buffer(st, f)
         IN  /\ Sound(B) /\ Within(B)
             /\ DOMAIN B.groups = DOMAIN st.groups \cup {Key(f)}
             /\ \A k \in DOMAIN st.groups : k # Key(f) => B.groups[k] = st.groups[k]
             /\ B.groups[Key(f)].total = f.total
<1> DEFINE B == Buffer(st, f)
           key == Key(f)
           gs == st.groups
           D == DOMAIN st.groups
           old == IF key \in D THEN gs[key] ELSE NewGroup(f)
           new == [old EXCEPT !.slots = @ \cup {f}, !.bytes = @ + f.size, !.idle = 0]
           H == [k \in D \cup {key} |-> IF k = key THEN new ELSE gs[k]]
<1>1. /\ D \subseteq Keys /\ (\A k \in D : Partial(gs[k], k))
      /\ IsFiniteSet(Units(Charges(gs, D)))
      /\ st.author_bytes \in [Authors -> Nat]
      /\ \A a \in Authors : st.author_bytes[a] = Bytes(gs, OfAuthor(gs, a))
      /\ st.total_bytes \in Nat /\ st.total_bytes = Bytes(gs, D)
  BY DEF Sound
<1>2. /\ f.size \in Nat /\ f.size <= GroupMax /\ f.total \in Nat
      /\ key \in Keys /\ key[1] = f.author /\ f.author \in Authors
  BY FrameFacts
<1>3. Partial(old, key) /\ old.total = f.total
      /\ (\A h \in old.slots : h.idx # f.idx) /\ old.bytes + f.size <= GroupMax
      /\ old.bytes = (IF key \in D THEN gs[key].bytes ELSE 0)
  <2>1. CASE key \in D
    BY <1>1, <2>1
  <2>2. CASE key \notin D
    BY <1>2, <2>2, FreshGroup
  <2> QED BY <2>1, <2>2
<1>4. /\ Partial(new, key) /\ new.bytes = old.bytes + f.size /\ new.total = f.total
  <2> HIDE DEF old
  <2> QED BY <1>3, FillSlot
<1>5. /\ B.groups = H
      /\ B.author_bytes = [st.author_bytes EXCEPT ![f.author] = @ + f.size]
      /\ B.total_bytes = st.total_bytes + f.size
  BY DEF Buffer
<1> HIDE DEF B, new, old
<1>6. /\ DOMAIN B.groups = D \cup {key} /\ B.groups[key] = new
      /\ \A k \in D : k # key => B.groups[k] = gs[k]
  BY <1>5
<1> HIDE DEF H
<1>7. /\ \A k \in D : gs[k].bytes \in Nat
      /\ \A k \in D : k # key => B.groups[k].bytes = gs[k].bytes
      /\ key \in D => B.groups[key].bytes = gs[key].bytes + f.size
      /\ key \notin D => B.groups[key].bytes = f.size
  BY <1>1, <1>2, <1>3, <1>4, <1>6 DEF Partial, Group
<1>8. \A k \in D \cup {key} : Partial(B.groups[k], k)
  BY <1>1, <1>4, <1>6
<1> HIDE DEF gs, D, key
<1>9. /\ IsFiniteSet(Units(Charges(B.groups, D \cup {key})))
      /\ Bytes(B.groups, D \cup {key}) = Bytes(gs, D) + f.size
  <2>1. IsFiniteSet(Units(Charges(gs, D)))
    BY <1>1
  <2>2. Charged(gs, B.groups, D, key, f.size)
    BY <1>7 DEF Charged
  <2> QED BY <1>2, <2>1, <2>2, BytesGrow
<1>10. ASSUME NEW a \in Authors
       PROVE  B.author_bytes[a] = Bytes(B.groups, OfAuthor(B.groups, a))
  <2> DEFINE A == OfAuthor(gs, a)
  <2>1. A \in SUBSET D
    BY DEF OfAuthor, D, gs
  <2>2. IsFiniteSet(Units(Charges(gs, A))) /\ \A k \in A : gs[k].bytes \in Nat
    <3>1. IsFiniteSet(Units(Charges(gs, D))) /\ \A k \in D : gs[k].bytes \in Nat
      BY <1>1, <1>7
    <3> HIDE DEF A
    <3> QED BY <2>1, <3>1, BytesSplit
  <2>3. st.author_bytes[a] = Bytes(gs, A)
    BY <1>1
  <2>4. CASE a = f.author
    <3>1. OfAuthor(B.groups, a) = A \cup {key}
      BY <1>2, <1>6, <2>4 DEF OfAuthor, D, gs
    <3>2. key \in A <=> key \in D
      BY <1>2, <2>4 DEF OfAuthor, D, gs
    <3> HIDE DEF A
    <3>3. Charged(gs, B.groups, A, key, f.size)
      BY <1>7, <2>1, <2>2, <3>2 DEF Charged
    <3>4. Bytes(B.groups, A \cup {key}) = Bytes(gs, A) + f.size
      BY <1>2, <2>2, <3>3, BytesGrow
    <3>5. B.author_bytes[a] = st.author_bytes[a] + f.size
      BY <1>1, <1>2, <1>5, <2>4
    <3> QED BY <2>3, <3>1, <3>4, <3>5
  <2>5. CASE a # f.author
    <3>1. OfAuthor(B.groups, a) = A /\ key \notin A
      BY <1>2, <1>6, <2>5 DEF OfAuthor, D, gs
    <3> HIDE DEF A
    <3>2. \A k \in A : B.groups[k].bytes = gs[k].bytes
      BY <1>7, <2>1, <3>1
    <3>3. Bytes(B.groups, A) = Bytes(gs, A)
      BY <3>2, BytesSame
    <3>4. B.author_bytes[a] = st.author_bytes[a]
      BY <1>1, <1>2, <1>5, <2>5
    <3> QED BY <2>3, <3>1, <3>3, <3>4
  <2> QED BY <2>4, <2>5
<1>11. B.author_bytes \in [Authors -> Nat]
  BY <1>1, <1>2, <1>5
<1>12. B.total_bytes \in Nat /\ B.total_bytes = Bytes(B.groups, DOMAIN B.groups)
  BY <1>1, <1>2, <1>5, <1>6, <1>9
<1>13. Sound(B)
  <2>1. DOMAIN B.groups \subseteq Keys
    BY <1>1, <1>2, <1>6
  <2>2. \A k \in DOMAIN B.groups : Partial(B.groups[k], k)
    BY <1>6, <1>8
  <2>3. IsFiniteSet(Units(Charges(B.groups, DOMAIN B.groups)))
    BY <1>6, <1>9
  <2> QED BY <1>10, <1>11, <1>12, <2>1, <2>2, <2>3 DEF Sound
<1>14. Within(B)
  <2>1. st.author_bytes[f.author] + f.size <= AuthorBudget /\ st.total_bytes + f.size <= TotalBudget
    BY DEF Admits
  <2>2. \A a \in Authors : B.author_bytes[a] <= AuthorBudget
    BY <1>1, <1>2, <1>5, <2>1 DEF Within
  <2> QED BY <1>5, <2>1, <2>2 DEF Within
<1> QED BY <1>4, <1>6, <1>13, <1>14 DEF B, D, gs, key

-----------------------------------------------------------------------------
(* Whole bodies *)

\* One shard a slot, no slot missing, all of one key and total.
Whole(slots, k, total) ==
  /\ slots \subseteq Frames
  /\ \A f \in slots : Key(f) = k /\ f.total = total
  /\ {f.idx : f \in slots} = 0..(total - 1)
  /\ Cardinality(slots) = total

\* One shard a slot from 0 to n - 1 are n shards.
LEMMA OneEach ==
  ASSUME NEW fs, NEW n \in Nat, {f.idx : f \in fs} = 0..(n - 1),
         \A f, g \in fs : f.idx = g.idx => f = g
  PROVE  IsFiniteSet(fs) /\ Cardinality(fs) = n
<1> DEFINE I == 0..(n - 1)
           at == [i \in I |-> CHOOSE f \in fs : f.idx = i]
<1>1. \A i \in I : at[i] \in fs /\ at[i].idx = i
  <2> SUFFICES ASSUME NEW i \in I PROVE at[i] \in fs /\ at[i].idx = i
    OBVIOUS
  <2>1. \E f \in fs : f.idx = i
    OBVIOUS
  <2> QED BY <2>1
<1>2. \A f \in fs : f.idx \in I
  OBVIOUS
<1> HIDE DEF at
<1>3. fs = {at[i] : i \in I}
  BY <1>1, <1>2
<1>4. \A i, j \in I : at[i] = at[j] => i = j
  BY <1>1
<1>5. IsFiniteSet(I) /\ Cardinality(I) = n
  BY FS_Interval
<1> HIDE DEF I
<1>6. IsFiniteSet({at[i] : i \in I}) /\ Cardinality({at[i] : i \in I}) = n
  BY <1>4, <1>5, SameSize
<1> QED BY <1>3, <1>6

\* As many shards as slots, no two of one slot: no slot is missing.
LEMMA NoneMissing ==
  ASSUME NEW fs, IsFiniteSet(fs), NEW n \in Nat, \A f \in fs : f.idx \in 0..(n - 1),
         \A f, g \in fs : f.idx = g.idx => f = g, Cardinality(fs) >= n
  PROVE  {f.idx : f \in fs} = 0..(n - 1) /\ Cardinality(fs) = n
<1> DEFINE I == 0..(n - 1)
           of == [f \in fs |-> f.idx]
           T == {of[f] : f \in fs}
<1>1. \A f, g \in fs : of[f] = of[g] => f = g
  OBVIOUS
<1>2. T = {f.idx : f \in fs} /\ T \subseteq I
  OBVIOUS
<1>3. IsFiniteSet(I) /\ Cardinality(I) = n
  BY FS_Interval
<1> HIDE DEF of, I
<1>4. IsFiniteSet(T) /\ Cardinality(T) = Cardinality(fs)
  BY <1>1, SameSize
<1> HIDE DEF T
<1>5. Cardinality(T) \in Nat /\ Cardinality(T) <= n /\ (Cardinality(T) = n => T = I)
  BY <1>2, <1>3, <1>4, FS_Subset, FS_CardinalityType
<1>6. T = I /\ Cardinality(fs) = n
  BY <1>4, <1>5
<1> QED BY <1>2, <1>6 DEF I

-----------------------------------------------------------------------------
(* The operations on the store *)

\* Dropping groups never breaks a budget.
LEMMA EvictWithin ==
  ASSUME NEW st, Sound(st), Within(st), NEW ks
  PROVE  Sound(Evict(st, ks)) /\ Within(Evict(st, ks))
<1> DEFINE E == Evict(st, ks)
<1>1. /\ Sound(E)
      /\ \A a \in Authors : E.author_bytes[a] <= st.author_bytes[a]
      /\ E.total_bytes <= st.total_bytes
  BY EvictSound
<1> HIDE DEF E
<1>2. /\ E.author_bytes \in [Authors -> Nat] /\ E.total_bytes \in Nat
      /\ st.author_bytes \in [Authors -> Nat] /\ st.total_bytes \in Nat
  BY <1>1 DEF Sound
<1>3. AuthorBudget \in Nat /\ TotalBudget \in Nat
  BY ReassemblyAssumption
<1>4. Within(E)
  BY <1>1, <1>2, <1>3 DEF Within
<1> QED BY <1>1, <1>4 DEF E

\* ingest keeps the counters and the budgets, and a group it completes is whole.
LEMMA IngestedSound ==
  ASSUME Sound(Store), Within(Store), NEW f \in Frames, NEW r \in Ingested(f)
  PROVE  /\ Sound(r.store) /\ Within(r.store)
         /\ r.slots # {} => Whole(r.slots, Key(f), f.total)
<1> DEFINE key == Key(f)
<1>0. Store.groups = groups
  BY DEF Store
<1>1. CASE Contradicts(f) \/ Duplicate(f)
  <2>1. r = [store |-> Store, slots |-> {}]
    BY <1>1 DEF Ingested
  <2> QED BY <2>1
<1>2. CASE ~(Contradicts(f) \/ Duplicate(f)) /\ Overflows(f)
  <2>1. r = [store |-> Evict(Store, {key}), slots |-> {}]
    BY <1>2 DEF Ingested
  <2>2. r.store = Evict(Store, {key}) /\ r.slots = {}
    BY <2>1
  <2> QED BY <2>2, EvictWithin
<1>3. CASE ~(Contradicts(f) \/ Duplicate(f)) /\ ~Overflows(f)
  <2> DEFINE Out(vs) ==
               LET room == Evict(Store, vs)
                   full == Buffer(room, f)
                   group == full.groups[Key(f)]
               IN  IF ~Admits(room, f) THEN [store |-> room, slots |-> {}]
                   ELSE IF Cardinality(group.slots) < group.total THEN [store |-> full, slots |-> {}]
                   ELSE [store |-> Evict(full, {Key(f)}),
                         slots |-> IF Key(f) \in Malformed THEN {} ELSE group.slots]
  <2>1. Ingested(f) = {Out(vs) : vs \in Victims(f)}
    BY <1>3 DEF Ingested
  <2> HIDE DEF Out
  <2>2. PICK vs \in Victims(f) : r = Out(vs)
    BY <2>1
  <2> DEFINE room == Evict(Store, vs)
             full == Buffer(room, f)
             group == full.groups[key]
  <2>3. key \notin vs
    BY DEF Victims
  <2>4. Sound(room) /\ Within(room)
    BY EvictWithin
  <2>5. DOMAIN room.groups = DOMAIN groups \ vs /\ \A k \in DOMAIN room.groups : room.groups[k] = groups[k]
    BY <1>0, EvictSound
  <2>6. key \in DOMAIN groups =>
          /\ groups[key].total = f.total
          /\ \A h \in groups[key].slots : h.idx # f.idx
          /\ groups[key].bytes + f.size <= GroupMax
    <3> SUFFICES ASSUME key \in DOMAIN groups
                 PROVE  /\ groups[key].total = f.total
                        /\ \A h \in groups[key].slots : h.idx # f.idx
                        /\ groups[key].bytes + f.size <= GroupMax
      OBVIOUS
    <3>1. groups[key].bytes \in Nat /\ f.size \in Nat /\ GroupMax \in Nat
      BY <1>0, FrameFacts DEF Sound, Partial, Group
    <3>2. ~(groups[key].bytes + f.size > GroupMax)
      BY <1>3 DEF Overflows
    <3>3. groups[key].total = f.total /\ \A h \in groups[key].slots : h.idx # f.idx
      BY <1>3 DEF Contradicts, Duplicate
    <3> QED BY <3>1, <3>2, <3>3
  <2>7. key \in DOMAIN room.groups =>
          /\ room.groups[key].total = f.total
          /\ \A h \in room.groups[key].slots : h.idx # f.idx
          /\ room.groups[key].bytes + f.size <= GroupMax
    BY <2>5, <2>6
  <2>8. CASE ~Admits(room, f)
    <3>1. r = [store |-> room, slots |-> {}]
      BY <2>2, <2>8 DEF Out
    <3>2. r.store = room /\ r.slots = {}
      BY <3>1
    <3> HIDE DEF room
    <3> QED BY <2>4, <3>2
  <2>9. CASE Admits(room, f)
    <3>1. Sound(full) /\ Within(full) /\ key \in DOMAIN full.groups /\ group.total = f.total
      <4> HIDE DEF room
      <4> QED BY <2>4, <2>7, <2>9, BufferSound
    <3>2. CASE Cardinality(group.slots) < group.total
      <4>1. r = [store |-> full, slots |-> {}]
        BY <2>2, <2>9, <3>2 DEF Out
      <4>2. r.store = full /\ r.slots = {}
        BY <4>1
      <4> HIDE DEF full
      <4> QED BY <3>1, <4>2
    <3>3. CASE ~(Cardinality(group.slots) < group.total)
      <4>1. r = [store |-> Evict(full, {key}),
                 slots |-> IF key \in Malformed THEN {} ELSE group.slots]
        BY <2>2, <2>9, <3>3 DEF Out
      <4>2. r.store = Evict(full, {key}) /\ (r.slots # {} => r.slots = group.slots)
        BY <4>1
      <4> HIDE DEF full
      <4>3. Sound(r.store) /\ Within(r.store)
        BY <3>1, <4>2, EvictWithin
      <4>4. Partial(group, key)
        BY <3>1 DEF Sound
      <4> HIDE DEF group
      <4>5. /\ IsFiniteSet(group.slots) /\ group.slots \subseteq Frames
            /\ \A h \in group.slots : Key(h) = key /\ h.total = group.total
            /\ \A g, h \in group.slots : g.idx = h.idx => g = h
        BY <4>4 DEF Partial, Group
      <4>6. \A h \in group.slots : h.idx \in 0..(f.total - 1)
        BY <3>1, <4>5, FrameFacts
      <4>7. f.total \in Nat /\ Cardinality(group.slots) \in Nat
        BY <4>5, FrameFacts, FS_CardinalityType
      <4>8. Cardinality(group.slots) >= f.total
        BY <3>1, <3>3, <4>7
      <4>9. {h.idx : h \in group.slots} = 0..(f.total - 1) /\ Cardinality(group.slots) = f.total
        BY <4>5, <4>6, <4>7, <4>8, NoneMissing
      <4>10. Whole(group.slots, key, f.total)
        BY <3>1, <4>5, <4>9 DEF Whole
      <4> QED BY <4>2, <4>3, <4>10
    <3> QED BY <3>2, <3>3
  <2> QED BY <2>8, <2>9
<1> QED BY <1>1, <1>2, <1>3

\* A group the log completes is whole, and the log completes every small group
\* it holds all of.
LEMMA LoggedWhole ==
  ASSUME NEW lg \in SUBSET Frames, NEW f \in Frames, NEW logged \in FromLog(lg, f)
  PROVE  /\ logged # {} => Whole(logged, Key(f), f.total)
         /\ FitsLog(f) /\ HasAll(lg, Key(f), f.total) /\ Key(f) \notin Malformed => logged # {}
<1> DEFINE fs == InLog(lg, Key(f), f.total)
           due == FitsLog(f) /\ HasAll(lg, Key(f), f.total) /\ Key(f) \notin Malformed
<1>1. CASE ~due
  <2>1. logged \in {{}}
    BY <1>1 DEF FromLog
  <2> QED BY <1>1, <2>1
<1>2. CASE due
  <2>1. logged \in OnePerSlot(fs)
    BY <1>2 DEF FromLog
  <2>2. f.total \in Nat /\ f.total > 0
    BY FrameFacts
  <2>3. fs \subseteq Frames /\ \A g \in fs : Key(g) = Key(f) /\ g.total = f.total
    BY DEF InLog
  <2>4. \A g \in fs : g.idx \in 0..(f.total - 1)
    BY <2>3, FrameFacts
  <2>5. \A i \in 0..(f.total - 1) : \E g \in fs : g.idx = i
    BY <1>2 DEF HasAll
  <2> HIDE DEF fs
  <2>6. {g.idx : g \in fs} = 0..(f.total - 1)
    BY <2>4, <2>5
  <2>7. /\ logged \subseteq fs /\ {g.idx : g \in logged} = 0..(f.total - 1)
        /\ \A g, h \in logged : g.idx = h.idx => g = h
    BY <2>1, <2>6 DEF OnePerSlot
  <2>8. Cardinality(logged) = f.total
    BY <2>2, <2>7, OneEach
  <2>9. logged # {}
    <3>1. 0 \in {g.idx : g \in logged}
      BY <2>2, <2>7
    <3> QED BY <3>1
  <2> QED BY <2>3, <2>7, <2>8, <2>9 DEF Whole
<1> QED BY <1>1, <1>2

\* Only the fields tell stores apart.
LEMMA SameStore ==
  ASSUME NEW st, Sound(st), Within(st), NEW su, su.groups = st.groups,
         su.author_bytes = st.author_bytes, su.total_bytes = st.total_bytes
  PROVE  Sound(su) /\ Within(su)
BY DEF Sound, Within

\* Ageing a group, or asking for it, changes no charge.
LEMMA SameCharges ==
  ASSUME NEW st, Sound(st), Within(st), NEW su,
         DOMAIN su.groups = DOMAIN st.groups,
         \A k \in DOMAIN st.groups :
           /\ su.groups[k] \in Group
           /\ su.groups[k].total = st.groups[k].total
           /\ su.groups[k].slots = st.groups[k].slots
           /\ su.groups[k].bytes = st.groups[k].bytes,
         su.author_bytes = st.author_bytes, su.total_bytes = st.total_bytes
  PROVE  Sound(su) /\ Within(su)
<1> DEFINE D == DOMAIN st.groups
<1>1. \A k \in D : Partial(su.groups[k], k)
  BY DEF Sound, Partial
<1>2. \A k \in D : su.groups[k].bytes = st.groups[k].bytes
  OBVIOUS
<1>3. ASSUME NEW ks \in SUBSET D
      PROVE  Charges(su.groups, ks) = Charges(st.groups, ks) /\ Bytes(su.groups, ks) = Bytes(st.groups, ks)
  BY <1>2, BytesSame
<1>4. \A a \in Authors : OfAuthor(su.groups, a) = OfAuthor(st.groups, a) /\ OfAuthor(st.groups, a) \subseteq D
  BY DEF OfAuthor
<1>5. \A a \in Authors : Bytes(su.groups, OfAuthor(su.groups, a)) = Bytes(st.groups, OfAuthor(st.groups, a))
  BY <1>3, <1>4
<1>6. /\ Charges(su.groups, DOMAIN su.groups) = Charges(st.groups, D)
      /\ Bytes(su.groups, DOMAIN su.groups) = Bytes(st.groups, D)
  BY <1>3
<1>7. DOMAIN su.groups \subseteq Keys /\ IsFiniteSet(Units(Charges(su.groups, DOMAIN su.groups)))
  BY <1>6 DEF Sound
<1>8. /\ su.author_bytes \in [Authors -> Nat] /\ su.total_bytes \in Nat
      /\ \A a \in Authors : su.author_bytes[a] = Bytes(su.groups, OfAuthor(su.groups, a))
      /\ su.total_bytes = Bytes(su.groups, DOMAIN su.groups)
  BY <1>5, <1>6 DEF Sound
<1>9. Sound(su)
  BY <1>1, <1>7, <1>8 DEF Sound
<1> QED BY <1>9 DEF Within

\* What a reassembling step does to a body and to what surfaced.
Body(f, slots) == [author |-> f.author, group |-> f.group, total |-> f.total, slots |-> slots]

LogHasWhole(lg, f) == FitsLog(f) /\ HasAll(lg, Key(f), f.total) /\ Key(f) \notin Malformed

\* What reassemble does to the store.
LEMMA ReassembleStep ==
  ASSUME Sound(Store), Within(Store), NEW f \in Frames, NEW lg \in SUBSET Frames,
         Reassemble(f, lg)
  PROVE  /\ Sound(Store') /\ Within(Store')
         /\ \/ /\ UNCHANGED <<reassembled, surfaced>>
               /\ f.group \in Range(reassembled) \/ ~LogHasWhole(lg, f)
            \/ /\ f.group \notin Range(reassembled)
               /\ reassembled' = Remember(reassembled, f.group, GroupsCap)
               /\ \E slots : /\ Whole(slots, Key(f), f.total)
                             /\ surfaced' \in {surfaced, Append(surfaced, Body(f, slots))}
<1>0. ASSUME NEW st, Sound(st), Within(st), TakeStore(st) PROVE Sound(Store') /\ Within(Store')
  <2>1. /\ (Store').groups = st.groups /\ (Store').author_bytes = st.author_bytes
        /\ (Store').total_bytes = st.total_bytes
    BY <1>0 DEF TakeStore, Store
  <2> QED BY <1>0, <2>1, SameStore
<1>1. CASE /\ f.group \in Range(reassembled)
           /\ UNCHANGED <<store, reassembled, surfaced>>
  <2>1. Store' = Store
    BY <1>1 DEF store, Store
  <2> QED BY <1>1, <2>1
<1>2. CASE /\ f.group \notin Range(reassembled)
           /\ \E in \in Ingested(f), logged \in FromLog(lg, f) :
                LET slots == IF in.slots # {} THEN in.slots ELSE logged
                IN  IF slots = {}
                      THEN TakeStore(in.store) /\ UNCHANGED <<reassembled, surfaced>>
                      ELSE /\ TakeStore(Evict(in.store, {Key(f)}))
                           /\ reassembled' = Reassembled(f, in.slots # {})
                           /\ Surface(f, slots)
  <2>1. PICK in \in Ingested(f), logged \in FromLog(lg, f) :
          LET slots == IF in.slots # {} THEN in.slots ELSE logged
          IN  IF slots = {}
                THEN TakeStore(in.store) /\ UNCHANGED <<reassembled, surfaced>>
                ELSE /\ TakeStore(Evict(in.store, {Key(f)}))
                     /\ reassembled' = Reassembled(f, in.slots # {})
                     /\ Surface(f, slots)
    BY <1>2
  <2>2. PICK slots : slots = IF in.slots # {} THEN in.slots ELSE logged
    OBVIOUS
  <2>3. /\ Sound(in.store) /\ Within(in.store)
        /\ in.slots # {} => Whole(in.slots, Key(f), f.total)
    BY IngestedSound
  <2>4. /\ logged # {} => Whole(logged, Key(f), f.total)
        /\ LogHasWhole(lg, f) => logged # {}
    BY LoggedWhole DEF LogHasWhole
  <2>5. CASE slots = {}
    <3>1. TakeStore(in.store) /\ UNCHANGED <<reassembled, surfaced>> /\ logged = {}
      BY <2>1, <2>2, <2>5
    <3>2. Sound(Store') /\ Within(Store')
      BY <1>0, <2>3, <3>1
    <3> QED BY <2>4, <3>1, <3>2
  <2>6. CASE slots # {}
    <3>1. /\ TakeStore(Evict(in.store, {Key(f)})) /\ Surface(f, slots)
          /\ reassembled' = Remember(reassembled, f.group, GroupsCap)
      BY <2>1, <2>2, <2>6 DEF Reassembled
    <3>2. Whole(slots, Key(f), f.total)
      BY <2>2, <2>3, <2>4, <2>6
    <3>3. Sound(Store') /\ Within(Store')
      <4>1. Sound(Evict(in.store, {Key(f)})) /\ Within(Evict(in.store, {Key(f)}))
        BY <2>3, EvictWithin
      <4> QED BY <1>0, <3>1, <4>1
    <3>4. surfaced' \in {surfaced, Append(surfaced, Body(f, slots))}
      BY <3>1 DEF Surface, Body
    <3> QED BY <1>2, <3>1, <3>2, <3>3, <3>4
  <2> QED BY <2>5, <2>6
<1> QED BY <1>1, <1>2 DEF Reassemble

-----------------------------------------------------------------------------
(* The store's invariant *)

StoreInv == log \subseteq Frames /\ Sound(Store) /\ Within(Store)

\* The store is sound at first.
LEMMA InitStore == Init => StoreInv
<1> SUFFICES ASSUME Init PROVE StoreInv
  OBVIOUS
<1>1. /\ log = {} /\ Store.groups = <<>> /\ Store.author_bytes = [a \in Authors |-> 0]
      /\ Store.total_bytes = 0
  BY DEF Init, Store
<1>2. DOMAIN Store.groups = {}
  BY <1>1
<1>3. Units(Charges(Store.groups, {})) = {}
  BY DEF Units, Charges
<1>4. IsFiniteSet({}) /\ Cardinality({}) = 0
  BY FS_EmptySet
<1>5. Bytes(Store.groups, {}) = 0
  <2>1. Bytes(Store.groups, {}) = SumOf(Charges(Store.groups, {}))
    BY DEF Bytes, Charges
  <2> QED BY <1>3, <1>4, <2>1 DEF SumOf
<1>6. \A a \in Authors : OfAuthor(Store.groups, a) = {}
  BY <1>2 DEF OfAuthor
<1>7. Sound(Store)
  <2> DEFINE st == Store
  <2>1. /\ DOMAIN st.groups \subseteq Keys
        /\ \A k \in DOMAIN st.groups : Partial(st.groups[k], k)
        /\ IsFiniteSet(Units(Charges(st.groups, DOMAIN st.groups)))
    BY <1>2, <1>3, <1>4
  <2>2. /\ st.author_bytes \in [Authors -> Nat]
        /\ \A a \in Authors : st.author_bytes[a] = Bytes(st.groups, OfAuthor(st.groups, a))
    <3>1. \A a \in Authors : Bytes(st.groups, OfAuthor(st.groups, a)) = 0
      BY <1>5, <1>6
    <3> QED BY <1>1, <3>1
  <2>3. st.total_bytes \in Nat /\ st.total_bytes = Bytes(st.groups, DOMAIN st.groups)
    BY <1>1, <1>2, <1>5
  <2> QED BY <2>1, <2>2, <2>3 DEF Sound
<1>8. Within(Store)
  BY <1>1, ReassemblyAssumption DEF Within
<1> QED BY <1>1, <1>7, <1>8 DEF StoreInv

\* A repair ticket touches nothing that is charged.
LEMMA AskedGroup ==
  ASSUME NEW g \in Group
  PROVE  LET h == [g EXCEPT !.asked = 0]
         IN  h \in Group /\ h.total = g.total /\ h.slots = g.slots /\ h.bytes = g.bytes
BY DEF Group

\* Every step keeps it sound.
LEMMA NextStore == StoreInv /\ [Next]_vars => StoreInv'
<1> SUFFICES ASSUME StoreInv, [Next]_vars PROVE StoreInv'
  OBVIOUS
<1>0. log \subseteq Frames /\ Sound(Store) /\ Within(Store) /\ Store.groups = groups
  BY DEF StoreInv, Store
<1>a. /\ Store.author_bytes = author_bytes /\ Store.total_bytes = total_bytes
      /\ (Store').groups = groups' /\ (Store').author_bytes = author_bytes'
      /\ (Store').total_bytes = total_bytes'
  BY DEF Store
<1>b. \A k \in DOMAIN groups : groups[k] \in Group
  BY <1>0 DEF Sound, Partial
<1>1. ASSUME NEW f \in Frames, Receive(f) PROVE StoreInv'
  <2>1. log' \in SUBSET Frames /\ Reassemble(f, log')
    BY <1>0, <1>1 DEF Receive
  <2>2. Sound(Store') /\ Within(Store')
    BY <1>0, <2>1, ReassembleStep
  <2> QED BY <2>1, <2>2 DEF StoreInv
<1>2. ASSUME NEW f \in Frames, LogEvicts(f) PROVE StoreInv'
  BY <1>0, <1>2 DEF LogEvicts, store, StoreInv, Store
<1>3. CASE SeenAges
  BY <1>0, <1>3 DEF SeenAges, store, StoreInv, Store
<1>4. CASE Sweep
  <2> DEFINE E == Evict(Store, {k \in DOMAIN groups : Expired(groups[k])})
  <2>1. TakeStore(E) /\ log' = log
    BY <1>4 DEF Sweep
  <2>2. Sound(E) /\ Within(E)
    BY <1>0, EvictWithin
  <2> HIDE DEF E
  <2>3. Sound(Store') /\ Within(Store')
    BY <1>a, <2>1, <2>2, SameStore DEF TakeStore
  <2> QED BY <1>0, <2>1, <2>3 DEF StoreInv
<1>5. ASSUME DOMAIN groups' = DOMAIN groups, log' = log,
             author_bytes' = author_bytes, total_bytes' = total_bytes,
             \A k \in DOMAIN groups :
               /\ groups'[k] \in Group /\ groups'[k].total = groups[k].total
               /\ groups'[k].slots = groups[k].slots /\ groups'[k].bytes = groups[k].bytes
      PROVE  StoreInv'
  <2>1. Sound(Store') /\ Within(Store')
    BY <1>0, <1>a, <1>5, SameCharges
  <2> QED BY <1>0, <1>5, <2>1 DEF StoreInv
<1>6. CASE RepairTickets
  <2> DEFINE due == {k \in DOMAIN groups : RepairDue(groups[k])}
  <2>1. /\ groups' = [k \in DOMAIN groups |->
                        IF k \in due THEN [groups[k] EXCEPT !.asked = 0] ELSE groups[k]]
        /\ UNCHANGED <<log, author_bytes, total_bytes>>
    BY <1>6 DEF RepairTickets
  <2> HIDE DEF due
  <2>2. ASSUME NEW k \in DOMAIN groups
        PROVE  /\ groups'[k] \in Group /\ groups'[k].total = groups[k].total
               /\ groups'[k].slots = groups[k].slots /\ groups'[k].bytes = groups[k].bytes
    <3>1. groups'[k] = IF k \in due THEN [groups[k] EXCEPT !.asked = 0] ELSE groups[k]
      BY <2>1
    <3> QED BY <1>b, <3>1, AskedGroup
  <2> QED BY <1>5, <2>1, <2>2
<1>7. CASE Tick
  <2>1. /\ groups' = [k \in DOMAIN groups |->
                        [groups[k] EXCEPT !.idle = Older(@, Stale), !.age = Older(@, Lifetime),
                                          !.asked = Older(@, RepairIdle)]]
        /\ UNCHANGED <<log, author_bytes, total_bytes>>
    BY <1>7 DEF Tick
  <2>2. ASSUME NEW k \in DOMAIN groups
        PROVE  /\ groups'[k] \in Group /\ groups'[k].total = groups[k].total
               /\ groups'[k].slots = groups[k].slots /\ groups'[k].bytes = groups[k].bytes
    <3> DEFINE g == groups[k]
               i == Older(g.idle, Stale)
               a == Older(g.age, Lifetime)
               q == Older(g.asked, RepairIdle)
    <3>1. g \in Group
      BY <1>b
    <3>2. i \in Nat /\ a \in Nat /\ q \in Nat
      BY <3>1, ReassemblyAssumption DEF Older, Group
    <3>3. groups'[k] = [g EXCEPT !.idle = i, !.age = a, !.asked = q]
      BY <2>1, <3>1 DEF Group
    <3> HIDE DEF g, i, a, q
    <3>4. /\ groups'[k] \in Group /\ groups'[k].total = g.total
          /\ groups'[k].slots = g.slots /\ groups'[k].bytes = g.bytes
      BY <3>1, <3>2, <3>3 DEF Group
    <3> QED BY <3>4 DEF g
  <2> QED BY <1>5, <2>1, <2>2
<1>8. CASE UNCHANGED vars
  BY <1>0, <1>8 DEF vars, store, StoreInv, Store
<1> QED BY <1>1, <1>2, <1>3, <1>4, <1>6, <1>7, <1>8 DEF Next

-----------------------------------------------------------------------------
(* Bodies *)

Groups == {f.group : f \in Frames}

\* The bodies that may surface: whole ones.
Bodies == {b \in [author : Authors, group : Groups, total : Nat, slots : SUBSET Frames] :
             Whole(b.slots, <<b.author, b.group>>, b.total)}

Distinct(s) == \A i, j \in 1..Len(s) : s[i] = s[j] => i = j

\* reassembled_groups has forgotten no group that may still come.
HasRoom ==
  \A f \in Frames : f.group \notin Range(reassembled) => Len(reassembled) < GroupsCap

BodyInv ==
  /\ reassembled \in Seq(Groups)
  /\ surfaced \in Seq(Bodies)

OnceInv ==
  /\ \A i, j \in 1..Len(surfaced) : surfaced[i].group = surfaced[j].group => i = j
  /\ \A i \in 1..Len(surfaced) : surfaced[i].group \in Range(reassembled)
  /\ WholeInLogIsReassembled

\* A new entry goes in at the end and pushes nothing out while there is room.
LEMMA RangeAppend ==
  ASSUME NEW S, NEW s \in Seq(S), NEW x \in S
  PROVE  /\ Append(s, x) \in Seq(S) /\ Len(Append(s, x)) = Len(s) + 1 /\ Len(s) \in Nat
         /\ Range(Append(s, x)) = Range(s) \cup {x}
         /\ \A i \in 1..Len(s) : Append(s, x)[i] = s[i]
         /\ Append(s, x)[Len(s) + 1] = x
<1> DEFINE t == Append(s, x)
<1>1. /\ t \in Seq(S) /\ Len(t) = Len(s) + 1 /\ Len(s) \in Nat
      /\ \A i \in 1..Len(s) : t[i] = s[i]
      /\ t[Len(s) + 1] = x
  BY AppendProperties, LenProperties
<1>2. DOMAIN t = 1..Len(t) /\ DOMAIN s = 1..Len(s)
  BY <1>1, LenProperties
<1> HIDE DEF t
<1>3. \A i \in 1..Len(t) : i \in 1..Len(s) \/ i = Len(s) + 1
  BY <1>1
<1>4. Range(t) = Range(s) \cup {x}
  BY <1>1, <1>2, <1>3 DEF Range
<1> QED BY <1>1, <1>4 DEF t

\* What remember leaves; below the cap nothing is forgotten.
LEMMA RememberType ==
  ASSUME NEW S, NEW s \in Seq(S), NEW x \in S, NEW cap \in Nat
  PROVE  Remember(s, x, cap) \in Seq(S) /\ (Len(s) < cap => Remember(s, x, cap) = Append(s, x))
<1> DEFINE t == Append(s, x)
<1>1. t \in Seq(S) /\ Len(t) = Len(s) + 1 /\ Len(s) \in Nat
  BY RangeAppend
<1>2. t # <<>>
  BY <1>1, EmptySeq
<1> HIDE DEF t
<1>3. Tail(t) \in Seq(S)
  BY <1>1, <1>2, HeadTailProperties
<1>4. Remember(s, x, cap) = IF Len(t) > cap THEN Tail(t) ELSE t
  BY DEF Remember, t
<1> QED BY <1>1, <1>3, <1>4 DEF t

\* A whole set of slots gives a body of its group.
LEMMA BodyIn ==
  ASSUME NEW f \in Frames, NEW slots, Whole(slots, Key(f), f.total)
  PROVE  Body(f, slots) \in Bodies /\ Body(f, slots).group = f.group
<1>1. f.total \in Nat /\ f.author \in Authors /\ f.group \in Groups /\ slots \in SUBSET Frames
  BY FrameFacts DEF Groups, Whole
<1> QED BY <1>1 DEF Body, Bodies, Key

\* What surfaced is whole, whatever was forgotten.
LEMMA InitBody == Init => BodyInv
BY DEF Init, BodyInv

\* Every step keeps bodies whole.
LEMMA NextBody == StoreInv /\ BodyInv /\ [Next]_vars => BodyInv'
<1> SUFFICES ASSUME StoreInv, BodyInv, [Next]_vars PROVE BodyInv'
  OBVIOUS
<1>1. ASSUME NEW f \in Frames, Receive(f) PROVE BodyInv'
  <2>1. log' \in SUBSET Frames /\ Reassemble(f, log') /\ Sound(Store) /\ Within(Store)
    BY <1>1 DEF Receive, StoreInv
  <2>2. \/ UNCHANGED <<reassembled, surfaced>>
        \/ /\ reassembled' = Remember(reassembled, f.group, GroupsCap)
           /\ \E slots : /\ Whole(slots, Key(f), f.total)
                         /\ surfaced' \in {surfaced, Append(surfaced, Body(f, slots))}
    BY <2>1, ReassembleStep
  <2>3. CASE UNCHANGED <<reassembled, surfaced>>
    BY <2>3 DEF BodyInv
  <2>4. ASSUME reassembled' = Remember(reassembled, f.group, GroupsCap),
               NEW slots, Whole(slots, Key(f), f.total),
               surfaced' \in {surfaced, Append(surfaced, Body(f, slots))}
        PROVE  BodyInv'
    <3>1. f.group \in Groups /\ GroupsCap \in Nat
      BY ReassemblyAssumption DEF Groups
    <3>2. reassembled' \in Seq(Groups)
      BY <2>4, <3>1, RememberType DEF BodyInv
    <3>3. Body(f, slots) \in Bodies
      BY <2>4, BodyIn
    <3>4. surfaced' \in Seq(Bodies)
      BY <2>4, <3>3, RangeAppend DEF BodyInv
    <3> QED BY <3>2, <3>4 DEF BodyInv
  <2> QED BY <2>2, <2>3, <2>4
<1>2. CASE UNCHANGED <<reassembled, surfaced>>
  BY <1>2 DEF BodyInv
<1> QED BY <1>1, <1>2 DEF Next, LogEvicts, SeenAges, Sweep, RepairTickets, Tick, vars

\* With room for every group, no group surfaces twice and none the log holds
\* whole waits.
LEMMA InitOnce == Init => OnceInv
<1> SUFFICES ASSUME Init PROVE OnceInv
  OBVIOUS
<1>1. surfaced = <<>> /\ log = {} /\ Len(surfaced) = 0
  BY EmptySeq DEF Init
<1> QED BY <1>1 DEF OnceInv, WholeInLogIsReassembled

\* Every step surfaces a body at most once.
LEMMA NextOnce == StoreInv /\ BodyInv /\ HasRoom /\ OnceInv /\ [Next]_vars => OnceInv'
<1> SUFFICES ASSUME StoreInv, BodyInv, HasRoom, OnceInv, [Next]_vars PROVE OnceInv'
  OBVIOUS
<1>1. ASSUME NEW f \in Frames, Receive(f) PROVE OnceInv'
  <2>0. /\ log' \in SUBSET Frames /\ Reassemble(f, log') /\ Sound(Store) /\ Within(Store)
        /\ log \subseteq Frames
    BY <1>1 DEF Receive, StoreInv
  <2>1. \/ /\ UNCHANGED <<reassembled, surfaced>>
           /\ f.group \in Range(reassembled) \/ ~LogHasWhole(log', f)
        \/ /\ f.group \notin Range(reassembled)
           /\ reassembled' = Remember(reassembled, f.group, GroupsCap)
           /\ \E slots : /\ Whole(slots, Key(f), f.total)
                         /\ surfaced' \in {surfaced, Append(surfaced, Body(f, slots))}
    BY <2>0, ReassembleStep
  <2>2. ASSUME Range(reassembled) \subseteq Range(reassembled'),
               f.group \in Range(reassembled') \/ ~LogHasWhole(log', f)
        PROVE  WholeInLogIsReassembled'
    <3> SUFFICES ASSUME NEW g \in log', LogHasWhole(log', g)
                 PROVE  g.group \in Range(reassembled')
      BY DEF WholeInLogIsReassembled, LogHasWhole
    <3>1. CASE LogHasWhole(log, g) /\ g \in log
      BY <2>2, <3>1 DEF OnceInv, WholeInLogIsReassembled, LogHasWhole
    <3>2. CASE Key(g) = Key(f) /\ g.total = f.total
      <4>1. LogHasWhole(log', f) /\ g.group = f.group
        BY <3>2 DEF LogHasWhole, FitsLog, Key
      <4> QED BY <2>2, <4>1
    <3>3. CASE ~(Key(g) = Key(f) /\ g.total = f.total)
      <4>1. log' \subseteq log \cup {f}
        BY <1>1 DEF Receive
      <4>2. g \in log /\ \A h \in log' : h = f \/ h \in log
        BY <3>3, <4>1
      <4>3. InLog(log', Key(g), g.total) \subseteq InLog(log, Key(g), g.total)
        BY <3>3, <4>2 DEF InLog
      <4>4. HasAll(log, Key(g), g.total)
        BY <4>3 DEF HasAll, LogHasWhole
      <4> QED BY <3>1, <4>2, <4>4 DEF LogHasWhole
    <3> QED BY <3>2, <3>3
  <2>3. CASE /\ UNCHANGED <<reassembled, surfaced>>
             /\ f.group \in Range(reassembled) \/ ~LogHasWhole(log', f)
    <3>1. WholeInLogIsReassembled'
      BY <2>2, <2>3
    <3> QED BY <2>3, <3>1 DEF OnceInv
  <2>4. ASSUME f.group \notin Range(reassembled),
               reassembled' = Remember(reassembled, f.group, GroupsCap),
               NEW slots, Whole(slots, Key(f), f.total),
               surfaced' \in {surfaced, Append(surfaced, Body(f, slots))}
        PROVE  OnceInv'
    <3>1. reassembled \in Seq(Groups) /\ f.group \in Groups /\ GroupsCap \in Nat
      BY ReassemblyAssumption DEF Groups, BodyInv
    <3>2. reassembled' = Append(reassembled, f.group)
      BY <2>4, <3>1, RememberType DEF HasRoom
    <3>3. Range(reassembled') = Range(reassembled) \cup {f.group}
      BY <3>1, <3>2, RangeAppend
    <3>4. WholeInLogIsReassembled'
      BY <2>2, <3>3
    <3>5. /\ \A i, j \in 1..Len(surfaced) : surfaced[i].group = surfaced[j].group => i = j
          /\ \A i \in 1..Len(surfaced) : surfaced[i].group \in Range(reassembled)
      BY DEF OnceInv
    <3>6. CASE surfaced' = surfaced
      BY <3>3, <3>4, <3>5, <3>6 DEF OnceInv
    <3>7. CASE surfaced' = Append(surfaced, Body(f, slots))
      <4>1. Body(f, slots) \in Bodies /\ Body(f, slots).group = f.group /\ surfaced \in Seq(Bodies)
        BY <2>4, BodyIn DEF BodyInv
      <4>2. /\ Len(surfaced') = Len(surfaced) + 1 /\ Len(surfaced) \in Nat
            /\ \A i \in 1..Len(surfaced) : surfaced'[i] = surfaced[i]
            /\ surfaced'[Len(surfaced) + 1] = Body(f, slots)
        BY <3>7, <4>1, RangeAppend
      <4>3. \A i \in 1..Len(surfaced') : i \in 1..Len(surfaced) \/ i = Len(surfaced) + 1
        BY <4>2
      <4>4. \A i \in 1..Len(surfaced) : surfaced[i].group # f.group
        BY <2>4, <3>5
      <4>5. \A i, j \in 1..Len(surfaced') : surfaced'[i].group = surfaced'[j].group => i = j
        BY <3>5, <4>1, <4>2, <4>3, <4>4
      <4>6. \A i \in 1..Len(surfaced') : surfaced'[i].group \in Range(reassembled')
        BY <3>3, <3>5, <4>1, <4>2, <4>3
      <4> QED BY <3>4, <4>5, <4>6 DEF OnceInv
    <3> QED BY <2>4, <3>6, <3>7
  <2> QED BY <2>1, <2>3, <2>4
<1>2. ASSUME NEW f \in Frames, LogEvicts(f) PROVE OnceInv'
  <2>1. log' \subseteq log /\ UNCHANGED <<reassembled, surfaced>>
    BY <1>2 DEF LogEvicts
  <2>2. ASSUME NEW g \in log', HasAll(log', Key(g), g.total) PROVE HasAll(log, Key(g), g.total)
    <3>1. InLog(log', Key(g), g.total) \subseteq InLog(log, Key(g), g.total)
      BY <2>1 DEF InLog
    <3> QED BY <2>2, <3>1 DEF HasAll
  <2>3. WholeInLogIsReassembled'
    <3> SUFFICES ASSUME NEW g \in log', FitsLog(g), HasAll(log', Key(g), g.total),
                        Key(g) \notin Malformed
                 PROVE  g.group \in Range(reassembled')
      BY DEF WholeInLogIsReassembled
    <3>1. g.group \in Range(reassembled)
      BY <2>1, <2>2 DEF OnceInv, WholeInLogIsReassembled
    <3> QED BY <2>1, <3>1
  <2> QED BY <2>1, <2>3 DEF OnceInv
<1>3. CASE UNCHANGED <<log, reassembled, surfaced>>
  BY <1>3 DEF OnceInv, WholeInLogIsReassembled
<1> QED BY <1>1, <1>2, <1>3 DEF Next, SeenAges, Sweep, RepairTickets, Tick, vars

-----------------------------------------------------------------------------
(* The theorems *)

\* Every byte charged to a group, to an author and to the whole store is the
\* byte of a shard buffered now, and no budget is ever exceeded, whatever
\* shards come and on whatever path a group leaves (admit, evict, sweep_stale,
\* forget).
THEOREM ChargesAreExact == Spec => []ChargedIsBuffered
<1>1. StoreInv => ChargedIsBuffered
  <2> SUFFICES ASSUME StoreInv PROVE ChargedIsBuffered
    OBVIOUS
  <2>1. Sound(Store) /\ Within(Store)
    BY DEF StoreInv
  <2>2. /\ Store.groups = groups /\ Store.author_bytes = author_bytes
        /\ Store.total_bytes = total_bytes
    BY DEF Store
  <2>3. ASSUME NEW k \in DOMAIN groups
        PROVE  /\ groups[k].bytes = SumOf([f \in groups[k].slots |-> f.size])
               /\ groups[k].bytes <= GroupMax
    <3>1. Partial(groups[k], k)
      BY <2>1, <2>2 DEF Sound
    <3> QED BY <3>1 DEF Partial, Sizes
  <2>4. ASSUME NEW a \in Authors
        PROVE  /\ author_bytes[a] = Bytes(groups, {k \in DOMAIN groups : k[1] = a})
               /\ author_bytes[a] <= AuthorBudget
    BY <2>1, <2>2 DEF Sound, Within, OfAuthor
  <2>5. total_bytes = Bytes(groups, DOMAIN groups) /\ total_bytes <= TotalBudget
    BY <2>1, <2>2 DEF Sound, Within
  <2> QED BY <2>3, <2>4, <2>5 DEF ChargedIsBuffered
<1> QED BY <1>1, InitStore, NextStore, PTL DEF Spec

\* While reassembled_groups has room for every group still to come, a group id
\* surfaces once and as one whole body of one author.  That the bodies are
\* whole needs no premise (BodyInv); that none comes twice does: a group the
\* bounded set let go surfaces again when its shards are heard again.
THEOREM BodiesSurfaceOnce == Spec /\ []HasRoom => []SurfacedOnce
<1>1. BodyInv /\ OnceInv => SurfacedOnce
  <2> SUFFICES ASSUME BodyInv, OnceInv PROVE SurfacedOnce
    OBVIOUS
  <2>1. \A i \in 1..Len(surfaced) : surfaced[i] \in Bodies
    BY ElementOfSeq DEF BodyInv
  <2>2. \A b \in Bodies :
          /\ \A f \in b.slots : Key(f) = <<b.author, b.group>> /\ f.total = b.total
          /\ {f.idx : f \in b.slots} = 0..(b.total - 1)
          /\ Cardinality(b.slots) = b.total
    BY DEF Bodies, Whole
  <2> QED BY <2>1, <2>2 DEF OnceInv, SurfacedOnce
<1> QED BY <1>1, InitStore, InitBody, InitOnce, NextStore, NextBody, NextOnce, PTL DEF Spec

\* Under the same premise a small group the log holds whole has been
\* reassembled, whatever the store evicted, reaped or refused meanwhile
\* (reassemble_from_log).
THEOREM LogCompletes == Spec /\ []HasRoom => []WholeInLogIsReassembled
<1>1. OnceInv => WholeInLogIsReassembled
  BY DEF OnceInv
<1> QED BY <1>1, InitStore, InitBody, InitOnce, NextStore, NextBody, NextOnce, PTL DEF Spec

\* The premise holds for as long as no more group ids exist than
\* reassembled_groups holds (MESSAGE_LOG_SIZE).
THEOREM RoomForAll ==
  ASSUME IsFiniteSet(Groups), Cardinality(Groups) <= GroupsCap
  PROVE  Spec => []HasRoom
<1>1. ASSUME NEW s \in Seq(Groups), Distinct(s), NEW x \in Groups, x \notin Range(s)
      PROVE  Len(s) < GroupsCap
  <2>1. Len(s) \in Nat /\ DOMAIN s = 1..Len(s) /\ (\A i \in 1..Len(s) : s[i] \in Groups)
    BY LenProperties, ElementOfSeq
  <2> DEFINE T == {s[i] : i \in 1..Len(s)}
  <2>2. T = Range(s)
    BY <2>1 DEF Range
  <2>3. IsFiniteSet(1..Len(s)) /\ Cardinality(1..Len(s)) = Len(s)
    <3>1. \A n \in Nat : IsFiniteSet(1..n) /\ Cardinality(1..n) = n
      BY FS_Interval
    <3> QED BY <2>1, <3>1
  <2>4. Cardinality(T) = Len(s)
    BY <1>1, <2>3, SameSize DEF Distinct
  <2>5. T \subseteq Groups /\ T # Groups
    BY <1>1, <2>1, <2>2
  <2> HIDE DEF T
  <2>6. Cardinality(T) <= Cardinality(Groups) /\ Cardinality(T) # Cardinality(Groups)
    BY <2>5, FS_Subset
  <2>7. Cardinality(Groups) \in Nat /\ GroupsCap \in Nat
    BY FS_CardinalityType, ReassemblyAssumption
  <2> QED BY <2>1, <2>4, <2>6, <2>7
<1>2. BodyInv /\ Distinct(reassembled) => HasRoom
  BY <1>1 DEF BodyInv, HasRoom, Groups
<1>3. Init => Distinct(reassembled)
  BY EmptySeq DEF Init, Distinct
<1>4. StoreInv /\ BodyInv /\ Distinct(reassembled) /\ [Next]_vars => Distinct(reassembled)'
  <2> SUFFICES ASSUME StoreInv, BodyInv, Distinct(reassembled), [Next]_vars
               PROVE  Distinct(reassembled')
    BY DEF Distinct
  <2>1. ASSUME NEW f \in Frames, Receive(f) PROVE Distinct(reassembled')
    <3>1. log' \in SUBSET Frames /\ Reassemble(f, log') /\ Sound(Store) /\ Within(Store)
      BY <2>1 DEF Receive, StoreInv
    <3>2. \/ reassembled' = reassembled
          \/ /\ f.group \notin Range(reassembled)
             /\ reassembled' = Remember(reassembled, f.group, GroupsCap)
      BY <3>1, ReassembleStep
    <3>3. CASE /\ f.group \notin Range(reassembled)
               /\ reassembled' = Remember(reassembled, f.group, GroupsCap)
      <4>1. reassembled \in Seq(Groups) /\ f.group \in Groups /\ GroupsCap \in Nat
        BY ReassemblyAssumption DEF Groups, BodyInv
      <4>2. Len(reassembled) < GroupsCap
        BY <1>1, <3>3, <4>1
      <4>3. reassembled' = Append(reassembled, f.group)
        BY <3>3, <4>1, <4>2, RememberType
      <4>4. /\ Len(reassembled') = Len(reassembled) + 1 /\ Len(reassembled) \in Nat
            /\ \A i \in 1..Len(reassembled) : reassembled'[i] = reassembled[i]
            /\ reassembled'[Len(reassembled) + 1] = f.group
        BY <4>1, <4>3, RangeAppend
      <4>5. \A i \in 1..Len(reassembled') : i \in 1..Len(reassembled) \/ i = Len(reassembled) + 1
        BY <4>4
      <4>6. \A i \in 1..Len(reassembled) : reassembled[i] # f.group
        <5>1. DOMAIN reassembled = 1..Len(reassembled)
          BY <4>1, LenProperties
        <5> QED BY <3>3, <5>1 DEF Range
      <4> QED BY <4>4, <4>5, <4>6 DEF Distinct
    <3> QED BY <3>2, <3>3
  <2>2. CASE UNCHANGED reassembled
    BY <2>2
  <2> QED BY <2>1, <2>2 DEF Next, LogEvicts, SeenAges, Sweep, RepairTickets, Tick, vars
<1> QED BY <1>2, <1>3, <1>4, InitStore, InitBody, NextStore, NextBody, PTL DEF Spec
=============================================================================
