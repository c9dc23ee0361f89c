------------------------- MODULE NamesAndTextProofs -------------------------
(***************************************************************************)
(* Two algorithms of huly-client, for inputs of every size.  First, names  *)
(* of card types and relations: any number of documents, any attributes,   *)
(* any order of the answers, any number of calls that refresh at once and  *)
(* of events on their way.  Then Markdown to ProseMirror and back, of      *)
(* documents of any length, nested as deep as MaxDepth says.               *)
(***************************************************************************)
EXTENDS SchemaResolver, Markdown, FiniteSetTheorems, SequenceTheorems, WellFoundedInduction,
        TLAPS

(* A set of numbers has a least element. *)
LEMMA LeastNumber ==
    ASSUME NEW S, S \subseteq Nat, S # {}
    PROVE  \E i \in S : \A j \in S : i <= j
PROOF
  <1>1. PICK i \in S : \A j \in S : <<j, i>> \notin OpToRel(<, Nat)
    BY NatLessThanWellFounded, WFMin
  <1>2. \A j \in S : ~(j < i)
    BY <1>1 DEF OpToRel
  <1> QED BY <1>2

(* Induction up to n, for the set of the numbers of which something holds. *)
LEMMA UpTo ==
    ASSUME NEW n \in Nat, NEW S, 0 \in S, \A k \in 0 .. n : k \in S /\ k < n => k + 1 \in S
    PROVE  0 .. n \subseteq S
PROOF
  <1> DEFINE Missing == {k \in 0 .. n : k \notin S}
  <1>1. ASSUME Missing # {} PROVE FALSE
    <2>0. Missing \subseteq Nat
      OBVIOUS
    <2>1. PICK k \in Missing : \A j \in Missing : k <= j
      <3> HIDE DEF Missing
      <3> QED BY <1>1, <2>0, LeastNumber
    <2>2. k # 0 /\ k - 1 \in 0 .. n /\ k - 1 < n /\ (k - 1) + 1 = k
      BY <2>1
    <2>3. k - 1 \in S
      BY <2>1, <2>2
    <2> QED BY <2>1, <2>2, <2>3
  <1> QED BY <1>1

-----------------------------------------------------------------------------
(* The name of a document. *)

Least(S) == CHOOSE i \in S : \A j \in S : i <= j

(* The keys from the k-th on that hold a non-empty string. *)
Usable(attributes, keys, k) ==
    {i \in k .. Len(keys) : StrField(attributes, keys[i], <<>>) # <<>>}

(* What the loop of pick_name makes of the keys from the k-th on. *)
Picked(attributes, keys, id, k) ==
    IF Usable(attributes, keys, k) = {} THEN id
    ELSE StrField(attributes, keys[Least(Usable(attributes, keys, k))], <<>>)

(* One turn of that loop. *)
LEMMA PickedTurn ==
    ASSUME NEW attributes, NEW keys, NEW id, Len(keys) \in Nat, NEW k \in 1 .. Len(keys) + 1
    PROVE  Picked(attributes, keys, id, k) =
               IF k > Len(keys) THEN id
               ELSE IF StrField(attributes, keys[k], <<>>) # <<>>
                    THEN StrField(attributes, keys[k], <<>>)
               ELSE Picked(attributes, keys, id, k + 1)
PROOF
  <1> DEFINE U(j) == Usable(attributes, keys, j)
  <1>1. CASE k > Len(keys)
    <2>1. U(k) = {}
      BY <1>1 DEF Usable
    <2> QED BY <1>1, <2>1 DEF Picked
  <1>2. CASE k <= Len(keys) /\ StrField(attributes, keys[k], <<>>) # <<>>
    <2>1. k \in U(k) /\ \A j \in U(k) : k <= j
      BY <1>2 DEF Usable
    <2>2. \A i \in U(k) : (\A j \in U(k) : i <= j) => i = k
      BY <1>2, <2>1 DEF Usable
    <2>3. Least(U(k)) = k
      BY <2>1, <2>2 DEF Least
    <2> QED BY <1>2, <2>1, <2>3 DEF Picked
  <1>3. CASE k <= Len(keys) /\ StrField(attributes, keys[k], <<>>) = <<>>
    <2>1. U(k) = U(k + 1)
      BY <1>3 DEF Usable
    <2> QED BY <1>3, <2>1 DEF Picked
  <1> QED BY <1>1, <1>2, <1>3

(* The first key with a non-empty string names a document, as pick_name finds it. *)
LEMMA PickIsFirst ==
    ASSUME NEW attributes, NEW keys, NEW id, Len(keys) \in Nat, DOMAIN keys = 1 .. Len(keys)
    PROVE  PickName(attributes, keys, id) =
               IF FirstName(attributes, keys) = <<>> THEN id ELSE FirstName(attributes, keys)
PROOF
  <1> DEFINE m == Len(keys)
             Val(k) == StrField(attributes, keys[k], <<>>)
             P(f) == f = [k \in 1 .. Len(keys) + 1 |->
                            IF k > Len(keys) THEN id
                            ELSE IF StrField(attributes, keys[k], <<>>) # <<>>
                                 THEN StrField(attributes, keys[k], <<>>)
                            ELSE f[k + 1]]
             W == [k \in 1 .. Len(keys) + 1 |-> Picked(attributes, keys, id, k)]
             pick == CHOOSE f : P(f)
  <1>1. P(W)
    <2>1. ASSUME NEW k \in 1 .. Len(keys) + 1
          PROVE  Picked(attributes, keys, id, k) =
                    IF k > Len(keys) THEN id
                    ELSE IF StrField(attributes, keys[k], <<>>) # <<>>
                         THEN StrField(attributes, keys[k], <<>>)
                    ELSE W[k + 1]
      <3>1. CASE k > Len(keys)
        BY <3>1, PickedTurn
      <3>2. CASE ~(k > Len(keys))
        <4>1. k + 1 \in 1 .. Len(keys) + 1
          BY <3>2
        <4>2. W[k + 1] = Picked(attributes, keys, id, k + 1)
          BY <4>1
        <4> HIDE DEF W
        <4> QED BY <3>2, <4>2, PickedTurn
      <3> QED BY <3>1, <3>2
    <2> QED BY <2>1
  <1>2. P(pick)
    <2> HIDE DEF P
    <2> QED BY <1>1
  <1>3. PickName(attributes, keys, id) = pick[1]
    BY DEF PickName
  <1>4. ASSUME NEW f, P(f) PROVE f[1] = Picked(attributes, keys, id, 1)
    <2> DEFINE S == {d \in 0 .. m : f[m + 1 - d] = Picked(attributes, keys, id, m + 1 - d)}
    <2>1. \A k \in 1 .. m + 1 : f[k] = IF k > m THEN id ELSE IF Val(k) # <<>> THEN Val(k) ELSE f[k + 1]
      BY <1>4
    <2>2. 0 \in S
      <3>1. m + 1 \in 1 .. m + 1 /\ m + 1 > m /\ m + 1 - 0 = m + 1
        OBVIOUS
      <3>2. f[m + 1] = id /\ Picked(attributes, keys, id, m + 1) = id
        BY <2>1, <3>1, PickedTurn
      <3> QED BY <3>1, <3>2
    <2>3. ASSUME NEW d \in 0 .. m, d \in S, d < m PROVE d + 1 \in S
      <3> DEFINE k == m + 1 - (d + 1)
      <3>1. k \in 1 .. m + 1 /\ ~(k > m) /\ k + 1 = m + 1 - d /\ d + 1 \in 0 .. m
        BY <2>3
      <3>2. f[k + 1] = Picked(attributes, keys, id, k + 1)
        BY <2>3, <3>1
      <3>3. f[k] = Picked(attributes, keys, id, k)
        <4> HIDE DEF k, P, S
        <4> QED BY <2>1, <3>1, <3>2, PickedTurn
      <3> QED BY <3>1, <3>3
    <2>4. m \in S
      <3>1. \A d \in 0 .. m : d \in S /\ d < m => d + 1 \in S
        BY <2>3
      <3>2. 0 .. m \subseteq S
        <4> HIDE DEF S
        <4> QED BY <2>2, <3>1, UpTo
      <3> QED BY <3>2
    <2> QED BY <2>4
  <1>5. pick[1] = Picked(attributes, keys, id, 1)
    <2> HIDE DEF P, pick
    <2> QED BY <1>2, <1>4
  <1>6. Picked(attributes, keys, id, 1) =
            IF FirstName(attributes, keys) = <<>> THEN id ELSE FirstName(attributes, keys)
    <2> DEFINE U == Usable(attributes, keys, 1)
             usable == {i \in DOMAIN keys : Has(attributes, keys[i]) /\ IsStr(attributes.obj[keys[i]])
                                            /\ attributes.obj[keys[i]].str # <<>>}
    <2>1. ASSUME NEW i \in 1 .. m
          PROVE  /\ Val(i) # <<>> <=> /\ Has(attributes, keys[i])
                                     /\ IsStr(attributes.obj[keys[i]])
                                     /\ attributes.obj[keys[i]].str # <<>>
                 /\ Val(i) # <<>> => Val(i) = attributes.obj[keys[i]].str
      BY DEF StrField, Field, IsStr, Null
    <2>2. U = usable
      <3>1. ASSUME NEW i \in 1 .. m PROVE i \in U <=> i \in usable
        <4>1. i \in U <=> Val(i) # <<>>
          BY DEF Usable
        <4> QED BY <2>1, <4>1
      <3>2. U \subseteq 1 .. m /\ usable \subseteq 1 .. m
        BY DEF Usable
      <3> HIDE DEF U, usable
      <3> QED BY <3>1, <3>2
    <2>3. CASE U = {}
      BY <2>2, <2>3 DEF Picked, FirstName
    <2>4. CASE U # {}
      <3> DEFINE l == Least(U)
      <3>1. l \in U
        <4>1. U \subseteq Nat
          BY DEF Usable
        <4> HIDE DEF U
        <4>2. \E i \in U : \A j \in U : i <= j
          BY <2>4, <4>1, LeastNumber
        <4> QED BY <4>2 DEF Least
      <3>2. l \in 1 .. m /\ Val(l) # <<>>
        BY <3>1 DEF Usable
      <3>3. Val(l) = attributes.obj[keys[l]].str
        <4> HIDE DEF l
        <4> QED BY <2>1, <3>2
      <3>4. FirstName(attributes, keys) = Val(l)
        <4>1. FirstName(attributes, keys) = attributes.obj[keys[l]].str
          BY <2>2, <2>4 DEF FirstName, Least
        <4> QED BY <3>3, <4>1
      <3>5. Picked(attributes, keys, id, 1) = Val(l)
        BY <2>4 DEF Picked
      <3> QED BY <3>2, <3>4, <3>5
    <2> QED BY <2>3, <2>4
  <1> QED BY <1>3, <1>5, <1>6

-----------------------------------------------------------------------------
(* The map of names. *)

IdsNamed(docs, keys, n, name) == {docs[i].id : i \in {j \in 1 .. n : NameOf(docs[j], keys) = name}}

(* The map after n documents: the names there are, each with the ids of its documents, none *)
(* of them twice.                                                                            *)
ListsAll(acc, docs, keys, n) ==
    /\ DOMAIN acc = {NameOf(docs[i], keys) : i \in 1 .. n} \ {<<>>}
    /\ \A name \in DOMAIN acc :
         /\ acc[name] \in Seq({docs[i].id : i \in 1 .. Len(docs)})
         /\ Len(acc[name]) > 0
         /\ \A j, k \in 1 .. Len(acc[name]) : j # k => acc[name][j] # acc[name][k]
         /\ Range(acc[name]) = IdsNamed(docs, keys, n, name)

(* One turn of the loop of build_map. *)
EntryTurn(acc, docs, keys, n) ==
    IF NameOf(docs[n], keys) = <<>> THEN acc
    ELSE Entered(acc, NameOf(docs[n], keys), docs[n].id)

(* A sequence with one more element. *)
LEMMA AppendNew ==
    ASSUME NEW T, NEW q \in Seq(T), NEW x \in T, x \notin Range(q),
           \A j, k \in 1 .. Len(q) : j # k => q[j] # q[k]
    PROVE  /\ Append(q, x) \in Seq(T)
           /\ Len(Append(q, x)) > 0
           /\ \A j, k \in 1 .. Len(Append(q, x)) : j # k => Append(q, x)[j] # Append(q, x)[k]
           /\ Range(Append(q, x)) = Range(q) \cup {x}
PROOF
  <1> DEFINE r == Append(q, x)
  <1>1. /\ Len(q) \in Nat /\ DOMAIN q = 1 .. Len(q)
        /\ r \in Seq(T) /\ Len(r) = Len(q) + 1 /\ DOMAIN r = 1 .. Len(q) + 1
        /\ r[Len(q) + 1] = x
    OBVIOUS
  <1>2. \A k \in 1 .. Len(q) : r[k] = q[k]
    OBVIOUS
  <1> HIDE DEF r
  <1>3. \A k \in 1 .. Len(q) : q[k] # x
    BY <1>1 DEF Range
  <1>4. ASSUME NEW j \in 1 .. Len(r), NEW k \in 1 .. Len(r), j # k PROVE r[j] # r[k]
    <2>1. CASE j \in 1 .. Len(q) /\ k \in 1 .. Len(q)
      BY <1>2, <1>4, <2>1
    <2>2. CASE j \in 1 .. Len(q) /\ k = Len(q) + 1
      BY <1>1, <1>2, <1>3, <2>2
    <2>3. CASE j = Len(q) + 1 /\ k \in 1 .. Len(q)
      BY <1>1, <1>2, <1>3, <2>3
    <2> QED BY <1>1, <1>4, <2>1, <2>2, <2>3
  <1>5. Range(r) = Range(q) \cup {x}
    <2>1. \A k \in 1 .. Len(q) + 1 : k \in 1 .. Len(q) \/ k = Len(q) + 1
      BY <1>1
    <2>2. Len(q) + 1 \in 1 .. Len(q) + 1 /\ 1 .. Len(q) \subseteq 1 .. Len(q) + 1
      BY <1>1
    <2> QED BY <1>1, <1>2, <2>1, <2>2 DEF Range
  <1>6. Len(r) > 0
    BY <1>1
  <1> QED BY <1>1, <1>4, <1>5, <1>6 DEF r

(* Each document adds itself to the list of its name, unless it has none. *)
LEMMA TurnLists ==
    ASSUME NEW acc, NEW docs, NEW keys, NEW n \in 1 .. Len(docs), Len(docs) \in Nat,
           \A i, j \in 1 .. Len(docs) : i # j => docs[i].id # docs[j].id,
           ListsAll(acc, docs, keys, n - 1)
    PROVE  ListsAll(EntryTurn(acc, docs, keys, n), docs, keys, n)
PROOF
  <1> DEFINE name == NameOf(docs[n], keys)
             id   == docs[n].id
             T    == {docs[i].id : i \in 1 .. Len(docs)}
             new  == EntryTurn(acc, docs, keys, n)
  <1>1. \A i : i \in 1 .. n <=> i \in 1 .. n - 1 \/ i = n
    OBVIOUS
  <1>2. {NameOf(docs[i], keys) : i \in 1 .. n} = {NameOf(docs[i], keys) : i \in 1 .. n - 1} \cup {name}
    BY <1>1
  <1>3. ASSUME NEW m, m # name PROVE IdsNamed(docs, keys, n, m) = IdsNamed(docs, keys, n - 1, m)
    BY <1>1, <1>3 DEF IdsNamed
  <1>4. IdsNamed(docs, keys, n, name) = IdsNamed(docs, keys, n - 1, name) \cup {id}
    BY <1>1 DEF IdsNamed
  <1>5. id \in T /\ id \notin IdsNamed(docs, keys, n - 1, name)
    <2>1. \A i \in 1 .. n - 1 : i # n /\ i \in 1 .. Len(docs)
      OBVIOUS
    <2> QED BY <2>1 DEF IdsNamed
  <1>6. CASE name = <<>>
    <2>1. new = acc
      BY <1>6 DEF EntryTurn
    <2>2. DOMAIN acc = {NameOf(docs[i], keys) : i \in 1 .. n} \ {<<>>}
      BY <1>2, <1>6 DEF ListsAll
    <2>3. \A m \in DOMAIN acc : IdsNamed(docs, keys, n, m) = IdsNamed(docs, keys, n - 1, m)
      BY <1>3, <1>6, <2>2
    <2>4. ListsAll(acc, docs, keys, n)
      <3> HIDE DEF name, new, id, T
      <3> QED BY <2>2, <2>3 DEF ListsAll
    <2> QED BY <2>1, <2>4
  <1>7. CASE name # <<>>
    <2>1. new = [m \in DOMAIN acc \cup {name} |->
                    IF m # name THEN acc[m]
                    ELSE IF m \in DOMAIN acc THEN Append(acc[m], id) ELSE <<id>>]
      BY <1>7 DEF EntryTurn, Entered
    <2>2. DOMAIN new = {NameOf(docs[i], keys) : i \in 1 .. n} \ {<<>>}
      <3>1. DOMAIN new = DOMAIN acc \cup {name}
        BY <2>1
      <3> HIDE DEF name, new
      <3> QED BY <1>2, <1>7, <3>1 DEF ListsAll
    <2>3. ASSUME NEW m \in DOMAIN new
          PROVE  /\ new[m] \in Seq(T)
                 /\ Len(new[m]) > 0
                 /\ \A j, k \in 1 .. Len(new[m]) : j # k => new[m][j] # new[m][k]
                 /\ Range(new[m]) = IdsNamed(docs, keys, n, m)
      <3>1. CASE m # name
        <4>1. m \in DOMAIN acc /\ new[m] = acc[m]
          BY <2>1, <2>3, <3>1
        <4>2. IdsNamed(docs, keys, n, m) = IdsNamed(docs, keys, n - 1, m)
          BY <1>3, <3>1
        <4> HIDE DEF name, new
        <4> QED BY <4>1, <4>2 DEF ListsAll
      <3>2. CASE m = name /\ name \in DOMAIN acc
        <4>1. new[m] = Append(acc[name], id)
          BY <2>1, <3>2
        <4>2. /\ acc[name] \in Seq(T) /\ Range(acc[name]) = IdsNamed(docs, keys, n - 1, name)
              /\ \A j, k \in 1 .. Len(acc[name]) : j # k => acc[name][j] # acc[name][k]
          BY <3>2 DEF ListsAll
        <4>3. id \notin Range(acc[name])
          BY <1>5, <4>2
        <4>4. id \in T
          BY <1>5
        <4> DEFINE q == acc[name]
        <4>5. /\ Append(q, id) \in Seq(T)
              /\ Len(Append(q, id)) > 0
              /\ \A j, k \in 1 .. Len(Append(q, id)) : j # k => Append(q, id)[j] # Append(q, id)[k]
              /\ Range(Append(q, id)) = Range(q) \cup {id}
          <5> HIDE DEF q, id, T
          <5> QED BY <4>2, <4>3, <4>4, AppendNew DEF q
        <4> HIDE DEF name, new, id, T
        <4> QED BY <1>4, <3>2, <4>1, <4>2, <4>5
      <3>3. CASE m = name /\ name \notin DOMAIN acc
        <4>1. new[m] = <<id>>
          BY <2>1, <3>3
        <4>2. IdsNamed(docs, keys, n - 1, name) = {}
          <5>1. \A i \in 1 .. n - 1 : NameOf(docs[i], keys) # name
            BY <1>7, <3>3 DEF ListsAll
          <5> QED BY <5>1 DEF IdsNamed
        <4>3. /\ <<id>> \in Seq(T) /\ Len(<<id>>) = 1 /\ Range(<<id>>) = {id}
          BY <1>5 DEF Range
        <4>4. IdsNamed(docs, keys, n, m) = {id}
          BY <1>4, <3>3, <4>2
        <4> HIDE DEF id, T, new
        <4> QED BY <4>1, <4>3, <4>4
      <3> QED BY <3>1, <3>2, <3>3
    <2>4. ListsAll(new, docs, keys, n)
      <3> HIDE DEF new
      <3> QED BY <2>2, <2>3 DEF ListsAll
    <2> QED BY <2>4
  <1> QED BY <1>6, <1>7

(* What build_map collects of all documents. *)
LEMMA CollectedLists ==
    ASSUME NEW docs, NEW keys, Len(docs) \in Nat,
           \A i, j \in 1 .. Len(docs) : i # j => docs[i].id # docs[j].id
    PROVE  ListsAll(Collected(docs, keys), docs, keys, Len(docs))
PROOF
  <1> DEFINE N == Len(docs)
             P(f) == f = [n \in 0 .. Len(docs) |->
                            IF n = 0 THEN <<>>
                            ELSE IF NameOf(docs[n], keys) = <<>> THEN f[n - 1]
                            ELSE Entered(f[n - 1], NameOf(docs[n], keys), docs[n].id)]
             Q(f, m) == f = [n \in 0 .. m |-> IF n = 0 THEN <<>> ELSE EntryTurn(f[n - 1], docs, keys, n)]
             S == {m \in 0 .. N : \E f : Q(f, m)}
             acc == CHOOSE f : P(f)
  <1>1. 0 \in S
    <2> DEFINE g == [n \in 0 .. 0 |-> <<>>]
    <2>1. \A n \in 0 .. 0 : n = 0
      OBVIOUS
    <2>2. \A n \in 0 .. 0 : g[n] = IF n = 0 THEN <<>> ELSE EntryTurn(g[n - 1], docs, keys, n)
      <3> HIDE DEF g
      <3>1. \A n \in 0 .. 0 : g[n] = <<>>
        BY DEF g
      <3> QED BY <2>1, <3>1
    <2>3. Q(g, 0)
      BY <2>2
    <2> HIDE DEF Q, g
    <2> QED BY <2>3
  <1>2. ASSUME NEW m \in 0 .. N, m \in S, m < N PROVE m + 1 \in S
    <2>1. PICK f : Q(f, m)
      BY <1>2
    <2> DEFINE g == [n \in 0 .. m + 1 |-> IF n = m + 1 THEN EntryTurn(f[m], docs, keys, m + 1) ELSE f[n]]
    <2>2. ASSUME NEW n \in 0 .. m + 1
          PROVE  g[n] = IF n = 0 THEN <<>> ELSE EntryTurn(g[n - 1], docs, keys, n)
      <3>1. CASE n = 0
        BY <2>1, <3>1
      <3>2. CASE n # 0 /\ n = m + 1
        BY <3>2
      <3>3. CASE n # 0 /\ n # m + 1
        <4>1. n \in 0 .. m /\ n - 1 \in 0 .. m + 1 /\ n - 1 # m + 1
          BY <3>3
        <4>2. g[n] = f[n] /\ g[n - 1] = f[n - 1]
          BY <3>3, <4>1
        <4>3. f[n] = EntryTurn(f[n - 1], docs, keys, n)
          BY <2>1, <3>3, <4>1
        <4> HIDE DEF g
        <4> QED BY <3>3, <4>2, <4>3
      <3> QED BY <3>1, <3>2, <3>3
    <2>3. Q(g, m + 1)
      BY <2>2
    <2> HIDE DEF Q, g
    <2> QED BY <1>2, <2>3
  <1>3. N \in S
    <2>1. \A m \in 0 .. N : m \in S /\ m < N => m + 1 \in S
      BY <1>2
    <2>2. 0 .. N \subseteq S
      <3> HIDE DEF S
      <3> QED BY <1>1, <2>1, UpTo
    <2> QED BY <2>2
  <1>4. P(acc)
    <2>1. PICK f : Q(f, N)
      BY <1>3
    <2>2. P(f)
      BY <2>1 DEF EntryTurn
    <2> HIDE DEF P
    <2> QED BY <2>2
  <1>5. Collected(docs, keys) = acc[N]
    BY DEF Collected
  <1>6. ASSUME NEW f, P(f) PROVE ListsAll(f[N], docs, keys, N)
    <2> DEFINE R == {m \in 0 .. N : ListsAll(f[m], docs, keys, m)}
    <2>1. 0 \in R
      <3>1. f[0] = <<>>
        BY <1>6
      <3>2. DOMAIN f[0] = {}
        BY <3>1
      <3>3. {NameOf(docs[i], keys) : i \in 1 .. 0} \ {<<>>} = {}
        OBVIOUS
      <3>4. ListsAll(f[0], docs, keys, 0)
        BY <3>2, <3>3 DEF ListsAll
      <3> QED BY <3>4
    <2>2. ASSUME NEW m \in 0 .. N, m \in R, m < N PROVE m + 1 \in R
      <3>1. m + 1 \in 0 .. N /\ m + 1 \in 1 .. N /\ m + 1 # 0 /\ (m + 1) - 1 = m
        BY <2>2
      <3>2. f[m + 1] = EntryTurn(f[m], docs, keys, m + 1)
        BY <1>6, <3>1 DEF EntryTurn
      <3>3. ListsAll(f[m], docs, keys, (m + 1) - 1)
        BY <2>2, <3>1
      <3>4. ListsAll(f[m + 1], docs, keys, m + 1)
        <4> HIDE DEF P, R
        <4> QED BY <3>1, <3>2, <3>3, TurnLists
      <3> QED BY <3>1, <3>4
    <2>3. \A m \in 0 .. N : m \in R /\ m < N => m + 1 \in R
      BY <2>2
    <2>4. 0 .. N \subseteq R
      <3> HIDE DEF R
      <3> QED BY <2>1, <2>3, UpTo
    <2> QED BY <2>4
  <1> HIDE DEF P, acc
  <1> QED BY <1>4, <1>5, <1>6

(* An answer of find_all has every document once. *)
LEMMA AnswerIsWhole ==
    ASSUME NEW docs, IsFiniteSet(DOMAIN docs), NEW D \in AnyOrder(docs)
    PROVE  /\ Len(D) \in Nat
           /\ \A i \in 1 .. Len(D) : /\ D[i].id \in DOMAIN docs
                                      /\ D[i].attributes = docs[D[i].id]
           /\ \A i, j \in 1 .. Len(D) : i # j => D[i].id # D[j].id
           /\ \A d \in DOMAIN docs : \E i \in 1 .. Len(D) : D[i].id = d
PROOF
  <1> DEFINE n == Cardinality(DOMAIN docs)
  <1>1. PICK s \in SetToSeqs(DOMAIN docs) : D = [i \in DOMAIN s |-> [id |-> s[i], attributes |-> docs[s[i]]]]
    BY DEF AnyOrder
  <1>2. n \in Nat
    BY FS_CardinalityType
  <1>3. s \in [1 .. n -> DOMAIN docs] /\ \A i, j \in 1 .. n : i # j => s[i] # s[j]
    BY <1>1 DEF SetToSeqs
  <1>4. s \in Injection(1 .. n, DOMAIN docs)
    BY <1>3 DEF Injection, IsInjective
  <1>5. Cardinality(1 .. n) = n
    BY <1>2, FS_Interval
  <1>6. s \in Surjection(1 .. n, DOMAIN docs)
    <2>1. Cardinality(1 .. n) = Cardinality(DOMAIN docs)
      BY <1>5
    <2> DEFINE T == DOMAIN docs
    <2>2. s \in Injection(1 .. n, T) /\ IsFiniteSet(T) /\ Cardinality(1 .. n) = Cardinality(T)
      BY <1>4, <2>1
    <2>3. s \in Surjection(1 .. n, T)
      <3> HIDE DEF T, n
      <3> QED BY <2>2, FS_Injection
    <2> QED BY <2>3
  <1>7. DOMAIN s = 1 .. n
    BY <1>3
  <1>8. D = [i \in 1 .. n |-> [id |-> s[i], attributes |-> docs[s[i]]]]
    BY <1>1, <1>7
  <1> HIDE DEF n
  <1>9. Len(D) = n
    BY <1>2, <1>8
  <1>10. \A i \in 1 .. n : D[i].id = s[i] /\ D[i].attributes = docs[s[i]]
    BY <1>8
  <1>11. \A d \in DOMAIN docs : \E i \in 1 .. n : D[i].id = d
    BY <1>6, <1>10 DEF Surjection
  <1>12. ASSUME NEW i \in 1 .. n
         PROVE  D[i].id \in DOMAIN docs /\ D[i].attributes = docs[D[i].id]
    <2>1. D[i].id = s[i] /\ D[i].attributes = docs[s[i]] /\ s[i] \in DOMAIN docs
      BY <1>3, <1>10
    <2> QED BY <2>1
  <1>13. \A i, j \in 1 .. n : i # j => D[i].id # D[j].id
    BY <1>3, <1>10
  <1> QED BY <1>2, <1>9, <1>11, <1>12, <1>13

(* What a map has to hold: a name of one document stands for it, a name of several for all. *)
Right(map, docs, keys) ==
    \A name : name # <<>> =>
        LET bearers == Bearers(docs, keys, name)
        IN  /\ name \in DOMAIN map.unique <=> \E id : bearers = {id}
            /\ name \in DOMAIN map.unique => bearers = {map.unique[name]}
            /\ name \in DOMAIN map.ambiguous <=> bearers # {} /\ ~\E id : bearers = {id}
            /\ name \in DOMAIN map.ambiguous => Range(map.ambiguous[name]) = bearers

(* A sequence without repetition has one element exactly if it has length one. *)
LEMMA OneElement ==
    ASSUME NEW T, NEW q \in Seq(T), Len(q) > 0,
           \A j, k \in 1 .. Len(q) : j # k => q[j] # q[k]
    PROVE  /\ Range(q) # {} /\ q[1] \in Range(q)
           /\ Len(q) = 1 <=> \E x : Range(q) = {x}
           /\ Len(q) = 1 => Range(q) = {q[1]}
PROOF
  <1>1. Len(q) \in Nat /\ DOMAIN q = 1 .. Len(q) /\ 1 \in 1 .. Len(q)
    OBVIOUS
  <1>2. q[1] \in Range(q)
    BY <1>1 DEF Range
  <1>3. CASE Len(q) = 1
    <2>1. \A k \in 1 .. Len(q) : k = 1
      BY <1>3
    <2>2. Range(q) = {q[1]}
      BY <1>1, <2>1 DEF Range
    <2> QED BY <1>2, <1>3, <2>2
  <1>4. CASE Len(q) # 1
    <2>1. 2 \in 1 .. Len(q) /\ 1 # 2
      BY <1>1, <1>4
    <2>2. q[2] \in Range(q) /\ q[1] # q[2]
      BY <1>1, <2>1 DEF Range
    <2> QED BY <1>2, <1>4, <2>2
  <1> QED BY <1>3, <1>4

(* build_map, of an answer of find_all in any order. *)
LEMMA BuiltRight ==
    ASSUME NEW docs, IsFiniteSet(DOMAIN docs), NEW D \in AnyOrder(docs),
           NEW keys, Len(keys) \in Nat, DOMAIN keys = 1 .. Len(keys)
    PROVE  Right(BuildMap(D, keys), docs, keys)
PROOF
  <1> DEFINE acc == Collected(D, keys)
             N   == Len(D)
             T   == {D[i].id : i \in 1 .. N}
             map == BuildMap(D, keys)
  <1>1. /\ N \in Nat
        /\ \A i \in 1 .. N : D[i].id \in DOMAIN docs /\ D[i].attributes = docs[D[i].id]
        /\ \A d \in DOMAIN docs : \E i \in 1 .. N : D[i].id = d
    BY AnswerIsWhole
  <1>2. ListsAll(acc, D, keys, N)
    BY AnswerIsWhole, CollectedLists
  <1>3. /\ map.unique = [n \in {n \in DOMAIN acc : Len(acc[n]) = 1} |-> acc[n][1]]
        /\ map.ambiguous = [n \in DOMAIN acc \ {n \in DOMAIN acc : Len(acc[n]) = 1} |-> acc[n]]
    BY DEF BuildMap
  <1>4. ASSUME NEW i \in 1 .. N
        PROVE  NameOf(D[i], keys) = IF FirstName(docs[D[i].id], keys) = <<>> THEN D[i].id
                                    ELSE FirstName(docs[D[i].id], keys)
    BY <1>1, PickIsFirst DEF NameOf
  <1>5. ASSUME NEW name PROVE Bearers(docs, keys, name) = IdsNamed(D, keys, N, name)
    <2>1. ASSUME NEW d \in Bearers(docs, keys, name) PROVE d \in IdsNamed(D, keys, N, name)
      <3>1. /\ d \in DOMAIN docs
            /\ name = IF FirstName(docs[d], keys) = <<>> THEN d ELSE FirstName(docs[d], keys)
        BY DEF Bearers
      <3>2. PICK i \in 1 .. N : D[i].id = d
        BY <1>1, <3>1
      <3>3. NameOf(D[i], keys) = name
        BY <1>4, <3>1, <3>2
      <3> QED BY <3>2, <3>3 DEF IdsNamed
    <2>2. ASSUME NEW d \in IdsNamed(D, keys, N, name) PROVE d \in Bearers(docs, keys, name)
      <3>1. PICK i \in 1 .. N : NameOf(D[i], keys) = name /\ D[i].id = d
        BY DEF IdsNamed
      <3>2. d \in DOMAIN docs
        BY <1>1, <3>1
      <3>3. name = IF FirstName(docs[d], keys) = <<>> THEN d ELSE FirstName(docs[d], keys)
        BY <1>4, <3>1
      <3> QED BY <3>2, <3>3 DEF Bearers
    <2> QED BY <2>1, <2>2
  <1>6. ASSUME NEW name, name # <<>>
        PROVE  LET bearers == Bearers(docs, keys, name)
               IN  /\ name \in DOMAIN map.unique <=> \E id : bearers = {id}
                   /\ name \in DOMAIN map.unique => bearers = {map.unique[name]}
                   /\ name \in DOMAIN map.ambiguous <=> bearers # {} /\ ~\E id : bearers = {id}
                   /\ name \in DOMAIN map.ambiguous => Range(map.ambiguous[name]) = bearers
    <2> DEFINE B == Bearers(docs, keys, name)
    <2>1. CASE name \in DOMAIN acc
      <3>1. /\ acc[name] \in Seq(T) /\ Len(acc[name]) > 0
            /\ \A j, k \in 1 .. Len(acc[name]) : j # k => acc[name][j] # acc[name][k]
            /\ Range(acc[name]) = B
        BY <1>2, <1>5, <2>1 DEF ListsAll
      <3>2. /\ B # {}
            /\ Len(acc[name]) = 1 <=> \E x : B = {x}
            /\ Len(acc[name]) = 1 => B = {acc[name][1]}
        <4> HIDE DEF acc, T, B
        <4> QED BY <3>1, OneElement
      <3>3. /\ name \in DOMAIN map.unique <=> Len(acc[name]) = 1
            /\ name \in DOMAIN map.unique => map.unique[name] = acc[name][1]
            /\ name \in DOMAIN map.ambiguous <=> Len(acc[name]) # 1
            /\ name \in DOMAIN map.ambiguous => map.ambiguous[name] = acc[name]
        <4> HIDE DEF acc, map
        <4> QED BY <1>3, <2>1
      <3>4. /\ name \in DOMAIN map.unique <=> \E id : B = {id}
            /\ name \in DOMAIN map.unique => B = {map.unique[name]}
            /\ name \in DOMAIN map.ambiguous <=> B # {} /\ ~\E id : B = {id}
            /\ name \in DOMAIN map.ambiguous => Range(map.ambiguous[name]) = B
        <4> HIDE DEF acc, map, B
        <4> QED BY <3>1, <3>2, <3>3
      <3> QED BY <3>4
    <2>2. CASE name \notin DOMAIN acc
      <3>1. name \notin DOMAIN map.unique /\ name \notin DOMAIN map.ambiguous
        <4> HIDE DEF acc, map
        <4> QED BY <1>3, <2>2
      <3>2. \A i \in 1 .. N : NameOf(D[i], keys) # name
        BY <1>2, <1>6, <2>2 DEF ListsAll
      <3>3. B = {}
        BY <1>5, <3>2 DEF IdsNamed
      <3> HIDE DEF map, B
      <3> QED BY <3>1, <3>3 DEF B
    <2> QED BY <2>1, <2>2
  <1> HIDE DEF map
  <1>7. Right(map, docs, keys)
    BY <1>6 DEF Right
  <1> QED BY <1>7 DEF map

-----------------------------------------------------------------------------
(* The events. *)

ChangeTxs == [class : MutatingTxClasses, objectClass : SchemaMutatingClasses]

(* A transaction that is neither an envelope nor a bundle is left as it is. *)
LEMMA PlainStays ==
    ASSUME NEW payloads, NEW tx \in payloads, "tx" \notin DOMAIN tx, "txes" \notin DOMAIN tx
    PROVE  tx \in Opened(payloads)
PROOF BY DEF Opened, TransactionOf

(* No change of a schema slips through the filter, however its transaction is wrapped. *)
LEMMA MutatingSeen ==
    ASSUME NEW tx \in ChangeTxs, NEW event \in Wrapped(tx)
    PROVE  IsSchemaMutating(event)
PROOF
  <1> DEFINE issue  == [class |-> "TxCreateDoc", objectClass |-> "Issue"]
             bundle == [class |-> "TxApplyIf", txes |-> <<issue, tx>>]
  <1>2. /\ "tx" \notin DOMAIN tx /\ "txes" \notin DOMAIN tx
        /\ tx.class \in MutatingTxClasses /\ tx.objectClass \in SchemaMutatingClasses
    BY DEF ChangeTxs
  <1>3. event \in {tx, [tx |-> tx], bundle, [tx |-> bundle]}
    BY DEF Wrapped
  <1>4. TransactionOf(tx) = tx /\ TransactionOf([tx |-> tx]) = tx /\ TransactionOf(bundle) = bundle /\ TransactionOf([tx |-> bundle]) = bundle
    BY <1>2 DEF TransactionOf
  <1>5. \E p \in Opened(Opened({event})) : TransactionOf(p) = tx
    <2>1. CASE event \in {tx, [tx |-> tx]}
      <3>1. TransactionOf(event) = tx
        BY <1>4, <2>1
      <3>2. event \in Opened({event})
        BY <1>2, <3>1 DEF Opened
      <3>3. event \in Opened(Opened({event}))
        BY <1>2, <3>1, <3>2 DEF Opened
      <3> QED BY <3>1, <3>3
    <2>2. CASE event \in {bundle, [tx |-> bundle]}
      <3>1. TransactionOf(event) = bundle /\ "txes" \in DOMAIN bundle /\ bundle.txes = <<issue, tx>>
        BY <1>4, <2>2
      <3>2. Opened({event}) = Range(bundle.txes)
        BY <3>1 DEF Opened
      <3>3. tx \in Range(<<issue, tx>>)
        <4>1. 2 \in DOMAIN <<issue, tx>> /\ <<issue, tx>>[2] = tx
          OBVIOUS
        <4> QED BY <4>1 DEF Range
      <3>4. tx \in Opened({event})
        BY <3>1, <3>2, <3>3
      <3>5. tx \in Opened(Opened({event}))
        BY <1>2, <3>4, PlainStays
      <3> QED BY <1>4, <3>5
    <2> QED BY <1>3, <2>1, <2>2
  <1> QED BY <1>2, <1>5 DEF IsSchemaMutating

-----------------------------------------------------------------------------
(* The invariant. *)

WorkspaceOK ==
    \E tags, assocs :
        /\ ids = [tags |-> tags, assocs |-> assocs]
        /\ DOMAIN tags \subseteq TagIds /\ DOMAIN assocs \subseteq AssocIds

(* A call's refresh is a record; only between its clone of the handle and the installation can it *)
(* hold the handle of an entry that is no longer in the cache.                                   *)
RefreshOK(r) ==
    /\ refresh[r] = [pc |-> refresh[r].pc, tags |-> refresh[r].tags,
                     assocs |-> refresh[r].assocs, kept |-> refresh[r].kept]
    /\ refresh[r].pc \in {"idle", "snapshot", "tags", "assocs", "install", "mark"}
    /\ refresh[r].pc \in {"idle", "snapshot", "mark"} \/ ~astray => refresh[r].kept

HandleRight ==
    /\ Right(handle.cardTypes, ids.tags, CardTypeNameKeys)
    /\ Right(handle.associations, ids.assocs, AssocNameKeys)

(* What a call has read, or is about to mark as fresh, is the workspace of now. *)
ReadRight(r) ==
    /\ refresh[r].pc \in {"assocs", "install"} => refresh[r].tags \in AnyOrder(ids.tags)
    /\ refresh[r].pc = "install" => refresh[r].assocs \in AnyOrder(ids.assocs)
    /\ refresh[r].pc = "mark" => HandleRight

(* The cache is current unless it is stale or will be told so, and so is what is on its way to it. *)
CacheRight ==
    events = <<>> /\ ~astray =>
        /\ fresh => HandleRight
        /\ \A r \in Refreshers : ReadRight(r)

SchemaInv ==
    /\ WorkspaceOK
    /\ events \in Seq(ChangeTxs)
    /\ fresh \in BOOLEAN /\ astray \in BOOLEAN
    /\ refresh = [r \in Refreshers |-> refresh[r]]
    /\ \A r \in Refreshers : RefreshOK(r)
    /\ CacheRight

(* Nothing has been read and nothing is on its way at the start. *)
LEMMA SchemaInvInit == SchemaInit => SchemaInv
PROOF
  <1> SUFFICES ASSUME SchemaInit PROVE SchemaInv
    OBVIOUS
  <1>1. PICK t \in SUBSET TagIds, a \in SUBSET AssocIds :
            \E tags \in [t -> TagAttributes], assocs \in [a -> AssocAttributes] :
                ids = [tags |-> tags, assocs |-> assocs]
    BY DEF SchemaInit
  <1>2. WorkspaceOK
    BY <1>1 DEF WorkspaceOK
  <1>3. /\ events = <<>> /\ fresh = FALSE /\ astray = FALSE /\ <<>> \in Seq(ChangeTxs)
        /\ refresh = [r \in Refreshers |-> NoRefresh]
    BY DEF SchemaInit, NothingCached
  <1>4. \A r \in Refreshers : RefreshOK(r) /\ ReadRight(r)
    BY <1>3 DEF RefreshOK, ReadRight, NoRefresh
  <1> QED BY <1>2, <1>3, <1>4 DEF SchemaInv, CacheRight

(* What a record of a refresh is after a change of one field. *)
LEMMA RefreshRecord ==
    ASSUME NEW p, NEW t, NEW a, NEW k, NEW x, NEW d,
           x = [pc |-> p, tags |-> t, assocs |-> a, kept |-> k]
    PROVE  /\ [x EXCEPT !.pc = d] = [pc |-> d, tags |-> t, assocs |-> a, kept |-> k]
           /\ [x EXCEPT !.tags = d] = [pc |-> p, tags |-> d, assocs |-> a, kept |-> k]
           /\ [x EXCEPT !.assocs = d] = [pc |-> p, tags |-> t, assocs |-> d, kept |-> k]
PROOF OBVIOUS

(* A step of one call that leaves all but its refresh alone, or marks the cache on top of it. *)
LEMMA CallStepRight ==
    ASSUME SchemaInv, NEW r \in Refreshers, NEW v,
           refresh' = [refresh EXCEPT ![r] = v],
           UNCHANGED <<ids, events>>, fresh' \in BOOLEAN, astray' \in BOOLEAN,
           (\E q \in Refreshers : refresh[q].pc # "idle") => astray' = astray,
           v = [pc |-> v.pc, tags |-> v.tags, assocs |-> v.assocs, kept |-> v.kept],
           v.pc \in {"idle", "snapshot", "tags", "assocs", "install", "mark"},
           v.pc \in {"idle", "snapshot", "mark"} \/ ~astray' => v.kept,
           events = <<>> /\ ~astray' =>
               /\ fresh' => HandleRight'
               /\ v.pc \in {"assocs", "install"} => v.tags \in AnyOrder(ids.tags)
               /\ v.pc = "install" => v.assocs \in AnyOrder(ids.assocs)
               /\ v.pc = "mark" => HandleRight'
               /\ ~astray /\ HandleRight => HandleRight'
    PROVE  SchemaInv'
PROOF
  <1>1. refresh'[r] = v /\ \A q \in Refreshers \ {r} : refresh'[q] = refresh[q]
    BY DEF SchemaInv
  <1>2. refresh' = [q \in Refreshers |-> refresh'[q]]
    BY DEF SchemaInv
  <1>3. ASSUME NEW q \in Refreshers PROVE RefreshOK(q)'
    <2>1. CASE q = r
      BY <1>1, <2>1 DEF RefreshOK
    <2>2. CASE q # r
      BY <1>1, <2>2 DEF SchemaInv, RefreshOK
    <2> QED BY <2>1, <2>2
  <1>4. ASSUME NEW q \in Refreshers, events = <<>>, ~astray' PROVE ReadRight(q)'
    <2>1. CASE q = r
      BY <1>1, <1>4, <2>1 DEF ReadRight
    <2>2. CASE q # r /\ refresh[q].pc = "idle"
      BY <1>1, <2>2 DEF ReadRight
    <2>3. CASE q # r /\ refresh[q].pc # "idle"
      <3>1. ~astray /\ ReadRight(q)
        BY <1>4, <2>3 DEF SchemaInv, CacheRight
      <3> QED BY <1>1, <1>4, <2>3, <3>1 DEF ReadRight
    <2> QED BY <2>1, <2>2, <2>3
  <1>5. WorkspaceOK' /\ events' \in Seq(ChangeTxs)
    BY DEF SchemaInv, WorkspaceOK
  <1> QED BY <1>2, <1>3, <1>4, <1>5 DEF SchemaInv, CacheRight

(* What a call reads is the workspace of then, and what it installs is what it has read. *)
LEMMA RefreshRight ==
    ASSUME SchemaInv, NEW r \in Refreshers,
           \/ NeedsRefresh(r) \/ SnapshotEntry(r) \/ FetchMasterTags(r) \/ FetchAssociations(r)
           \/ QueryFailed(r) \/ InstallNames(r) \/ MarkFresh(r)
    PROVE  SchemaInv'
PROOF
  <1>1. /\ RefreshOK(r) /\ fresh \in BOOLEAN /\ astray \in BOOLEAN
        /\ refresh = [q \in Refreshers |-> refresh[q]]
        /\ events = <<>> /\ ~astray => (fresh => HandleRight) /\ ReadRight(r)
    BY DEF SchemaInv, CacheRight
  <1>2. CASE NeedsRefresh(r)
    <2> DEFINE v == [refresh[r] EXCEPT !.pc = "snapshot"]
    <2>1. /\ refresh' = [refresh EXCEPT ![r] = v] /\ ~fresh'
          /\ UNCHANGED <<ids, events, handle, fresh>> /\ refresh[r].pc = "idle"
          /\ astray' = (astray /\ UnderWay)
      BY <1>2 DEF NeedsRefresh, GoesTo
    <2>2. v = [pc |-> "snapshot", tags |-> refresh[r].tags, assocs |-> refresh[r].assocs,
               kept |-> refresh[r].kept]
      BY <1>1 DEF RefreshOK
    <2>3. refresh[r].kept
      BY <1>1, <2>1 DEF RefreshOK
    <2> HIDE DEF v
    <2>4. UNCHANGED HandleRight
      BY <2>1 DEF HandleRight
    <2> QED BY <1>1, <2>1, <2>2, <2>3, <2>4, CallStepRight DEF UnderWay
  <1>3. CASE SnapshotEntry(r)
    <2> DEFINE v == [refresh[r] EXCEPT !.pc = "tags"]
    <2>1. /\ refresh' = [refresh EXCEPT ![r] = v] /\ refresh[r].pc = "snapshot"
          /\ UNCHANGED <<ids, events, handle, fresh, astray>>
      BY <1>3 DEF SnapshotEntry, GoesTo
    <2>2. v = [pc |-> "tags", tags |-> refresh[r].tags, assocs |-> refresh[r].assocs,
               kept |-> refresh[r].kept]
      BY <1>1 DEF RefreshOK
    <2>3. refresh[r].kept
      BY <1>1, <2>1 DEF RefreshOK
    <2> HIDE DEF v
    <2>4. UNCHANGED HandleRight
      BY <2>1 DEF HandleRight
    <2> QED BY <1>1, <2>1, <2>2, <2>3, <2>4, CallStepRight
  <1>4. CASE FetchMasterTags(r)
    <2>1. PICK docs \in AnyOrder(ids.tags) :
              refresh' = [refresh EXCEPT ![r].tags = docs, ![r].pc = "assocs"]
      BY <1>4 DEF FetchMasterTags
    <2> DEFINE v == [refresh[r] EXCEPT !.tags = docs, !.pc = "assocs"]
    <2>2. refresh' = [refresh EXCEPT ![r] = v]
      BY <1>1, <2>1
    <2>3. UNCHANGED <<ids, events, handle, fresh, astray>>
      BY <1>4 DEF FetchMasterTags
    <2>4. v = [pc |-> "assocs", tags |-> docs, assocs |-> refresh[r].assocs,
               kept |-> refresh[r].kept]
      <3> DEFINE x == refresh[r]
                 w == [x EXCEPT !.tags = docs]
      <3>1. x = [pc |-> x.pc, tags |-> x.tags, assocs |-> x.assocs, kept |-> x.kept]
        BY <1>1 DEF RefreshOK
      <3> HIDE DEF x
      <3>2. w = [pc |-> x.pc, tags |-> docs, assocs |-> x.assocs, kept |-> x.kept]
        BY <3>1, RefreshRecord
      <3>3. v = [w EXCEPT !.pc = "assocs"]
        BY DEF x
      <3> HIDE DEF w, v
      <3>4. v = [pc |-> "assocs", tags |-> docs, assocs |-> x.assocs, kept |-> x.kept]
        BY <3>2, <3>3, RefreshRecord
      <3> QED BY <3>4 DEF x
    <2>5. ~astray => refresh[r].kept
      BY <1>1 DEF RefreshOK
    <2> HIDE DEF v
    <2>6. UNCHANGED HandleRight
      BY <2>3 DEF HandleRight
    <2> QED BY <1>1, <2>2, <2>3, <2>4, <2>5, <2>6, CallStepRight
  <1>5. CASE FetchAssociations(r)
    <2>1. PICK docs \in AnyOrder(ids.assocs) :
              refresh' = [refresh EXCEPT ![r].assocs = docs, ![r].pc = "install"]
      BY <1>5 DEF FetchAssociations
    <2> DEFINE v == [refresh[r] EXCEPT !.assocs = docs, !.pc = "install"]
    <2>2. refresh' = [refresh EXCEPT ![r] = v]
      BY <1>1, <2>1
    <2>3. UNCHANGED <<ids, events, handle, fresh, astray>> /\ refresh[r].pc = "assocs"
      BY <1>5 DEF FetchAssociations
    <2>4. v = [pc |-> "install", tags |-> refresh[r].tags, assocs |-> docs,
               kept |-> refresh[r].kept]
      <3> DEFINE x == refresh[r]
                 w == [x EXCEPT !.assocs = docs]
      <3>1. x = [pc |-> x.pc, tags |-> x.tags, assocs |-> x.assocs, kept |-> x.kept]
        BY <1>1 DEF RefreshOK
      <3> HIDE DEF x
      <3>2. w = [pc |-> x.pc, tags |-> x.tags, assocs |-> docs, kept |-> x.kept]
        BY <3>1, RefreshRecord
      <3>3. v = [w EXCEPT !.pc = "install"]
        BY DEF x
      <3> HIDE DEF w, v
      <3>4. v = [pc |-> "install", tags |-> x.tags, assocs |-> docs, kept |-> x.kept]
        BY <3>2, <3>3, RefreshRecord
      <3> QED BY <3>4 DEF x
    <2>5. ~astray => refresh[r].kept
      BY <1>1 DEF RefreshOK
    <2>6. events = <<>> /\ ~astray => refresh[r].tags \in AnyOrder(ids.tags)
      BY <1>1, <2>3 DEF ReadRight
    <2> HIDE DEF v
    <2>7. UNCHANGED HandleRight
      BY <2>3 DEF HandleRight
    <2> QED BY <1>1, <2>2, <2>3, <2>4, <2>5, <2>6, <2>7, CallStepRight
  <1>6. CASE QueryFailed(r)
    <2>1. /\ refresh' = [refresh EXCEPT ![r] = NoRefresh]
          /\ UNCHANGED <<ids, events, handle, fresh, astray>>
      BY <1>6 DEF QueryFailed
    <2>2. UNCHANGED HandleRight
      BY <2>1 DEF HandleRight
    <2> QED BY <1>1, <2>1, <2>2, CallStepRight DEF NoRefresh
  <1>7. CASE InstallNames(r)
    <2> DEFINE v == [NoRefresh EXCEPT !.pc = "mark"]
    <2>1. /\ refresh' = [refresh EXCEPT ![r] = v] /\ refresh[r].pc = "install"
          /\ UNCHANGED <<ids, events, fresh, astray>>
      BY <1>7 DEF InstallNames
    <2>2. PICK e : v = [pc |-> "mark", tags |-> e, assocs |-> e, kept |-> TRUE]
      <3> DEFINE x == NoRefresh
      <3>1. PICK e : x = [pc |-> "idle", tags |-> e, assocs |-> e, kept |-> TRUE]
        BY DEF NoRefresh
      <3>2. v = [x EXCEPT !.pc = "mark"]
        OBVIOUS
      <3> HIDE DEF x, v
      <3> QED BY <3>1, <3>2, RefreshRecord
    <2> HIDE DEF v
    <2>3. ASSUME events = <<>>, ~astray PROVE HandleRight'
      <3>1. /\ refresh[r].kept
            /\ refresh[r].tags \in AnyOrder(ids.tags) /\ refresh[r].assocs \in AnyOrder(ids.assocs)
        BY <1>1, <2>1, <2>3 DEF RefreshOK, ReadRight
      <3>2. /\ handle'.cardTypes = BuildMap(refresh[r].tags, CardTypeNameKeys)
            /\ handle'.associations = BuildMap(refresh[r].assocs, AssocNameKeys)
        BY <1>7, <3>1 DEF InstallNames, InstallSchema
      <3>3. IsFiniteSet(DOMAIN ids.tags) /\ IsFiniteSet(DOMAIN ids.assocs)
        <4>1. PICK tags, assocs : /\ ids = [tags |-> tags, assocs |-> assocs]
                                 /\ DOMAIN tags \subseteq TagIds /\ DOMAIN assocs \subseteq AssocIds
          BY DEF SchemaInv, WorkspaceOK
        <4>2. IsFiniteSet(DOMAIN tags) /\ IsFiniteSet(DOMAIN assocs)
          BY <4>1, NamesAssumption, FS_Subset
        <4> QED BY <4>1, <4>2
      <3>4. /\ Len(CardTypeNameKeys) \in Nat /\ DOMAIN CardTypeNameKeys = 1 .. Len(CardTypeNameKeys)
            /\ Len(AssocNameKeys) \in Nat /\ DOMAIN AssocNameKeys = 1 .. Len(AssocNameKeys)
        BY DEF CardTypeNameKeys, AssocNameKeys
      <3>5. /\ Right(BuildMap(refresh[r].tags, CardTypeNameKeys), ids.tags, CardTypeNameKeys)
            /\ Right(BuildMap(refresh[r].assocs, AssocNameKeys), ids.assocs, AssocNameKeys)
        BY <3>1, <3>3, <3>4, BuiltRight
      <3> QED BY <2>1, <3>2, <3>5 DEF HandleRight
    <2> QED BY <1>1, <2>1, <2>2, <2>3, CallStepRight
  <1>8. CASE MarkFresh(r)
    <2> DEFINE v == [refresh[r] EXCEPT !.pc = "idle"]
    <2>1. /\ refresh' = [refresh EXCEPT ![r] = v] /\ refresh[r].pc = "mark" /\ fresh' = TRUE
          /\ UNCHANGED <<ids, events, handle, astray>>
      BY <1>8 DEF MarkFresh, GoesTo
    <2>2. v = [pc |-> "idle", tags |-> refresh[r].tags, assocs |-> refresh[r].assocs,
               kept |-> refresh[r].kept]
      BY <1>1 DEF RefreshOK
    <2>3. refresh[r].kept
      BY <1>1, <2>1 DEF RefreshOK
    <2> HIDE DEF v
    <2>4. UNCHANGED HandleRight
      BY <2>1 DEF HandleRight
    <2>5. events = <<>> /\ ~astray => HandleRight
      BY <1>1, <2>1 DEF ReadRight
    <2> QED BY <1>1, <2>1, <2>2, <2>3, <2>4, <2>5, CallStepRight
  <1> QED BY <1>2, <1>3, <1>4, <1>5, <1>6, <1>7, <1>8

(* An entry is replaced under no call, or something has gone astray; a TTL makes nothing fresh. *)
LEMMA StaleRight == SchemaInv /\ (ReplaceEntry \/ NamesTtlElapsed) => SchemaInv'
PROOF
  <1> SUFFICES ASSUME SchemaInv, ReplaceEntry \/ NamesTtlElapsed PROVE SchemaInv'
    OBVIOUS
  <1>1. CASE NamesTtlElapsed
    <2>1. fresh' = FALSE /\ UNCHANGED <<ids, handle, events, refresh, astray>>
      BY <1>1 DEF NamesTtlElapsed
    <2>2. /\ WorkspaceOK' /\ UNCHANGED HandleRight
          /\ \A r \in Refreshers : UNCHANGED <<RefreshOK(r), ReadRight(r)>>
      BY <2>1 DEF SchemaInv, WorkspaceOK, HandleRight, RefreshOK, ReadRight
    <2> QED BY <2>1, <2>2 DEF SchemaInv, CacheRight
  <1>2. CASE ReplaceEntry
    <2>1. /\ fresh' = FALSE /\ astray' = (astray \/ UnderWay) /\ UNCHANGED <<ids, events>>
          /\ refresh' = [r \in Refreshers |->
                 [refresh[r] EXCEPT !.kept = @ /\ refresh[r].pc \in {"idle", "snapshot", "mark"}]]
      BY <1>2 DEF ReplaceEntry
    <2>2. ASSUME NEW r \in Refreshers
          PROVE  /\ refresh'[r].pc = refresh[r].pc
                 /\ refresh'[r] = [pc |-> refresh'[r].pc, tags |-> refresh'[r].tags,
                                   assocs |-> refresh'[r].assocs, kept |-> refresh'[r].kept]
                 /\ refresh[r].pc \in {"idle", "snapshot", "mark"} /\ refresh[r].kept => refresh'[r].kept
      <3>1. refresh[r] = [pc |-> refresh[r].pc, tags |-> refresh[r].tags,
                          assocs |-> refresh[r].assocs, kept |-> refresh[r].kept]
        BY DEF SchemaInv, RefreshOK
      <3>2. refresh'[r] = [refresh[r] EXCEPT !.kept = @ /\ refresh[r].pc \in {"idle", "snapshot", "mark"}]
        BY <2>1
      <3> QED BY <3>1, <3>2
    <2>3. ~astray' => \A r \in Refreshers : refresh[r].pc = "idle"
      BY <2>1 DEF UnderWay
    <2>4. \A r \in Refreshers : RefreshOK(r)'
      BY <2>2, <2>3 DEF SchemaInv, RefreshOK
    <2>5. CacheRight'
      BY <2>1, <2>2, <2>3 DEF CacheRight, ReadRight
    <2>6. WorkspaceOK' /\ events' \in Seq(ChangeTxs) /\ astray' \in BOOLEAN
      BY <2>1 DEF SchemaInv, WorkspaceOK
    <2>7. refresh' = [r \in Refreshers |-> refresh'[r]]
      BY <2>1
    <2> QED BY <2>1, <2>4, <2>5, <2>6, <2>7 DEF SchemaInv
  <1> QED BY <1>1, <1>2

(* A change of the workspace comes with a transaction the filter takes for what it is. *)
LEMMA TransactRight == SchemaInv /\ TransactSchema => SchemaInv'
PROOF
  <1> SUFFICES ASSUME SchemaInv, TransactSchema PROVE SchemaInv'
    OBVIOUS
  <1>1. ASSUME NEW kind \in {"tags", "assocs"}, NEW class \in {"MasterTag", "Association"}, NEW id, NEW new,
               kind = "tags" => id \in TagIds, kind = "assocs" => id \in AssocIds,
               ChangeDocument(kind, class, id, new)
        PROVE  SchemaInv'
    <2>1. PICK tags, assocs : /\ ids = [tags |-> tags, assocs |-> assocs]
                             /\ DOMAIN tags \subseteq TagIds /\ DOMAIN assocs \subseteq AssocIds
      BY DEF SchemaInv, WorkspaceOK
    <2>2. ids' = [ids EXCEPT ![kind] = Put(ids[kind], id, new)]
      BY <1>1 DEF ChangeDocument
    <2>3. DOMAIN Put(ids[kind], id, new) \subseteq DOMAIN ids[kind] \cup {id}
      BY DEF Put
    <2>4. WorkspaceOK'
      <3>1. CASE kind = "tags"
        <4>1. ids' = [tags |-> Put(tags, id, new), assocs |-> assocs]
          BY <2>1, <2>2, <3>1
        <4>2. DOMAIN Put(tags, id, new) \subseteq TagIds
          BY <1>1, <2>1, <2>3, <3>1
        <4> QED BY <2>1, <4>1, <4>2 DEF WorkspaceOK
      <3>2. CASE kind = "assocs"
        <4>1. ids' = [tags |-> tags, assocs |-> Put(assocs, id, new)]
          BY <2>1, <2>2, <3>2
        <4>2. DOMAIN Put(assocs, id, new) \subseteq AssocIds
          BY <1>1, <2>1, <2>3, <3>2
        <4> QED BY <2>1, <4>1, <4>2 DEF WorkspaceOK
      <3> QED BY <3>1, <3>2
    <2>5. PICK tx \in ChangeTxs : events' = Append(events, tx)
      <3> DEFINE old == IF id \in DOMAIN ids[kind] THEN {ids[kind][id]} ELSE {}
      <3>1. PICK tx \in TransactionsOf(class, old, new) : events' = Append(events, tx)
        BY <1>1 DEF ChangeDocument
      <3>2. tx \in ChangeTxs
        BY <1>1, <3>1 DEF TransactionsOf, ChangeTxs, MutatingTxClasses, SchemaMutatingClasses
      <3> QED BY <3>1, <3>2
    <2>6. events' \in Seq(ChangeTxs) /\ events' # <<>>
      BY <2>5 DEF SchemaInv
    <2>7. UNCHANGED <<fresh, refresh, astray>>
      BY DEF TransactSchema
    <2>8. \A r \in Refreshers : RefreshOK(r)'
      BY <2>7 DEF SchemaInv, RefreshOK
    <2> QED BY <2>4, <2>6, <2>7, <2>8 DEF SchemaInv, CacheRight
  <1>2. CASE \E id \in TagIds, new \in {{}} \cup {{a} : a \in TagAttributes} :
                 ChangeDocument("tags", "MasterTag", id, new)
    BY <1>1, <1>2
  <1>3. CASE \E id \in AssocIds, new \in {{}} \cup {{a} : a \in AssocAttributes} :
                 ChangeDocument("assocs", "Association", id, new)
    BY <1>1, <1>3
  <1> QED BY <1>2, <1>3 DEF TransactSchema

(* The invalidator marks the cache as stale, whatever event of a change it sees. *)
LEMMA SeenRight == SchemaInv /\ (SeeEvent \/ LoseEvent) => SchemaInv'
PROOF
  <1> SUFFICES ASSUME SchemaInv, SeeEvent \/ LoseEvent PROVE SchemaInv'
    OBVIOUS
  <1>1. /\ events \in Seq(ChangeTxs) /\ events # <<>> /\ events' = Tail(events)
        /\ UNCHANGED <<ids, refresh>>
    BY DEF SchemaInv, SeeEvent, LoseEvent
  <1>2. Head(events) \in ChangeTxs /\ events' \in Seq(ChangeTxs)
    BY <1>1
  <1>3. fresh' \in BOOLEAN /\ (~astray' => fresh' = FALSE)
    <2>1. CASE SeeEvent
      <3>1. PICK event \in Wrapped(Head(events)) : fresh' = (fresh /\ ~IsSchemaMutating(event))
        BY <2>1 DEF SeeEvent
      <3> QED BY <1>2, <3>1, MutatingSeen
    <2>2. CASE LoseEvent
      BY <2>2 DEF LoseEvent, SchemaInv
    <2> QED BY <2>1, <2>2
  <1>4. /\ astray' \in BOOLEAN
        /\ ~astray' => ~astray /\ \A r \in Refreshers : refresh[r].pc = "idle"
    BY DEF SeeEvent, LoseEvent, UnderWay, SchemaInv
  <1>5. \A r \in Refreshers : RefreshOK(r)'
    BY <1>1, <1>4 DEF SchemaInv, RefreshOK
  <1>6. CacheRight'
    BY <1>1, <1>3, <1>4 DEF CacheRight, ReadRight
  <1>7. WorkspaceOK' /\ refresh' = [r \in Refreshers |-> refresh'[r]]
    BY <1>1 DEF SchemaInv, WorkspaceOK
  <1> QED BY <1>2, <1>3, <1>4, <1>5, <1>6, <1>7 DEF SchemaInv

(* Every refresh, change and event keeps it. *)
LEMMA SchemaInvStep == SchemaInv /\ [SchemaNext]_schemaVars => SchemaInv'
PROOF
  <1> SUFFICES ASSUME SchemaInv, [SchemaNext]_schemaVars PROVE SchemaInv'
    OBVIOUS
  <1>1. CASE UNCHANGED schemaVars
    <2>1. UNCHANGED <<ids, handle, fresh, events, refresh, astray>>
      BY <1>1 DEF schemaVars
    <2>2. UNCHANGED <<WorkspaceOK, HandleRight>>
      BY <2>1 DEF WorkspaceOK, HandleRight
    <2>3. \A r \in Refreshers : UNCHANGED <<RefreshOK(r), ReadRight(r)>>
      BY <2>1, <2>2 DEF RefreshOK, ReadRight
    <2> QED BY <2>1, <2>2, <2>3 DEF SchemaInv, CacheRight
  <1> QED BY <1>1, RefreshRight, StaleRight, TransactRight, SeenRight DEF SchemaNext

(* What a current cache answers. *)
LEMMA RightResolves == SchemaInv => NamesResolve
PROOF
  <1> SUFFICES ASSUME SchemaInv, fresh, events = <<>>, ~astray, NEW name \in ClassNames
               PROVE  LET tags   == Bearers(ids.tags, CardTypeNameKeys, name)
                          assocs == Bearers(ids.assocs, AssocNameKeys, name)
                      IN  Answers(ResolveName(handle, name), name, IF tags # {} THEN tags ELSE assocs)
    BY DEF NamesResolve
  <1> DEFINE tags   == Bearers(ids.tags, CardTypeNameKeys, name)
             assocs == Bearers(ids.assocs, AssocNameKeys, name)
             hits   == IF tags # {} THEN tags ELSE assocs
             found  == ResolveName(handle, name)
             C      == handle.cardTypes
             A      == handle.associations
  <1> SUFFICES Answers(found, name, hits)
    OBVIOUS
  <1>1. name # <<>>
    BY NamesAssumption
  <1>2. /\ name \in DOMAIN C.unique <=> \E id : tags = {id}
        /\ name \in DOMAIN C.unique => tags = {C.unique[name]}
        /\ name \in DOMAIN C.ambiguous <=> tags # {} /\ ~\E id : tags = {id}
        /\ name \in DOMAIN C.ambiguous => Range(C.ambiguous[name]) = tags
    BY <1>1 DEF SchemaInv, CacheRight, HandleRight, Right
  <1>3. /\ name \in DOMAIN A.unique <=> \E id : assocs = {id}
        /\ name \in DOMAIN A.unique => assocs = {A.unique[name]}
        /\ name \in DOMAIN A.ambiguous <=> assocs # {} /\ ~\E id : assocs = {id}
        /\ name \in DOMAIN A.ambiguous => Range(A.ambiguous[name]) = assocs
    BY <1>1 DEF SchemaInv, CacheRight, HandleRight, Right
  <1>4. IsFiniteSet(hits)
    <2>1. PICK t, a : /\ ids = [tags |-> t, assocs |-> a]
                      /\ DOMAIN t \subseteq TagIds /\ DOMAIN a \subseteq AssocIds
      BY DEF SchemaInv, WorkspaceOK
    <2>2. tags \subseteq TagIds /\ assocs \subseteq AssocIds
      BY <2>1 DEF Bearers
    <2> HIDE DEF tags, assocs
    <2> QED BY <2>2, NamesAssumption, FS_Subset
  <1>5. Cardinality(hits) \in Nat /\ (Cardinality(hits) = 0 <=> hits = {})
        /\ (Cardinality(hits) = 1 <=> \E x : hits = {x})
    <2> HIDE DEF hits
    <2> QED BY <1>4, FS_EmptySet, FS_Singleton, FS_CardinalityType
  <1>6. \A v : IsOk(Ok(v))
    BY DEF IsOk, Ok
  <1>7. \A k, c, m : Err(k, c, m).err = k /\ Err(k, c, m).message = m /\ ~IsOk(Err(k, c, m))
    BY DEF Err, IsOk
  <1>8. Failure("Unknown").err = "Unknown" /\ ~IsOk(Failure("Unknown"))
    BY <1>7 DEF Failure
  <1>9. CASE IsPlatformName(name)
    <2>1. found = Ok(name)
      BY <1>9 DEF ResolveName
    <2> HIDE DEF found, hits
    <2> QED BY <1>9, <2>1 DEF Answers
  <1>10. CASE ~IsPlatformName(name) /\ hits = {}
    <2>1. found = Failure("Unknown")
      BY <1>2, <1>3, <1>10 DEF ResolveName
    <2>2. Cardinality(hits) # 1 /\ ~(Cardinality(hits) > 1)
      BY <1>5, <1>10
    <2>3. ~IsOk(found) /\ found.err = "Unknown"
      BY <1>8, <2>1
    <2> HIDE DEF found, hits
    <2> QED BY <1>10, <2>2, <2>3, Zenon DEF Answers
  <1>11. CASE ~IsPlatformName(name) /\ Cardinality(hits) = 1
    <2>1. PICK x : hits = {x}
      BY <1>5, <1>11
    <2>2. found = Ok(x)
      <3>1. CASE tags # {}
        <4>1. tags = {x}
          BY <2>1, <3>1
        <4>2. name \in DOMAIN C.unique /\ name \notin DOMAIN C.ambiguous /\ C.unique[name] = x
          BY <1>2, <4>1
        <4> QED BY <1>11, <4>2 DEF ResolveName
      <3>2. CASE tags = {}
        <4>1. assocs = {x}
          BY <2>1, <3>2
        <4>2. /\ name \notin DOMAIN C.unique /\ name \notin DOMAIN C.ambiguous
              /\ name \in DOMAIN A.unique /\ name \notin DOMAIN A.ambiguous /\ A.unique[name] = x
          BY <1>2, <1>3, <3>2, <4>1
        <4> QED BY <1>11, <4>2 DEF ResolveName
      <3> QED BY <3>1, <3>2
    <2>3. (CHOOSE h \in hits : TRUE) = x
      <3> HIDE DEF hits
      <3> QED BY <2>1
    <2> HIDE DEF found, hits
    <2> QED BY <1>5, <1>11, <2>1, <2>2, <2>3 DEF Answers
  <1>12. CASE ~IsPlatformName(name) /\ Cardinality(hits) > 1
    <2>0. ~IsPlatformName(name)
      BY <1>12
    <2>1. hits # {} /\ ~\E x : hits = {x}
      <3> HIDE DEF hits
      <3>1. Cardinality(hits) # 0 /\ Cardinality(hits) # 1
        BY <1>5, <1>12
      <3> QED BY <1>5, <3>1
    <2>2. \E kind, l : found = Err("Ambiguous", kind, l) /\ Range(l) = hits
      <3>1. CASE tags # {}
        <4>1. /\ name \in DOMAIN C.ambiguous /\ name \notin DOMAIN C.unique
              /\ Range(C.ambiguous[name]) = hits
          BY <1>2, <2>1, <3>1
        <4>2. found = Err("Ambiguous", "CardType", C.ambiguous[name])
          BY <2>0, <4>1 DEF ResolveName
        <4> HIDE DEF found, hits
        <4> QED BY <4>1, <4>2
      <3>2. CASE tags = {}
        <4>1. /\ name \notin DOMAIN C.unique /\ name \notin DOMAIN C.ambiguous
              /\ name \in DOMAIN A.ambiguous /\ name \notin DOMAIN A.unique
              /\ Range(A.ambiguous[name]) = hits
          BY <1>2, <1>3, <2>1, <3>2
        <4>2. found = Err("Ambiguous", "Association", A.ambiguous[name])
          BY <2>0, <4>1 DEF ResolveName
        <4> HIDE DEF found, hits
        <4> QED BY <4>1, <4>2
      <3> QED BY <3>1, <3>2
    <2>3. found.err = "Ambiguous" /\ ~IsOk(found) /\ Range(found.message) = hits
      <3> HIDE DEF found, hits
      <3> QED BY <1>7, <2>2
    <2> HIDE DEF found, hits
    <2> QED BY <1>5, <1>12, <2>1, <2>3 DEF Answers
  <1>13. hits = {} \/ Cardinality(hits) = 1 \/ Cardinality(hits) > 1
    <2> HIDE DEF hits
    <2> QED BY <1>5
  <1> QED BY <1>9, <1>10, <1>11, <1>12, <1>13

(* refresh, resolve_class and the invalidator together: unless an event of a change is on its way,  *)
(* was lost, or was seen while a refresh was under way, the names of a fresh cache resolve as in    *)
(* the workspace of now, whatever the documents, their attributes, the order in which the           *)
(* transactor returns them, and the number of calls that refresh the handle at the same time.       *)
THEOREM NamesResolveCorrect == SchemaSpec => []NamesResolve
PROOF
  BY SchemaInvInit, SchemaInvStep, RightResolves, PTL DEF SchemaSpec

-----------------------------------------------------------------------------
(* Markdown: sequences and loops over them.                                *)

(* Concatenation, with a name of its own. *)
Cat(a, b) == a \o b

(* What a concatenation is a sequence of, and how long. *)
LEMMA CatType ==
    ASSUME NEW T, NEW a \in Seq(T), NEW b \in Seq(T)
    PROVE  Cat(a, b) \in Seq(T) /\ Len(Cat(a, b)) = Len(a) + Len(b)
PROOF BY DEF Cat

(* Its elements. *)
LEMMA CatElements ==
    ASSUME NEW T, NEW a \in Seq(T), NEW b \in Seq(T)
    PROVE  /\ \A i \in 1 .. Len(a) : Cat(a, b)[i] = a[i]
           /\ \A i \in 1 .. Len(b) : Cat(a, b)[Len(a) + i] = b[i]
PROOF BY DEF Cat

(* One more element in the second. *)
LEMMA CatAppend ==
    ASSUME NEW T, NEW a \in Seq(T), NEW b \in Seq(T), NEW x \in T
    PROVE  Cat(a, Append(b, x)) = Append(Cat(a, b), x)
PROOF BY DEF Cat

(* With nothing on either side. *)
LEMMA CatEmpty ==
    ASSUME NEW T, NEW a \in Seq(T)
    PROVE  Cat(a, <<>>) = a /\ Cat(<<>>, a) = a
PROOF BY DEF Cat

(* In threes. *)
LEMMA CatAssociative ==
    ASSUME NEW T, NEW a \in Seq(T), NEW b \in Seq(T), NEW c \in Seq(T)
    PROVE  Cat(Cat(a, b), c) = Cat(a, Cat(b, c))
PROOF BY ConcatAssociative DEF Cat

-----------------------------------------------------------------------------
(* Loops over a sequence: `Kept` and `Joined` are functions on its prefixes. *)

(* A loop of n turns from b on, each of which takes V to V. *)
Turns(f, n, b, G) == f[0] = b /\ \A i \in 1 .. n : f[i] = G[<<i, f[i - 1]>>]

(* There is one. *)
LEMMA LoopExists ==
    ASSUME NEW n \in Nat, NEW V, NEW b \in V, NEW G \in [(1 .. n) \X V -> V]
    PROVE  \E f \in [0 .. n -> V] : Turns(f, n, b, G)
PROOF
  <1> DEFINE S == {m \in 0 .. n : \E f \in [0 .. m -> V] : Turns(f, m, b, G)}
  <1>1. 0 \in S
    <2> DEFINE g == [i \in 0 .. 0 |-> b]
    <2>1. g \in [0 .. 0 -> V] /\ Turns(g, 0, b, G)
      BY DEF Turns
    <2> HIDE DEF g
    <2> QED BY <2>1
  <1>2. ASSUME NEW m \in 0 .. n, m \in S, m < n PROVE m + 1 \in S
    <2>1. PICK f \in [0 .. m -> V] : Turns(f, m, b, G)
      BY <1>2
    <2> DEFINE g == [i \in 0 .. m + 1 |-> IF i = m + 1 THEN G[<<m + 1, f[m]>>] ELSE f[i]]
    <2>2. G[<<m + 1, f[m]>>] \in V
      BY <1>2
    <2>3. g \in [0 .. m + 1 -> V]
      BY <2>2
    <2>4. g[0] = b
      BY <2>1 DEF Turns
    <2>5. ASSUME NEW i \in 1 .. m + 1 PROVE g[i] = G[<<i, g[i - 1]>>]
      <3>1. CASE i = m + 1
        <4>1. i - 1 = m /\ m \in 0 .. m + 1 /\ m # m + 1
          BY <3>1
        <4>2. g[m] = f[m]
          BY <4>1
        <4>3. g[m + 1] = G[<<m + 1, f[m]>>]
          OBVIOUS
        <4> HIDE DEF g
        <4> QED BY <3>1, <4>1, <4>2, <4>3
      <3>2. CASE i # m + 1
        <4>1. i \in 1 .. m /\ i - 1 \in 0 .. m /\ g[i] = f[i] /\ g[i - 1] = f[i - 1]
          BY <3>2
        <4> HIDE DEF g
        <4> QED BY <2>1, <4>1 DEF Turns
      <3> QED BY <3>1, <3>2
    <2>6. Turns(g, m + 1, b, G)
      BY <2>4, <2>5 DEF Turns
    <2>7. m + 1 \in 0 .. n
      BY <1>2
    <2> HIDE DEF g
    <2> QED BY <2>3, <2>6, <2>7
  <1>3. \A m \in 0 .. n : m \in S /\ m < n => m + 1 \in S
    BY <1>2
  <1>4. n \in S
    <2> HIDE DEF S
    <2>1. 0 .. n \subseteq S
      BY <1>1, <1>3, UpTo
    <2> QED BY <2>1
  <1> QED BY <1>4

(* Two loops that take the same turns up to m are the same up to there. *)
LEMMA LoopUnique ==
    ASSUME NEW m \in Nat, NEW f, NEW g, f[0] = g[0],
           \A i \in 1 .. m : f[i - 1] = g[i - 1] => f[i] = g[i]
    PROVE  f[m] = g[m]
PROOF
  <1> DEFINE S == {i \in 0 .. m : f[i] = g[i]}
  <1>1. 0 \in S
    OBVIOUS
  <1>2. ASSUME NEW k \in 0 .. m, k \in S, k < m PROVE k + 1 \in S
    <2>1. k + 1 \in 1 .. m /\ k + 1 \in 0 .. m /\ (k + 1) - 1 = k
      BY <1>2
    <2> QED BY <1>2, <2>1
  <1>3. \A k \in 0 .. m : k \in S /\ k < m => k + 1 \in S
    BY <1>2
  <1>4. 0 .. m \subseteq S
    <2> HIDE DEF S
    <2> QED BY <1>1, <1>3, UpTo
  <1> QED BY <1>4

(* The turns of Kept. *)
KeptTurn(s, S, i, r) == IF s[i] \in S THEN Append(r, s[i]) ELSE r

\* The loop, by its results after each turn.
KeptLoopOf(f, s, S) ==
    /\ f[0] = <<>>
    /\ \A i \in 1 .. Len(s) : f[i] = KeptTurn(s, S, i, f[i - 1])
    /\ Kept(s, S) = f[Len(s)]

(* Kept is what its loop makes of the sequence. *)
LEMMA KeptLoop ==
    ASSUME NEW T, NEW s \in Seq(T), NEW S
    PROVE  \E f \in [0 .. Len(s) -> Seq(T)] : KeptLoopOf(f, s, S)
PROOF
  <1> DEFINE n == Len(s)
             V == Seq(T)
             G == [p \in (1 .. n) \X V |-> KeptTurn(s, S, p[1], p[2])]
             P(f) == f = [i \in 0 .. Len(s) |->
                            IF i = 0 THEN <<>>
                            ELSE IF s[i] \in S THEN Append(f[i - 1], s[i]) ELSE f[i - 1]]
             kept == CHOOSE f : P(f)
  <1>1. n \in Nat /\ <<>> \in V
    OBVIOUS
  <1>2. G \in [(1 .. n) \X V -> V]
    <2>1. ASSUME NEW i \in 1 .. n, NEW r \in V PROVE KeptTurn(s, S, i, r) \in V
      BY DEF KeptTurn
    <2> QED BY <2>1
  <1>3. PICK f \in [0 .. n -> V] : Turns(f, n, <<>>, G)
    <2> HIDE DEF G, V, n
    <2> QED BY <1>1, <1>2, LoopExists
  <1>4. \A i \in 1 .. n : f[i] = KeptTurn(s, S, i, f[i - 1])
    <2> SUFFICES ASSUME NEW i \in 1 .. n PROVE f[i] = KeptTurn(s, S, i, f[i - 1])
      OBVIOUS
    <2>1. i - 1 \in 0 .. n
      OBVIOUS
    <2>2. f[i] = G[<<i, f[i - 1]>>] /\ f[i - 1] \in V
      BY <1>3, <2>1 DEF Turns
    <2> QED BY <2>2
  <1>5. P(f)
    <2>1. f[0] = <<>>
      BY <1>3 DEF Turns
    <2>2. \A i \in 1 .. n : f[i] = IF s[i] \in S THEN Append(f[i - 1], s[i]) ELSE f[i - 1]
      BY <1>4 DEF KeptTurn
    <2>3. \A i \in 0 .. n : f[i] = IF i = 0 THEN <<>>
                                  ELSE IF s[i] \in S THEN Append(f[i - 1], s[i]) ELSE f[i - 1]
      <3> TAKE i \in 0 .. n
      <3>1. CASE i = 0
        BY <2>1, <3>1
      <3>2. CASE i # 0
        <4>1. i \in 1 .. n
          BY <3>2
        <4> QED BY <2>2, <3>2, <4>1
      <3> QED BY <3>1, <3>2
    <2> QED BY <2>3
  <1>6. P(kept)
    <2> HIDE DEF P
    <2> QED BY <1>5
  <1>7. kept[n] = f[n]
    <2>1. ASSUME NEW h, P(h)
          PROVE  h[0] = <<>> /\ \A i \in 1 .. n : h[i] = KeptTurn(s, S, i, h[i - 1])
      <3>1. h[0] = <<>>
        BY <1>1, <2>1
      <3>2. ASSUME NEW i \in 1 .. n PROVE h[i] = KeptTurn(s, S, i, h[i - 1])
        <4>1. i \in 0 .. n /\ i # 0
          OBVIOUS
        <4> QED BY <2>1, <4>1 DEF KeptTurn
      <3> QED BY <3>1, <3>2
    <2>2. kept[0] = f[0] /\ \A i \in 1 .. n : kept[i - 1] = f[i - 1] => kept[i] = f[i]
      <3> HIDE DEF kept, P
      <3> QED BY <1>5, <1>6, <2>1
    <2> HIDE DEF P, kept, n
    <2> QED BY <1>1, <2>2, LoopUnique
  <1>8. Kept(s, S) = kept[n]
    BY DEF Kept
  <1>9. f[0] = <<>>
    BY <1>3 DEF Turns
  <1> HIDE DEF kept, P
  <1> QED BY <1>3, <1>4, <1>7, <1>8, <1>9 DEF KeptLoopOf

(* Of nothing, nothing is kept. *)
LEMMA KeptEmpty ==
    ASSUME NEW S
    PROVE  Kept(<<>>, S) = <<>>
PROOF
  <1>1. <<>> \in Seq({}) /\ Len(<<>>) = 0
    OBVIOUS
  <1>2. PICK f \in [0 .. Len(<<>>) -> Seq({})] : KeptLoopOf(f, <<>>, S)
    BY <1>1, KeptLoop
  <1> QED BY <1>1, <1>2 DEF KeptLoopOf

(* Nothing but elements of the sequence that are in the set, and no more. *)
LEMMA KeptType ==
    ASSUME NEW T, NEW s \in Seq(T), NEW S
    PROVE  Kept(s, S) \in Seq(T \cap S) /\ Len(Kept(s, S)) <= Len(s)
PROOF
  <1>0. Len(s) \in Nat
    OBVIOUS
  <1>1. PICK f \in [0 .. Len(s) -> Seq(T)] : KeptLoopOf(f, s, S)
    BY KeptLoop
  <1>1a. f[0] = <<>> /\ (\A i \in 1 .. Len(s) : f[i] = KeptTurn(s, S, i, f[i - 1])) /\ Kept(s, S) = f[Len(s)]
    BY <1>1 DEF KeptLoopOf
  <1> DEFINE R == {i \in 0 .. Len(s) : f[i] \in Seq(T \cap S) /\ Len(f[i]) <= i}
  <1>2. 0 \in R
    BY <1>1, <1>1a
  <1>3. ASSUME NEW i \in 0 .. Len(s), i \in R, i < Len(s) PROVE i + 1 \in R
    <2>1. i + 1 \in 1 .. Len(s) /\ (i + 1) - 1 = i /\ i + 1 \in 0 .. Len(s)
      BY <1>3
    <2>2. f[i + 1] = KeptTurn(s, S, i + 1, f[i]) /\ s[i + 1] \in T
      BY <1>1, <1>1a, <2>1
    <2>3. f[i] \in Seq(T \cap S) /\ Len(f[i]) <= i
      BY <1>3
    <2>4. f[i + 1] \in Seq(T \cap S) /\ Len(f[i + 1]) <= i + 1
      <3>1. CASE s[i + 1] \in S
        <4>1. f[i + 1] = Append(f[i], s[i + 1]) /\ s[i + 1] \in T \cap S
          BY <2>2, <3>1 DEF KeptTurn
        <4> QED BY <2>3, <4>1
      <3>2. CASE s[i + 1] \notin S
        BY <2>2, <2>3, <3>2 DEF KeptTurn
      <3> QED BY <3>1, <3>2
    <2> QED BY <2>1, <2>4
  <1>4. 0 .. Len(s) \subseteq R
    <2>1. \A i \in 0 .. Len(s) : i \in R /\ i < Len(s) => i + 1 \in R
      BY <1>3
    <2> HIDE DEF R
    <2> QED BY <1>0, <1>2, <2>1, UpTo
  <1> QED BY <1>1, <1>1a, <1>4

(* One more element. *)
LEMMA KeptAppend ==
    ASSUME NEW T, NEW s \in Seq(T), NEW x \in T, NEW S
    PROVE  Kept(Append(s, x), S) = IF x \in S THEN Append(Kept(s, S), x) ELSE Kept(s, S)
PROOF
  <1> DEFINE n == Len(s)
             a == Append(s, x)
  <1>0. a \in Seq(T) /\ Len(a) = n + 1 /\ n \in Nat /\ a[n + 1] = x /\ \A i \in 1 .. n : a[i] = s[i]
    OBVIOUS
  <1>1. PICK f \in [0 .. n -> Seq(T)] : KeptLoopOf(f, s, S)
    BY KeptLoop
  <1>1a. f[0] = <<>> /\ (\A i \in 1 .. n : f[i] = KeptTurn(s, S, i, f[i - 1])) /\ Kept(s, S) = f[n]
    BY <1>0, <1>1 DEF KeptLoopOf
  <1> HIDE DEF a
  <1>2. PICK g \in [0 .. n + 1 -> Seq(T)] : KeptLoopOf(g, a, S)
    BY <1>0, KeptLoop
  <1>2a. g[0] = <<>> /\ (\A i \in 1 .. n + 1 : g[i] = KeptTurn(a, S, i, g[i - 1])) /\ Kept(a, S) = g[n + 1]
    BY <1>0, <1>2 DEF KeptLoopOf
  <1>3. f[0] = g[0] /\ \A i \in 1 .. n : f[i - 1] = g[i - 1] => f[i] = g[i]
    <2> SUFFICES ASSUME NEW i \in 1 .. n, f[i - 1] = g[i - 1] PROVE f[i] = g[i]
      BY <1>1, <1>1a, <1>2, <1>2a
    <2>1. i \in 1 .. n + 1 /\ a[i] = s[i]
      BY <1>0
    <2> QED BY <1>1, <1>1a, <1>2, <1>2a, <2>1 DEF KeptTurn
  <1>4. f[n] = g[n]
    <2> HIDE DEF n
    <2> QED BY <1>0, <1>3, LoopUnique
  <1>5. g[n + 1] = KeptTurn(a, S, n + 1, g[n])
    <2>1. n + 1 \in 1 .. n + 1 /\ (n + 1) - 1 = n
      BY <1>0
    <2> QED BY <1>2, <1>2a, <2>1
  <1>6. Kept(a, S) = IF x \in S THEN Append(Kept(s, S), x) ELSE Kept(s, S)
    BY <1>0, <1>1, <1>1a, <1>2, <1>2a, <1>4, <1>5 DEF KeptTurn
  <1> QED BY <1>6 DEF a

(* What is all in the set is kept. *)
LEMMA KeptAll ==
    ASSUME NEW S, NEW s \in Seq(S)
    PROVE  Kept(s, S) = s
PROOF
  <1>0. Len(s) \in Nat
    OBVIOUS
  <1>1. PICK f \in [0 .. Len(s) -> Seq(S)] : KeptLoopOf(f, s, S)
    BY KeptLoop
  <1>1a. f[0] = <<>> /\ (\A i \in 1 .. Len(s) : f[i] = KeptTurn(s, S, i, f[i - 1])) /\ Kept(s, S) = f[Len(s)]
    BY <1>1 DEF KeptLoopOf
  <1> DEFINE R == {i \in 0 .. Len(s) : Len(f[i]) = i /\ \A j \in 1 .. i : f[i][j] = s[j]}
  <1>2. 0 \in R
    BY <1>1, <1>1a
  <1>3. ASSUME NEW i \in 0 .. Len(s), i \in R, i < Len(s) PROVE i + 1 \in R
    <2>1. i + 1 \in 1 .. Len(s) /\ (i + 1) - 1 = i /\ i + 1 \in 0 .. Len(s)
      BY <1>3
    <2>0. s[i + 1] \in S /\ f[i] \in Seq(S) /\ f[i + 1] = KeptTurn(s, S, i + 1, f[i])
      BY <1>1a, <2>1
    <2>2. f[i + 1] = Append(f[i], s[i + 1]) /\ f[i] \in Seq(S) /\ s[i + 1] \in S
      BY <2>0 DEF KeptTurn
    <2>3. Len(f[i + 1]) = i + 1 /\ \A j \in 1 .. i + 1 : f[i + 1][j] = s[j]
      BY <1>3, <2>2
    <2> QED BY <2>1, <2>3
  <1>4. Len(s) \in R
    <2>1. \A i \in 0 .. Len(s) : i \in R /\ i < Len(s) => i + 1 \in R
      BY <1>3
    <2>2. 0 .. Len(s) \subseteq R
      <3> HIDE DEF R
      <3> QED BY <1>0, <1>2, <2>1, UpTo
    <2> QED BY <2>2
  <1>5. f[Len(s)] \in Seq(S) /\ Len(f[Len(s)]) = Len(s)
        /\ \A j \in 1 .. Len(s) : f[Len(s)][j] = s[j]
    BY <1>4
  <1>6. f[Len(s)] = s
    BY <1>5, SeqEqual
  <1> QED BY <1>1, <1>1a, <1>6

(* Of two sequences in a row, first the one's, then the other's. *)
LEMMA KeptConcat ==
    ASSUME NEW T, NEW a \in Seq(T), NEW b \in Seq(T), NEW S
    PROVE  Kept(Cat(a, b), S) = Cat(Kept(a, S), Kept(b, S))
PROOF
  <1> DEFINE n == Len(a)
             m == Len(b)
             c == Cat(a, b)
  <1>0. /\ c \in Seq(T) /\ Len(c) = n + m /\ n \in Nat /\ m \in Nat
        /\ \A i \in 1 .. n : c[i] = a[i]
        /\ \A i \in 1 .. m : c[n + i] = b[i]
    <2>1. c \in Seq(T) /\ Len(c) = n + m
      BY CatType
    <2>2. (\A i \in 1 .. n : c[i] = a[i]) /\ (\A i \in 1 .. m : c[n + i] = b[i])
      BY CatElements
    <2>3. n \in Nat /\ m \in Nat
      OBVIOUS
    <2> HIDE DEF n, m, c
    <2> QED BY <2>1, <2>2, <2>3
  <1>1. PICK f \in [0 .. n -> Seq(T)] : KeptLoopOf(f, a, S)
    BY KeptLoop
  <1>1a. f[0] = <<>> /\ (\A i \in 1 .. n : f[i] = KeptTurn(a, S, i, f[i - 1])) /\ Kept(a, S) = f[n]
    BY <1>0, <1>1 DEF KeptLoopOf
  <1>2. PICK g \in [0 .. m -> Seq(T)] : KeptLoopOf(g, b, S)
    BY KeptLoop
  <1>2a. g[0] = <<>> /\ (\A i \in 1 .. m : g[i] = KeptTurn(b, S, i, g[i - 1])) /\ Kept(b, S) = g[m]
    BY <1>0, <1>2 DEF KeptLoopOf
  <1> HIDE DEF c
  <1>3. PICK h \in [0 .. n + m -> Seq(T)] : KeptLoopOf(h, c, S)
    BY <1>0, KeptLoop
  <1>3a. h[0] = <<>> /\ (\A i \in 1 .. n + m : h[i] = KeptTurn(c, S, i, h[i - 1])) /\ Kept(c, S) = h[n + m]
    BY <1>0, <1>3 DEF KeptLoopOf
  <1>4. f[0] = h[0] /\ \A i \in 1 .. n : f[i - 1] = h[i - 1] => f[i] = h[i]
    <2> SUFFICES ASSUME NEW i \in 1 .. n, f[i - 1] = h[i - 1] PROVE f[i] = h[i]
      BY <1>1, <1>1a, <1>3, <1>3a
    <2>1. i \in 1 .. n + m /\ c[i] = a[i]
      BY <1>0
    <2> QED BY <1>1, <1>1a, <1>3, <1>3a, <2>1 DEF KeptTurn
  <1>5. f[n] = h[n]
    <2> HIDE DEF n
    <2> QED BY <1>0, <1>4, LoopUnique
  <1> DEFINE R == {i \in 0 .. m : h[n + i] = Cat(f[n], g[i])}
  <1>6. 0 \in R
    <2>0. f[n] \in Seq(T)
      <3>1. n \in 0 .. n
        BY <1>0
      <3> HIDE DEF n
      <3> QED BY <3>1
    <2>1. Cat(f[n], <<>>) = f[n] /\ n + 0 = n
      <3>1. Cat(f[n], <<>>) = f[n]
        BY <2>0, CatEmpty
      <3> QED BY <1>0, <3>1
    <2>2. 0 \in 0 .. m
      BY <1>0
    <2>3. h[n + 0] = Cat(f[n], g[0])
      BY <1>2a, <1>5, <2>1
    <2> QED BY <2>2, <2>3
  <1>7. ASSUME NEW i \in 0 .. m, i \in R, i < m PROVE i + 1 \in R
    <2>1. /\ i + 1 \in 1 .. m /\ (i + 1) - 1 = i /\ i + 1 \in 0 .. m /\ n + (i + 1) \in 1 .. n + m
          /\ (n + (i + 1)) - 1 = n + i
      BY <1>0, <1>7
    <2>2. h[n + (i + 1)] = KeptTurn(c, S, n + (i + 1), h[n + i])
      BY <1>3, <1>3a, <2>1
    <2>3. g[i + 1] = KeptTurn(b, S, i + 1, g[i]) /\ g[i] \in Seq(T) /\ f[n] \in Seq(T)
      BY <1>0, <1>1, <1>1a, <1>2, <1>2a, <2>1
    <2>4. c[n + (i + 1)] = b[i + 1] /\ b[i + 1] \in T
      BY <1>0, <2>1
    <2>5. h[n + i] = Cat(f[n], g[i])
      BY <1>7
    <2>6. Append(Cat(f[n], g[i]), b[i + 1]) = Cat(f[n], Append(g[i], b[i + 1]))
      <3> DEFINE u == f[n]
                 v == g[i]
                 y == b[i + 1]
      <3>1. u \in Seq(T) /\ v \in Seq(T) /\ y \in T
        BY <2>3, <2>4
      <3> HIDE DEF u, v, y
      <3>2. Append(Cat(u, v), y) = Cat(u, Append(v, y))
        BY <3>1, CatAppend
      <3> QED BY <3>2 DEF u, v, y
    <2>7. h[n + (i + 1)] = Cat(f[n], g[i + 1])
      BY <2>2, <2>3, <2>4, <2>5, <2>6 DEF KeptTurn
    <2> QED BY <2>1, <2>7
  <1>8. m \in R
    <2>1. \A i \in 0 .. m : i \in R /\ i < m => i + 1 \in R
      BY <1>7
    <2>2. 0 .. m \subseteq R
      <3> HIDE DEF R, m
      <3> QED BY <1>0, <1>6, <2>1, UpTo
    <2>3. m \in 0 .. m
      BY <1>0
    <2> QED BY <2>2, <2>3
  <1>9. Kept(c, S) = Cat(Kept(a, S), Kept(b, S))
    BY <1>1, <1>1a, <1>2, <1>2a, <1>3, <1>3a, <1>8
  <1> QED BY <1>9 DEF c

-----------------------------------------------------------------------------
(* `Joined` likewise.                                                      *)
\* A turn of Joined.
JoinedTurn(parts, separator, i, r) ==
    IF i = 1 THEN parts[1] ELSE Cat(Cat(r, separator), parts[i])

\* The loop, by its results after each turn.
JoinedLoopOf(f, parts, separator) ==
    /\ f[0] = <<>>
    /\ \A i \in 1 .. Len(parts) : f[i] = JoinedTurn(parts, separator, i, f[i - 1])
    /\ Joined(parts, separator) = f[Len(parts)]

(* Joined is what its loop makes of the parts. *)
LEMMA JoinedLoop ==
    ASSUME NEW T, NEW parts \in Seq(Seq(T)), NEW separator \in Seq(T)
    PROVE  \E f \in [0 .. Len(parts) -> Seq(T)] : JoinedLoopOf(f, parts, separator)
PROOF
  <1> DEFINE n == Len(parts)
             V == Seq(T)
             G == [p \in (1 .. n) \X V |-> JoinedTurn(parts, separator, p[1], p[2])]
             P(f) == f = [i \in 0 .. Len(parts) |->
                            IF i = 0 THEN <<>>
                            ELSE IF i = 1 THEN parts[1] ELSE f[i - 1] \o separator \o parts[i]]
             joined == CHOOSE f : P(f)
  <1>1. n \in Nat /\ <<>> \in V
    OBVIOUS
  <1>2. G \in [(1 .. n) \X V -> V]
    <2>1. ASSUME NEW i \in 1 .. n, NEW r \in V PROVE JoinedTurn(parts, separator, i, r) \in V
      <3>1. parts[i] \in Seq(T)
        OBVIOUS
      <3>2. Cat(r, separator) \in Seq(T)
        BY CatType
      <3>3. Cat(Cat(r, separator), parts[i]) \in Seq(T)
        BY <3>1, <3>2, CatType
      <3>4. CASE i = 1
        BY <3>1, <3>4 DEF JoinedTurn
      <3>5. CASE i # 1
        BY <3>3, <3>5 DEF JoinedTurn
      <3> QED BY <3>4, <3>5
    <2> HIDE DEF V
    <2> QED BY <2>1
  <1>3. PICK f \in [0 .. n -> V] : Turns(f, n, <<>>, G)
    <2> HIDE DEF G, V, n
    <2> QED BY <1>1, <1>2, LoopExists
  <1>4. \A i \in 1 .. n : f[i] = JoinedTurn(parts, separator, i, f[i - 1])
    <2> SUFFICES ASSUME NEW i \in 1 .. n PROVE f[i] = JoinedTurn(parts, separator, i, f[i - 1])
      OBVIOUS
    <2>1. i - 1 \in 0 .. n
      OBVIOUS
    <2> HIDE DEF V
    <2>2. f[i] = G[<<i, f[i - 1]>>] /\ f[i - 1] \in V
      BY <1>3, <2>1 DEF Turns
    <2> QED BY <2>2
  <1>5. P(f)
    <2>1. f[0] = <<>>
      BY <1>3 DEF Turns
    <2>2. \A i \in 1 .. n : f[i] = IF i = 1 THEN parts[1] ELSE f[i - 1] \o separator \o parts[i]
      BY <1>4 DEF JoinedTurn, Cat
    <2>3. \A i \in 0 .. n : f[i] = IF i = 0 THEN <<>>
                          ELSE IF i = 1 THEN parts[1] ELSE f[i - 1] \o separator \o parts[i]
      <3> TAKE i \in 0 .. n
      <3>1. CASE i = 0
        BY <2>1, <3>1
      <3>2. CASE i # 0
        <4>1. i \in 1 .. n
          BY <3>2
        <4> QED BY <2>2, <3>2, <4>1
      <3> QED BY <3>1, <3>2
    <2> QED BY <2>3
  <1>6. P(joined)
    <2> HIDE DEF P
    <2> QED BY <1>5
  <1>7. joined[n] = f[n]
    <2>1. ASSUME NEW h, P(h)
          PROVE  h[0] = <<>> /\ \A i \in 1 .. n : h[i] = JoinedTurn(parts, separator, i, h[i - 1])
      <3>1. h[0] = <<>>
        BY <1>1, <2>1
      <3>2. ASSUME NEW i \in 1 .. n PROVE h[i] = JoinedTurn(parts, separator, i, h[i - 1])
        <4>1. i \in 0 .. n /\ i # 0
          OBVIOUS
        <4>2. h[i] = IF i = 1 THEN parts[1] ELSE h[i - 1] \o separator \o parts[i]
          BY <2>1, <4>1
        <4> QED BY <4>2 DEF JoinedTurn, Cat
      <3> QED BY <3>1, <3>2
    <2>2. joined[0] = f[0] /\ \A i \in 1 .. n : joined[i - 1] = f[i - 1] => joined[i] = f[i]
      <3> HIDE DEF joined, P
      <3> QED BY <1>5, <1>6, <2>1
    <2> HIDE DEF P, joined, n
    <2> QED BY <1>1, <2>2, LoopUnique
  <1>8. Joined(parts, separator) = joined[n]
    BY DEF Joined
  <1>9. f[0] = <<>>
    BY <1>3 DEF Turns
  <1> HIDE DEF joined, P
  <1> QED BY <1>3, <1>4, <1>7, <1>8, <1>9 DEF JoinedLoopOf

(* Parts of the same kind make one of that kind. *)
LEMMA JoinedType ==
    ASSUME NEW T, NEW parts \in Seq(Seq(T)), NEW separator \in Seq(T)
    PROVE  Joined(parts, separator) \in Seq(T)
PROOF
  <1>1. PICK f \in [0 .. Len(parts) -> Seq(T)] : JoinedLoopOf(f, parts, separator)
    BY JoinedLoop
  <1>2. Len(parts) \in 0 .. Len(parts)
    OBVIOUS
  <1> QED BY <1>1, <1>2 DEF JoinedLoopOf

(* No parts, nothing. *)
LEMMA JoinedEmpty ==
    ASSUME NEW T, NEW separator \in Seq(T)
    PROVE  Joined(<<>>, separator) = <<>>
PROOF
  <1>1. <<>> \in Seq(Seq(T)) /\ Len(<<>>) = 0
    OBVIOUS
  <1>2. PICK f \in [0 .. Len(<<>>) -> Seq(T)] : JoinedLoopOf(f, <<>>, separator)
    BY <1>1, JoinedLoop
  <1> QED BY <1>1, <1>2 DEF JoinedLoopOf

(* One more part. *)
LEMMA JoinedAppend ==
    ASSUME NEW T, NEW parts \in Seq(Seq(T)), NEW x \in Seq(T), NEW separator \in Seq(T)
    PROVE  Joined(Append(parts, x), separator) =
              IF parts = <<>> THEN x ELSE Cat(Cat(Joined(parts, separator), separator), x)
PROOF
  <1> DEFINE n == Len(parts)
             a == Append(parts, x)
  <1>0. /\ a \in Seq(Seq(T)) /\ Len(a) = n + 1 /\ n \in Nat /\ a[n + 1] = x
        /\ \A i \in 1 .. n : a[i] = parts[i]
    OBVIOUS
  <1>1. PICK f \in [0 .. n -> Seq(T)] : JoinedLoopOf(f, parts, separator)
    BY JoinedLoop
  <1>1a. /\ f[0] = <<>> /\ Joined(parts, separator) = f[n]
         /\ \A i \in 1 .. n : f[i] = JoinedTurn(parts, separator, i, f[i - 1])
    BY <1>1 DEF JoinedLoopOf
  <1> HIDE DEF a
  <1>2. PICK g \in [0 .. n + 1 -> Seq(T)] : JoinedLoopOf(g, a, separator)
    BY <1>0, JoinedLoop
  <1>2a. /\ g[0] = <<>> /\ Joined(a, separator) = g[n + 1]
         /\ \A i \in 1 .. n + 1 : g[i] = JoinedTurn(a, separator, i, g[i - 1])
    BY <1>0, <1>2 DEF JoinedLoopOf
  <1>3. f[0] = g[0] /\ \A i \in 1 .. n : f[i - 1] = g[i - 1] => f[i] = g[i]
    <2> SUFFICES ASSUME NEW i \in 1 .. n, f[i - 1] = g[i - 1] PROVE f[i] = g[i]
      BY <1>1a, <1>2a
    <2>1. i \in 1 .. n + 1 /\ a[i] = parts[i] /\ 1 \in 1 .. n
      BY <1>0
    <2>2. a[1] = parts[1]
      BY <1>0, <2>1
    <2> QED BY <1>1a, <1>2a, <2>1, <2>2 DEF JoinedTurn
  <1>4. f[n] = g[n]
    <2> HIDE DEF n
    <2> QED BY <1>0, <1>3, LoopUnique
  <1>5. g[n + 1] = JoinedTurn(a, separator, n + 1, g[n])
    <2>1. n + 1 \in 1 .. n + 1 /\ (n + 1) - 1 = n
      BY <1>0
    <2> QED BY <1>2a, <2>1
  <1>6. parts = <<>> <=> n + 1 = 1
    <2>1. parts = <<>> <=> n = 0
      OBVIOUS
    <2> QED BY <1>0, <2>1
  <1>7. Joined(a, separator) = IF parts = <<>> THEN x ELSE Cat(Cat(Joined(parts, separator), separator), x)
    <2> HIDE DEF n
    <2>1. CASE n + 1 = 1
      BY <1>0, <1>2a, <1>5, <1>6, <2>1 DEF JoinedTurn
    <2>2. CASE n + 1 # 1
      BY <1>0, <1>1a, <1>2a, <1>4, <1>5, <1>6, <2>2 DEF JoinedTurn
    <2> QED BY <2>1, <2>2
  <1> QED BY <1>7 DEF a

(* Without a separator. *)
LEMMA JoinedFlat ==
    ASSUME NEW T, NEW parts \in Seq(Seq(T)), NEW x \in Seq(T)
    PROVE  Joined(Append(parts, x), <<>>) = Cat(Joined(parts, <<>>), x)
PROOF
  <1>0. <<>> \in Seq(T)
    OBVIOUS
  <1> DEFINE e == <<>>
  <1>1. Joined(parts, e) \in Seq(T)
    BY <1>0, JoinedType
  <1>2. Joined(Append(parts, x), e) = IF parts = <<>> THEN x ELSE Cat(Cat(Joined(parts, e), e), x)
    <2> HIDE DEF e
    <2> QED BY <1>0, JoinedAppend DEF e
  <1>3. CASE parts = <<>>
    <2>1. Joined(parts, e) = <<>>
      BY <1>0, <1>3, JoinedEmpty
    <2>2. Cat(<<>>, x) = x
      BY CatEmpty
    <2> QED BY <1>2, <1>3, <2>1, <2>2
  <1>4. CASE parts # <<>>
    <2>1. Cat(Joined(parts, e), e) = Joined(parts, e)
      BY <1>1, CatEmpty
    <2> QED BY <1>2, <1>4, <2>1
  <1> QED BY <1>3, <1>4

(* Without a separator the loop only concatenates. *)
LEMMA JoinedFlatLoop ==
    ASSUME NEW T, NEW parts \in Seq(Seq(T))
    PROVE  \E g \in [0 .. Len(parts) -> Seq(T)] :
              /\ g[0] = <<>> /\ Joined(parts, <<>>) = g[Len(parts)]
              /\ \A i \in 1 .. Len(parts) : g[i] = Cat(g[i - 1], parts[i])
PROOF
  <1> DEFINE e == <<>>
  <1>0. e \in Seq(T)
    OBVIOUS
  <1>1. PICK g \in [0 .. Len(parts) -> Seq(T)] : JoinedLoopOf(g, parts, e)
    <2> HIDE DEF e
    <2> QED BY <1>0, JoinedLoop
  <1>2. g[0] = <<>> /\ Joined(parts, <<>>) = g[Len(parts)]
    BY <1>1 DEF JoinedLoopOf
  <1>3. ASSUME NEW i \in 1 .. Len(parts) PROVE g[i] = Cat(g[i - 1], parts[i])
    <2>1. g[i] = JoinedTurn(parts, e, i, g[i - 1])
      BY <1>1 DEF JoinedLoopOf
    <2>2. g[i - 1] \in Seq(T) /\ parts[i] \in Seq(T)
      <3>1. i - 1 \in 0 .. Len(parts)
        OBVIOUS
      <3>2. g[i - 1] \in Seq(T)
        BY <3>1
      <3>3. parts[i] \in Seq(T)
        OBVIOUS
      <3> QED BY <3>2, <3>3
    <2>3. Cat(g[i - 1], e) = g[i - 1]
      BY <2>2, CatEmpty
    <2>4. CASE i = 1
      <3>1. g[i - 1] = <<>> /\ g[i] = parts[i]
        BY <1>2, <2>1, <2>4 DEF JoinedTurn
      <3>2. Cat(<<>>, parts[i]) = parts[i]
        BY <2>2, CatEmpty
      <3> QED BY <3>1, <3>2
    <2>5. CASE i # 1
      BY <2>1, <2>3, <2>5 DEF JoinedTurn
    <2> QED BY <2>4, <2>5
  <1> QED BY <1>2, <1>3

-----------------------------------------------------------------------------
(* What a rendering shows of the texts.                                    *)
\* What a rendering may consist of.
Markers == {"**", "_", "tick", "[", "](href)", "#", "fence", "-", "1.", ">", "---", "break",
            "newline", "blank line"}
Out == [text : Nat] \cup [marker : Markers]

\* The pieces of text in r are those of the text nodes, in their order.
Shows(r, texts) ==
    /\ r \in Seq(Out) /\ texts \in Seq(TextNodes)
    /\ Len(Kept(r, [text : Nat])) = Len(texts)
    /\ \A i \in 1 .. Len(texts) : Kept(r, [text : Nat])[i].text = texts[i].text

(* Nothing shows no text, *)
LEMMA ShowsNothing == Shows(<<>>, <<>>)
PROOF BY KeptEmpty DEF Shows

(* and no text else is shown by nothing. *)
LEMMA ShowsEmpty ==
    ASSUME NEW texts, Shows(<<>>, texts)
    PROVE  texts = <<>>
PROOF BY KeptEmpty DEF Shows

(* A marker shows no text. *)
LEMMA ShowsMarker ==
    ASSUME NEW m \in Markers
    PROVE  Shows(Marker(m), <<>>)
PROOF
  <1> DEFINE x == [marker |-> m]
  <1>1. x \in Out /\ x \notin [text : Nat]
    <2>1. DOMAIN x = {"marker"}
      OBVIOUS
    <2>2. \A y \in [text : Nat] : DOMAIN y = {"text"}
      OBVIOUS
    <2> QED BY <2>1, <2>2 DEF Out
  <1> HIDE DEF x
  <1>2. <<>> \in Seq(Out) /\ Append(<<>>, x) = <<x>> /\ <<x>> \in Seq(Out)
    BY <1>1
  <1>3. Kept(<<x>>, [text : Nat]) = <<>>
    <2>1. Kept(Append(<<>>, x), [text : Nat]) = Kept(<<>>, [text : Nat])
      BY <1>1, <1>2, KeptAppend
    <2> QED BY <1>2, <2>1, KeptEmpty
  <1>4. Marker(m) = <<x>>
    BY DEF Marker, x
  <1> QED BY <1>2, <1>3, <1>4 DEF Shows

(* The piece of a text node shows that node. *)
LEMMA ShowsPiece ==
    ASSUME NEW node \in TextNodes
    PROVE  Shows(Piece(node.text), <<node>>)
PROOF
  <1> DEFINE x == [text |-> node.text]
  <1>1. x \in Out /\ x \in [text : Nat] /\ x.text = node.text
    BY DEF Out, TextNodes
  <1> HIDE DEF x
  <1>2. <<>> \in Seq(Out) /\ Append(<<>>, x) = <<x>> /\ <<x>> \in Seq(Out)
    BY <1>1
  <1>3. Kept(<<x>>, [text : Nat]) = <<x>>
    <2>1. <<x>> \in Seq([text : Nat])
      BY <1>1
    <2> QED BY <2>1, KeptAll
  <1>4. Piece(node.text) = <<x>>
    BY DEF Piece, x
  <1>5. <<node>> \in Seq(TextNodes) /\ Len(<<node>>) = 1 /\ <<node>>[1] = node /\ Len(<<x>>) = 1 /\ <<x>>[1] = x
    OBVIOUS
  <1> QED BY <1>1, <1>2, <1>3, <1>4, <1>5 DEF Shows

(* Two renderings in a row show the texts of both. *)
LEMMA ShowsBoth ==
    ASSUME NEW r, NEW q, NEW t, NEW u, Shows(r, t), Shows(q, u)
    PROVE  Shows(Cat(r, q), Cat(t, u))
PROOF
  <1> DEFINE Kr == Kept(r, [text : Nat])
             Kq == Kept(q, [text : Nat])
             K == Kept(Cat(r, q), [text : Nat])
  <1>1. r \in Seq(Out) /\ q \in Seq(Out) /\ t \in Seq(TextNodes) /\ u \in Seq(TextNodes)
    BY DEF Shows
  <1>2. K = Cat(Kr, Kq)
    BY <1>1, KeptConcat
  <1>3. Kr \in Seq(Out) /\ Kq \in Seq(Out)
    <2>1. Kr \in Seq(Out \cap [text : Nat]) /\ Kq \in Seq(Out \cap [text : Nat])
      BY <1>1, KeptType
    <2> HIDE DEF Kr, Kq
    <2> QED BY <2>1
  <1>4. /\ Len(Kr) = Len(t) /\ \A i \in 1 .. Len(t) : Kr[i].text = t[i].text
        /\ Len(Kq) = Len(u) /\ \A i \in 1 .. Len(u) : Kq[i].text = u[i].text
    BY DEF Shows
  <1> HIDE DEF Kr, Kq, K
  <1>5. Cat(r, q) \in Seq(Out) /\ Cat(t, u) \in Seq(TextNodes)
    BY <1>1, CatType
  <1>6. Len(K) = Len(Kr) + Len(Kq)
    BY <1>2, <1>3, CatType
  <1>7. Len(Cat(t, u)) = Len(t) + Len(u)
    BY <1>1, CatType
  <1>8. /\ \A i \in 1 .. Len(Kr) : K[i] = Kr[i]
        /\ \A i \in 1 .. Len(Kq) : K[Len(Kr) + i] = Kq[i]
    BY <1>2, <1>3, CatElements
  <1>9. /\ \A i \in 1 .. Len(t) : Cat(t, u)[i] = t[i]
        /\ \A i \in 1 .. Len(u) : Cat(t, u)[Len(t) + i] = u[i]
    BY <1>1, CatElements
  <1>10. ASSUME NEW i \in 1 .. Len(Cat(t, u)) PROVE K[i].text = Cat(t, u)[i].text
    <2>0. Len(t) \in Nat /\ Len(u) \in Nat
      BY <1>1
    <2>1. CASE i <= Len(t)
      <3>1. i \in 1 .. Len(t)
        BY <1>7, <2>0, <2>1
      <3> QED BY <1>4, <1>8, <1>9, <3>1
    <2>2. CASE i > Len(t)
      <3>1. i - Len(t) \in 1 .. Len(u) /\ i = Len(t) + (i - Len(t))
        BY <1>7, <2>0, <2>2
      <3>2. K[i] = Kq[i - Len(t)]
        BY <1>4, <1>8, <3>1
      <3>3. Cat(t, u)[i] = u[i - Len(t)]
        BY <1>9, <3>1
      <3> QED BY <1>4, <3>1, <3>2, <3>3
    <2> QED BY <1>7, <2>0, <2>1, <2>2
  <1> QED BY <1>4, <1>5, <1>6, <1>7, <1>10 DEF Shows, K

(* Markers before and after show nothing. *)
LEMMA ShowsAfter ==
    ASSUME NEW r, NEW t, Shows(r, t), NEW m \in Markers
    PROVE  Shows(Cat(Marker(m), r), t)
PROOF
  <1>1. Shows(Cat(Marker(m), r), Cat(<<>>, t))
    BY ShowsMarker, ShowsBoth
  <1>2. t \in Seq(TextNodes)
    BY DEF Shows
  <1>3. Cat(<<>>, t) = t
    BY <1>2, CatEmpty
  <1> QED BY <1>1, <1>3

(* What shows no text may follow. *)
LEMMA ShowsBefore ==
    ASSUME NEW r, NEW t, Shows(r, t), NEW q, Shows(q, <<>>)
    PROVE  Shows(Cat(r, q), t)
PROOF
  <1>1. Shows(Cat(r, q), Cat(t, <<>>))
    BY ShowsBoth
  <1>2. t \in Seq(TextNodes)
    BY DEF Shows
  <1>3. Cat(t, <<>>) = t
    BY <1>2, CatEmpty
  <1> QED BY <1>1, <1>3

(* A marker on each side. *)
LEMMA ShowsWithin ==
    ASSUME NEW r, NEW t, Shows(r, t), NEW m \in Markers, NEW k \in Markers
    PROVE  Shows(Cat(Cat(Marker(m), r), Marker(k)), t)
PROOF
  <1>1. Shows(Cat(Marker(m), r), t)
    BY ShowsAfter
  <1> QED BY <1>1, ShowsMarker, ShowsBefore

(* A mark puts markers around what it is on. *)
LEMMA MarkShows ==
    ASSUME NEW r, NEW t, Shows(r, t), NEW mark \in MarkTags \cup {"code"}
    PROVE  Shows(WithMark(mark, r), t)
PROOF
  <1>1. CASE mark = "strong"
    <2> DEFINE a == "**"
               z == "**"
    <2>1. a \in Markers /\ z \in Markers
      BY DEF Markers
    <2>2. WithMark(mark, r) = Cat(Cat(Marker(a), r), Marker(z))
      BY <1>1 DEF WithMark, Cat
    <2> HIDE DEF a, z
    <2> QED BY <2>1, <2>2, ShowsWithin
  <1>2. CASE mark = "em"
    <2> DEFINE a == "_"
               z == "_"
    <2>1. a \in Markers /\ z \in Markers
      BY DEF Markers
    <2>2. WithMark(mark, r) = Cat(Cat(Marker(a), r), Marker(z))
      BY <1>2 DEF WithMark, Cat
    <2> HIDE DEF a, z
    <2> QED BY <2>1, <2>2, ShowsWithin
  <1>3. CASE mark = "code"
    <2> DEFINE a == "tick"
               z == "tick"
    <2>1. a \in Markers /\ z \in Markers
      BY DEF Markers
    <2>2. WithMark(mark, r) = Cat(Cat(Marker(a), r), Marker(z))
      BY <1>3 DEF WithMark, Cat
    <2> HIDE DEF a, z
    <2> QED BY <2>1, <2>2, ShowsWithin
  <1>4. CASE mark = "link"
    <2> DEFINE a == "["
               z == "](href)"
    <2>1. a \in Markers /\ z \in Markers
      BY DEF Markers
    <2>2. WithMark(mark, r) = Cat(Cat(Marker(a), r), Marker(z))
      BY <1>4 DEF WithMark, Cat
    <2> HIDE DEF a, z
    <2> QED BY <2>1, <2>2, ShowsWithin
  <1> QED BY <1>1, <1>2, <1>3, <1>4 DEF MarkTags

(* Marks around marks. *)
LEMMA MarksShow ==
    ASSUME NEW s, NEW t, Shows(s, t), NEW marks \in Seq(MarkTags \cup {"code"})
    PROVE  Shows(ApplyMarksReverse(s, marks), t)
PROOF
  <1> DEFINE n == Len(marks)
             V == {r \in Seq(Out) : Shows(r, t)}
             G == [p \in (1 .. n) \X V |-> WithMark(marks[n - p[1] + 1], p[2])]
             P(f) == f = [i \in 0 .. Len(marks) |->
                            IF i = 0 THEN s ELSE WithMark(marks[Len(marks) - i + 1], f[i - 1])]
             wrapped == CHOOSE f : P(f)
  <1>1. n \in Nat /\ s \in V
    BY DEF Shows
  <1>2. G \in [(1 .. n) \X V -> V]
    <2>1. ASSUME NEW i \in 1 .. n, NEW r \in V PROVE WithMark(marks[n - i + 1], r) \in V
      <3>1. n - i + 1 \in 1 .. n
        OBVIOUS
      <3>2. marks[n - i + 1] \in MarkTags \cup {"code"}
        BY <3>1
      <3>3. Shows(WithMark(marks[n - i + 1], r), t)
        BY <3>2, MarkShows
      <3> QED BY <3>3 DEF Shows
    <2> HIDE DEF V
    <2> QED BY <2>1
  <1>3. PICK f \in [0 .. n -> V] : Turns(f, n, s, G)
    <2> HIDE DEF G, V, n
    <2> QED BY <1>1, <1>2, LoopExists
  <1>4. f[0] = s /\ \A i \in 1 .. n : f[i] = WithMark(marks[n - i + 1], f[i - 1])
    <2>0. f[0] = s
      BY <1>3 DEF Turns
    <2>1. ASSUME NEW i \in 1 .. n PROVE f[i] = WithMark(marks[n - i + 1], f[i - 1])
      <3>1. i - 1 \in 0 .. n
        OBVIOUS
      <3> HIDE DEF V
      <3>2. f[i] = G[<<i, f[i - 1]>>] /\ f[i - 1] \in V
        BY <1>3, <3>1 DEF Turns
      <3> QED BY <3>2
    <2> QED BY <2>0, <2>1
  <1>5. P(f)
    <2>1. \A i \in 0 .. n : f[i] = IF i = 0 THEN s ELSE WithMark(marks[n - i + 1], f[i - 1])
      <3> TAKE i \in 0 .. n
      <3>1. CASE i = 0
        BY <1>4, <3>1
      <3>2. CASE i # 0
        <4>1. i \in 1 .. n
          BY <3>2
        <4> QED BY <1>4, <3>2, <4>1
      <3> QED BY <3>1, <3>2
    <2> QED BY <2>1
  <1>6. P(wrapped)
    <2> HIDE DEF P
    <2> QED BY <1>5
  <1>7. wrapped[n] = f[n]
    <2>1. ASSUME NEW h, P(h)
          PROVE  h[0] = s /\ \A i \in 1 .. n : h[i] = WithMark(marks[n - i + 1], h[i - 1])
      <3>1. h[0] = s
        BY <1>1, <2>1
      <3>2. ASSUME NEW i \in 1 .. n PROVE h[i] = WithMark(marks[n - i + 1], h[i - 1])
        <4>1. i \in 0 .. n /\ i # 0
          OBVIOUS
        <4> QED BY <2>1, <4>1
      <3> QED BY <3>1, <3>2
    <2>2. wrapped[0] = f[0] /\ \A i \in 1 .. n : wrapped[i - 1] = f[i - 1] => wrapped[i] = f[i]
      <3> HIDE DEF wrapped, P
      <3> QED BY <1>4, <1>6, <2>1
    <2> HIDE DEF P, wrapped, n
    <2> QED BY <1>1, <2>2, LoopUnique
  <1>8. ApplyMarksReverse(s, marks) = wrapped[n]
    BY DEF ApplyMarksReverse
  <1>9. f[n] \in V
    <2>1. n \in 0 .. n
      BY <1>1
    <2> HIDE DEF V, n
    <2> QED BY <2>1
  <1> HIDE DEF wrapped, P
  <1> QED BY <1>7, <1>8, <1>9

\* What part i of a document shows are its texts.
AllShow(parts, texts) ==
    /\ parts \in Seq(Seq(Out)) /\ texts \in Seq(Seq(TextNodes)) /\ Len(parts) = Len(texts)
    /\ \A i \in 1 .. Len(parts) : Shows(parts[i], texts[i])

(* Parts joined by markers show the texts of all. *)
LEMMA JoinedShows ==
    ASSUME NEW parts, NEW texts, AllShow(parts, texts), NEW separator, Shows(separator, <<>>)
    PROVE  Shows(Joined(parts, separator), Joined(texts, <<>>))
PROOF
  <1> DEFINE n == Len(parts)
  <1>0. /\ parts \in Seq(Seq(Out)) /\ texts \in Seq(Seq(TextNodes)) /\ separator \in Seq(Out)
        /\ n = Len(texts) /\ n \in Nat
    BY DEF AllShow, Shows
  <1>1. PICK f \in [0 .. n -> Seq(Out)] : JoinedLoopOf(f, parts, separator)
    BY <1>0, JoinedLoop
  <1>2. PICK g \in [0 .. n -> Seq(TextNodes)] :
              /\ g[0] = <<>> /\ Joined(texts, <<>>) = g[n]
              /\ \A i \in 1 .. n : g[i] = Cat(g[i - 1], texts[i])
    <2> HIDE DEF n
    <2>1. PICK g \in [0 .. Len(texts) -> Seq(TextNodes)] :
              /\ g[0] = <<>> /\ Joined(texts, <<>>) = g[Len(texts)]
              /\ \A i \in 1 .. Len(texts) : g[i] = Cat(g[i - 1], texts[i])
      BY <1>0, JoinedFlatLoop
    <2> QED BY <1>0, <2>1
  <1>3. /\ f[0] = <<>> /\ Joined(parts, separator) = f[n]
        /\ \A i \in 1 .. n : f[i] = JoinedTurn(parts, separator, i, f[i - 1])
    BY <1>1 DEF JoinedLoopOf
  <1>4. \A i \in 1 .. n : Shows(parts[i], texts[i])
    BY DEF AllShow
  <1> DEFINE R == {i \in 0 .. n : Shows(f[i], g[i])}
  <1> HIDE DEF n
  <1>5. 0 \in R
    BY <1>0, <1>2, <1>3, ShowsNothing
  <1>6. ASSUME NEW i \in 0 .. n, i \in R, i < n PROVE i + 1 \in R
    <2>1. i + 1 \in 1 .. n /\ (i + 1) - 1 = i /\ i + 1 \in 0 .. n
      BY <1>0, <1>6
    <2>2. f[i + 1] = JoinedTurn(parts, separator, i + 1, f[i]) /\ g[i + 1] = Cat(g[i], texts[i + 1])
      BY <1>2, <1>3, <2>1
    <2>3. Shows(f[i], g[i]) /\ Shows(parts[i + 1], texts[i + 1])
      BY <1>4, <1>6, <2>1
    <2>4. CASE i = 0
      <3>1. f[i + 1] = parts[i + 1]
        BY <2>2, <2>4 DEF JoinedTurn
      <3>2. texts[i + 1] \in Seq(TextNodes)
        BY <2>3 DEF Shows
      <3>3. Cat(<<>>, texts[i + 1]) = texts[i + 1]
        BY <3>2, CatEmpty
      <3>4. g[i + 1] = texts[i + 1]
        BY <1>2, <2>2, <2>4, <3>3
      <3> QED BY <2>1, <2>3, <3>1, <3>4
    <2>5. CASE i # 0
      <3>1. f[i + 1] = Cat(Cat(f[i], separator), parts[i + 1])
        <4>1. i + 1 # 1
          BY <2>5
        <4> QED BY <2>2, <4>1 DEF JoinedTurn
      <3>2. Shows(Cat(f[i], separator), g[i])
        BY <2>3, ShowsBefore
      <3>3. Shows(f[i + 1], g[i + 1])
        BY <2>2, <2>3, <3>1, <3>2, ShowsBoth
      <3> QED BY <2>1, <3>3
    <2> QED BY <2>4, <2>5
  <1>7. n \in R
    <2>1. \A i \in 0 .. n : i \in R /\ i < n => i + 1 \in R
      BY <1>6
    <2>2. 0 .. n \subseteq R
      <3> HIDE DEF R
      <3> QED BY <1>0, <1>5, <2>1, UpTo
    <2>3. n \in 0 .. n
      BY <1>0
    <2> QED BY <2>2, <2>3
  <1> QED BY <1>2, <1>3, <1>7

(* So do they without the empty ones. *)
LEMMA KeptShows ==
    ASSUME NEW parts, NEW texts, AllShow(parts, texts), NEW separator, Shows(separator, <<>>)
    PROVE  Shows(Joined(Kept(parts, Range(parts) \ {<<>>}), separator), Joined(texts, <<>>))
PROOF
  <1> DEFINE n == Len(parts)
             S == Range(parts) \ {<<>>}
             T == Seq(Out)
  <1>0. /\ parts \in Seq(T) /\ texts \in Seq(Seq(TextNodes)) /\ separator \in Seq(Out)
        /\ n = Len(texts) /\ n \in Nat
    BY DEF AllShow, Shows
  <1>1. PICK f \in [0 .. n -> Seq(T)] : KeptLoopOf(f, parts, S)
    <2> HIDE DEF S, T
    <2> QED BY <1>0, KeptLoop
  <1>2. PICK g \in [0 .. n -> Seq(TextNodes)] :
              /\ g[0] = <<>> /\ Joined(texts, <<>>) = g[n]
              /\ \A i \in 1 .. n : g[i] = Cat(g[i - 1], texts[i])
    <2> HIDE DEF n
    <2>1. PICK g \in [0 .. Len(texts) -> Seq(TextNodes)] :
              /\ g[0] = <<>> /\ Joined(texts, <<>>) = g[Len(texts)]
              /\ \A i \in 1 .. Len(texts) : g[i] = Cat(g[i - 1], texts[i])
      BY <1>0, JoinedFlatLoop
    <2> QED BY <1>0, <2>1
  <1>3. /\ f[0] = <<>> /\ Kept(parts, S) = f[n]
        /\ \A i \in 1 .. n : f[i] = KeptTurn(parts, S, i, f[i - 1])
    BY <1>1 DEF KeptLoopOf
  <1>4. \A i \in 1 .. n : Shows(parts[i], texts[i]) /\ parts[i] \in Range(parts)
    BY <1>0 DEF AllShow, Range
  <1>4a. \A i \in 1 .. n : parts[i] \in S <=> parts[i] # <<>>
    BY <1>4
  <1> DEFINE R == {i \in 0 .. n : Shows(Joined(f[i], separator), g[i])}
  <1> HIDE DEF n, S, T
  <1>5. 0 \in R
    <2>1. Joined(<<>>, separator) = <<>>
      BY <1>0, JoinedEmpty
    <2> QED BY <1>0, <1>2, <1>3, <2>1, ShowsNothing
  <1>6. ASSUME NEW i \in 0 .. n, i \in R, i < n PROVE i + 1 \in R
    <2>1. i + 1 \in 1 .. n /\ (i + 1) - 1 = i /\ i + 1 \in 0 .. n
      BY <1>0, <1>6
    <2>2. f[i + 1] = KeptTurn(parts, S, i + 1, f[i]) /\ g[i + 1] = Cat(g[i], texts[i + 1])
      BY <1>2, <1>3, <2>1
    <2>3. Shows(Joined(f[i], separator), g[i]) /\ Shows(parts[i + 1], texts[i + 1])
      BY <1>4, <1>6, <2>1
    <2>4. f[i] \in Seq(Seq(Out)) /\ g[i] \in Seq(TextNodes) /\ parts[i + 1] \in Seq(Out)
      BY <2>3 DEF Shows, T
    <2>5. CASE parts[i + 1] = <<>>
      <3>1. f[i + 1] = f[i]
        BY <1>4a, <2>1, <2>2, <2>5 DEF KeptTurn
      <3>2. texts[i + 1] = <<>>
        BY <2>3, <2>5, ShowsEmpty
      <3>3. Cat(g[i], <<>>) = g[i]
        BY <2>4, CatEmpty
      <3> QED BY <2>1, <2>2, <2>3, <3>1, <3>2, <3>3
    <2>6. CASE parts[i + 1] # <<>>
      <3>1. f[i + 1] = Append(f[i], parts[i + 1])
        BY <1>4a, <2>1, <2>2, <2>6 DEF KeptTurn
      <3>2. Joined(f[i + 1], separator) =
               IF f[i] = <<>> THEN parts[i + 1]
               ELSE Cat(Cat(Joined(f[i], separator), separator), parts[i + 1])
        BY <1>0, <2>4, <3>1, JoinedAppend
      <3>3. CASE f[i] = <<>>
        <4>1. Joined(<<>>, separator) = <<>>
          BY <1>0, JoinedEmpty
        <4>2. g[i] = <<>>
          BY <2>3, <3>3, <4>1, ShowsEmpty
        <4>3. Cat(<<>>, texts[i + 1]) = texts[i + 1]
          <5>1. texts[i + 1] \in Seq(TextNodes)
            BY <2>3 DEF Shows
          <5> QED BY <5>1, CatEmpty
        <4> QED BY <2>1, <2>2, <2>3, <3>2, <3>3, <4>2, <4>3
      <3>4. CASE f[i] # <<>>
        <4>1. Shows(Cat(Joined(f[i], separator), separator), g[i])
          BY <2>3, ShowsBefore
        <4>2. Shows(Cat(Cat(Joined(f[i], separator), separator), parts[i + 1]), Cat(g[i], texts[i + 1]))
          BY <2>3, <4>1, ShowsBoth
        <4> QED BY <2>1, <2>2, <3>2, <3>4, <4>2
      <3> QED BY <3>3, <3>4
    <2> QED BY <2>5, <2>6
  <1>7. n \in R
    <2>1. \A i \in 0 .. n : i \in R /\ i < n => i + 1 \in R
      BY <1>6
    <2>2. 0 .. n \subseteq R
      <3> HIDE DEF R
      <3> QED BY <1>0, <1>5, <2>1, UpTo
    <2>3. n \in 0 .. n
      BY <1>0
    <2> QED BY <2>2, <2>3
  <1> QED BY <1>2, <1>3, <1>7 DEF S

-----------------------------------------------------------------------------
(* The nodes of a document, their texts and their rendering, level by      *)
(* level: recursive functions on the height, which exist.                  *)
LEMMA NodesDef ==
    ASSUME NEW h \in 0 .. Height
    PROVE  Nodes[h] = IF h = 0 THEN LeafNodes ELSE LeafNodes \cup BlockNodes(Nodes[h - 1])
PROOF
  <1> DEFINE At(k, below) == IF k = 0 THEN LeafNodes ELSE LeafNodes \cup BlockNodes(below)
             P(f, n) == f = [k \in 0 .. n |-> At(k, f[k - 1])]
             S == {n \in 0 .. Height : \E f : P(f, n)}
  <1>0. Height \in Nat
    BY DepthAssumption DEF Height
  <1>1. 0 \in S
    <2> DEFINE f == [k \in 0 .. 0 |-> LeafNodes]
    <2>1. f = [k \in 0 .. 0 |-> At(k, f[k - 1])]
      OBVIOUS
    <2> HIDE DEF f, At
    <2> QED BY <1>0, <2>1
  <1>2. ASSUME NEW n \in 0 .. Height, n \in S, n < Height PROVE n + 1 \in S
    <2>1. PICK f : P(f, n)
      BY <1>2
    <2> DEFINE g == [k \in 0 .. n + 1 |-> IF k = n + 1 THEN At(n + 1, f[n]) ELSE f[k]]
    <2>2. ASSUME NEW k \in 0 .. n + 1 PROVE g[k] = At(k, g[k - 1])
      <3>1. CASE k = n + 1
        <4>1. k - 1 = n /\ n \in 0 .. n + 1 /\ n # n + 1
          BY <3>1
        <4>2. g[k - 1] = f[n] /\ g[k] = At(n + 1, f[n])
          BY <3>1, <4>1
        <4> HIDE DEF g, At
        <4> QED BY <3>1, <4>2
      <3>2. CASE k # n + 1 /\ k # 0
        <4>1. k \in 0 .. n /\ k - 1 \in 0 .. n + 1 /\ k - 1 # n + 1
          BY <3>2
        <4>2. g[k] = f[k] /\ g[k - 1] = f[k - 1]
          BY <3>2, <4>1
        <4>3. f[k] = At(k, f[k - 1])
          BY <2>1, <4>1
        <4> HIDE DEF g, At
        <4> QED BY <4>2, <4>3
      <3>3. CASE k = 0
        <4>1. 0 \in 0 .. n /\ 0 # n + 1
          OBVIOUS
        <4>2. g[0] = f[0]
          BY <4>1
        <4>3. f[0] = LeafNodes
          BY <2>1, <4>1
        <4> QED BY <3>3, <4>2, <4>3
      <3> QED BY <3>1, <3>2, <3>3
    <2>3. P(g, n + 1)
      <3> HIDE DEF At
      <3>1. g = [k \in 0 .. n + 1 |-> g[k]]
        OBVIOUS
      <3> HIDE DEF g
      <3> QED BY <2>2, <3>1
    <2>4. n + 1 \in 0 .. Height
      BY <1>0, <1>2
    <2> HIDE DEF P
    <2> QED BY <2>3, <2>4
  <1>3. Height \in S
    <2>1. \A n \in 0 .. Height : n \in S /\ n < Height => n + 1 \in S
      BY <1>2
    <2>2. 0 .. Height \subseteq S
      <3> HIDE DEF S
      <3> QED BY <1>0, <1>1, <2>1, UpTo
    <2>3. Height \in 0 .. Height
      BY <1>0
    <2> QED BY <2>2, <2>3
  <1>4. P(Nodes, Height)
    <2> DEFINE Q(f) == f = [k \in 0 .. Height |-> IF k = 0 THEN LeafNodes
                                              ELSE LeafNodes \cup BlockNodes(f[k - 1])]
    <2>1. \E f : Q(f)
      BY <1>3
    <2>2. Nodes = CHOOSE f : Q(f)
      BY DEF Nodes
    <2>3. Q(Nodes)
      <3> HIDE DEF Q
      <3> QED BY <2>1, <2>2
    <2> QED BY <2>3
  <1> QED BY <1>4

(* The renderings of a level, from those below it. *)
LEMMA RenderedDef ==
    ASSUME NEW h \in 0 .. Height
    PROVE  Rendered[h] = [node \in Nodes[h] |-> RenderOne(node, IF h = 0 THEN <<>> ELSE Rendered[h - 1])]
PROOF
  <1> DEFINE At(k, below) == [node \in Nodes[k] |-> RenderOne(node, IF k = 0 THEN <<>> ELSE below)]
             P(f, n) == f = [k \in 0 .. n |-> At(k, f[k - 1])]
             S == {n \in 0 .. Height : \E f : P(f, n)}
  <1>0. Height \in Nat
    BY DepthAssumption DEF Height
  <1>1. 0 \in S
    <2> DEFINE f == [k \in 0 .. 0 |-> [node \in Nodes[0] |-> RenderOne(node, <<>>)]]
    <2>1. f = [k \in 0 .. 0 |-> At(k, f[k - 1])]
      <3>1. \A k \in 0 .. 0 : k = 0
        OBVIOUS
      <3> HIDE DEF Height
      <3> QED BY <3>1
    <2> HIDE DEF f, At
    <2> QED BY <1>0, <2>1
  <1>2. ASSUME NEW n \in 0 .. Height, n \in S, n < Height PROVE n + 1 \in S
    <2>1. PICK f : P(f, n)
      BY <1>2
    <2> DEFINE g == [k \in 0 .. n + 1 |-> IF k = n + 1 THEN At(n + 1, f[n]) ELSE f[k]]
    <2>2. ASSUME NEW k \in 0 .. n + 1 PROVE g[k] = At(k, g[k - 1])
      <3>1. CASE k = n + 1
        <4>1. k - 1 = n /\ n \in 0 .. n + 1 /\ n # n + 1
          BY <3>1
        <4>2. g[k - 1] = f[n] /\ g[k] = At(n + 1, f[n])
          BY <3>1, <4>1
        <4> HIDE DEF g, At
        <4> QED BY <3>1, <4>2
      <3>2. CASE k # n + 1 /\ k # 0
        <4>1. k \in 0 .. n /\ k - 1 \in 0 .. n + 1 /\ k - 1 # n + 1
          BY <3>2
        <4>2. g[k] = f[k] /\ g[k - 1] = f[k - 1]
          BY <3>2, <4>1
        <4>3. f[k] = At(k, f[k - 1])
          BY <2>1, <4>1
        <4> HIDE DEF g, At
        <4> QED BY <4>2, <4>3
      <3>3. CASE k = 0
        <4>1. 0 \in 0 .. n /\ 0 # n + 1
          OBVIOUS
        <4>2. g[0] = f[0]
          BY <4>1
        <4>3. f[0] = [node \in Nodes[0] |-> RenderOne(node, <<>>)]
          BY <2>1, <4>1
        <4> QED BY <3>3, <4>2, <4>3
      <3> QED BY <3>1, <3>2, <3>3
    <2>3. P(g, n + 1)
      <3> HIDE DEF At
      <3>1. g = [k \in 0 .. n + 1 |-> g[k]]
        OBVIOUS
      <3> HIDE DEF g
      <3> QED BY <2>2, <3>1
    <2>4. n + 1 \in 0 .. Height
      BY <1>0, <1>2
    <2> HIDE DEF P
    <2> QED BY <2>3, <2>4
  <1>3. Height \in S
    <2>1. \A n \in 0 .. Height : n \in S /\ n < Height => n + 1 \in S
      BY <1>2
    <2>2. 0 .. Height \subseteq S
      <3> HIDE DEF S
      <3> QED BY <1>0, <1>1, <2>1, UpTo
    <2>3. Height \in 0 .. Height
      BY <1>0
    <2> QED BY <2>2, <2>3
  <1>4. P(Rendered, Height)
    <2> DEFINE Q(f) == f = [k \in 0 .. Height |-> [node \in Nodes[k] |->
                                              RenderOne(node, IF k = 0 THEN <<>> ELSE f[k - 1])]]
    <2>1. \E f : Q(f)
      BY <1>3
    <2>2. Rendered = CHOOSE f : Q(f)
      BY DEF Rendered
    <2>3. Q(Rendered)
      <3> HIDE DEF Q
      <3> QED BY <2>1, <2>2
    <2> QED BY <2>3
  <1> QED BY <1>4

(* The texts of a level, from those below it. *)
LEMMA TextsDef ==
    ASSUME NEW h \in 0 .. Height
    PROVE  Texts[h] = [node \in Nodes[h] |-> TextsIn(node, IF h = 0 THEN <<>> ELSE Texts[h - 1])]
PROOF
  <1> DEFINE At(k, below) == [node \in Nodes[k] |-> TextsIn(node, IF k = 0 THEN <<>> ELSE below)]
             P(f, n) == f = [k \in 0 .. n |-> At(k, f[k - 1])]
             S == {n \in 0 .. Height : \E f : P(f, n)}
  <1>0. Height \in Nat
    BY DepthAssumption DEF Height
  <1>1. 0 \in S
    <2> DEFINE f == [k \in 0 .. 0 |-> [node \in Nodes[0] |-> TextsIn(node, <<>>)]]
    <2>1. f = [k \in 0 .. 0 |-> At(k, f[k - 1])]
      <3>1. \A k \in 0 .. 0 : k = 0
        OBVIOUS
      <3> HIDE DEF Height
      <3> QED BY <3>1
    <2> HIDE DEF f, At
    <2> QED BY <1>0, <2>1
  <1>2. ASSUME NEW n \in 0 .. Height, n \in S, n < Height PROVE n + 1 \in S
    <2>1. PICK f : P(f, n)
      BY <1>2
    <2> DEFINE g == [k \in 0 .. n + 1 |-> IF k = n + 1 THEN At(n + 1, f[n]) ELSE f[k]]
    <2>2. ASSUME NEW k \in 0 .. n + 1 PROVE g[k] = At(k, g[k - 1])
      <3>1. CASE k = n + 1
        <4>1. k - 1 = n /\ n \in 0 .. n + 1 /\ n # n + 1
          BY <3>1
        <4>2. g[k - 1] = f[n] /\ g[k] = At(n + 1, f[n])
          BY <3>1, <4>1
        <4> HIDE DEF g, At
        <4> QED BY <3>1, <4>2
      <3>2. CASE k # n + 1 /\ k # 0
        <4>1. k \in 0 .. n /\ k - 1 \in 0 .. n + 1 /\ k - 1 # n + 1
          BY <3>2
        <4>2. g[k] = f[k] /\ g[k - 1] = f[k - 1]
          BY <3>2, <4>1
        <4>3. f[k] = At(k, f[k - 1])
          BY <2>1, <4>1
        <4> HIDE DEF g, At
        <4> QED BY <4>2, <4>3
      <3>3. CASE k = 0
        <4>1. 0 \in 0 .. n /\ 0 # n + 1
          OBVIOUS
        <4>2. g[0] = f[0]
          BY <4>1
        <4>3. f[0] = [node \in Nodes[0] |-> TextsIn(node, <<>>)]
          BY <2>1, <4>1
        <4> QED BY <3>3, <4>2, <4>3
      <3> QED BY <3>1, <3>2, <3>3
    <2>3. P(g, n + 1)
      <3> HIDE DEF At
      <3>1. g = [k \in 0 .. n + 1 |-> g[k]]
        OBVIOUS
      <3> HIDE DEF g
      <3> QED BY <2>2, <3>1
    <2>4. n + 1 \in 0 .. Height
      BY <1>0, <1>2
    <2> HIDE DEF P
    <2> QED BY <2>3, <2>4
  <1>3. Height \in S
    <2>1. \A n \in 0 .. Height : n \in S /\ n < Height => n + 1 \in S
      BY <1>2
    <2>2. 0 .. Height \subseteq S
      <3> HIDE DEF S
      <3> QED BY <1>0, <1>1, <2>1, UpTo
    <2>3. Height \in 0 .. Height
      BY <1>0
    <2> QED BY <2>2, <2>3
  <1>4. P(Texts, Height)
    <2> DEFINE Q(f) == f = [k \in 0 .. Height |-> [node \in Nodes[k] |->
                                              TextsIn(node, IF k = 0 THEN <<>> ELSE f[k - 1])]]
    <2>1. \E f : Q(f)
      BY <1>3
    <2>2. Texts = CHOOSE f : Q(f)
      BY DEF Texts
    <2>3. Q(Texts)
      <3> HIDE DEF Q
      <3> QED BY <2>1, <2>2
    <2> QED BY <2>3
  <1> QED BY <1>4

\* What a function makes of each element.
Mapped(c, f) == [i \in DOMAIN c |-> f[c[i]]]

(* What it makes of a sequence, element by element. *)
LEMMA MappedType ==
    ASSUME NEW D, NEW V, NEW c \in Seq(D), NEW f, \A x \in D : f[x] \in V
    PROVE  /\ Mapped(c, f) \in Seq(V) /\ Len(Mapped(c, f)) = Len(c)
           /\ \A i \in 1 .. Len(c) : Mapped(c, f)[i] = f[c[i]]
PROOF
  <1>1. DOMAIN c = 1 .. Len(c) /\ Len(c) \in Nat
    OBVIOUS
  <1>2. Mapped(c, f) = [i \in 1 .. Len(c) |-> f[c[i]]]
    BY <1>1 DEF Mapped
  <1>3. \A i \in 1 .. Len(c) : f[c[i]] \in V
    OBVIOUS
  <1>4. [i \in 1 .. Len(c) |-> f[c[i]]] \in Seq(V)
    BY <1>1, <1>3
  <1> QED BY <1>1, <1>2, <1>4

(* The kinds of nodes. *)
LEMMA NodeKinds ==
    ASSUME NEW h \in 0 .. Height, NEW node \in Nodes[h]
    PROVE  \/ node \in TextNodes
           \/ node \in {Frame("hard_break"), Frame("horizontal_rule")}
           \/ h # 0 /\ h - 1 \in 0 .. Height /\ node \in BlockNodes(Nodes[h - 1])
PROOF
  <1>0. Height \in Nat
    BY DepthAssumption DEF Height
  <1>1. CASE h = 0
    BY <1>1, NodesDef DEF LeafNodes
  <1>2. CASE h # 0
    <2>1. Nodes[h] = LeafNodes \cup BlockNodes(Nodes[h - 1])
      BY <1>2, NodesDef
    <2>2. h - 1 \in 0 .. Height
      BY <1>0, <1>2
    <2> QED BY <1>2, <2>1, <2>2 DEF LeafNodes
  <1> QED BY <1>1, <1>2

(* What a block is made of. *)
LEMMA BlockKinds ==
    ASSUME NEW below, NEW node \in BlockNodes(below)
    PROVE  /\ node.type \in Blocks \cup {"doc"} /\ node.content \in Seq(below)
           /\ node.type \in Lists =>
                 \A i \in 1 .. Len(node.content) : node.content[i].type = "list_item"
PROOF BY DEF BlockNodes

(* A leaf is its own text, or has none. *)
LEMMA LeafTexts ==
    ASSUME NEW node, NEW sub
    PROVE  /\ node \in TextNodes => TextsIn(node, sub) = <<node>>
           /\ node \in {Frame("hard_break"), Frame("horizontal_rule")} => TextsIn(node, sub) = <<>>
PROOF
  <1>1. ASSUME node \in TextNodes PROVE TextsIn(node, sub) = <<node>>
    BY <1>1 DEF TextNodes, TextsIn
  <1>2. ASSUME node \in {Frame("hard_break"), Frame("horizontal_rule")} PROVE TextsIn(node, sub) = <<>>
    <2>1. node.type # "text" /\ node.content = <<>>
      BY <1>2 DEF Frame
    <2>2. [i \in DOMAIN node.content |-> sub[node.content[i]]] = <<>>
      BY <2>1
    <2>3. TextsIn(node, sub) = Joined(<<>>, <<>>)
      BY <2>1, <2>2 DEF TextsIn
    <2>4. <<>> \in Seq({})
      OBVIOUS
    <2> QED BY <2>3, <2>4, JoinedEmpty
  <1> QED BY <1>1, <1>2

(* The texts of a block are those of what it contains. *)
LEMMA BlockTexts ==
    ASSUME NEW below, NEW node \in BlockNodes(below), NEW sub
    PROVE  TextsIn(node, sub) = Joined(Mapped(node.content, sub), <<>>)
PROOF
  <1>1. node.type # "text"
    BY BlockKinds DEF Blocks
  <1> QED BY <1>1 DEF TextsIn, Mapped

(* The texts of a node are text nodes. *)
LEMMA TextsType ==
    ASSUME NEW h \in 0 .. Height
    PROVE  \A node \in Nodes[h] : Texts[h][node] \in Seq(TextNodes)
PROOF
  <1> DEFINE S == {k \in 0 .. Height : \A node \in Nodes[k] : Texts[k][node] \in Seq(TextNodes)}
  <1>0. Height \in Nat
    BY DepthAssumption DEF Height
  <1>1. ASSUME NEW k \in 0 .. Height, k = 0 \/ k - 1 \in S PROVE k \in S
    <2> SUFFICES ASSUME NEW node \in Nodes[k] PROVE Texts[k][node] \in Seq(TextNodes)
      OBVIOUS
    <2> DEFINE sub == IF k = 0 THEN <<>> ELSE Texts[k - 1]
    <2>1. Texts[k][node] = TextsIn(node, sub)
      BY TextsDef
    <2>2. CASE node \in TextNodes
      <3>1. TextsIn(node, sub) = <<node>>
        BY <2>2, LeafTexts
      <3>2. <<node>> \in Seq(TextNodes)
        BY <2>2
      <3> HIDE DEF sub
      <3> QED BY <2>1, <3>1, <3>2
    <2>3. CASE node \in {Frame("hard_break"), Frame("horizontal_rule")}
      <3>1. TextsIn(node, sub) = <<>>
        BY <2>3, LeafTexts
      <3>2. <<>> \in Seq(TextNodes)
        OBVIOUS
      <3> HIDE DEF sub
      <3> QED BY <2>1, <3>1, <3>2
    <2>4. CASE k # 0 /\ node \in BlockNodes(Nodes[k - 1])
      <3>1. TextsIn(node, sub) = Joined(Mapped(node.content, sub), <<>>)
        BY <2>4, BlockTexts
      <3>2. node.content \in Seq(Nodes[k - 1])
        BY <2>4, BlockKinds
      <3>3. \A x \in Nodes[k - 1] : sub[x] \in Seq(TextNodes)
        BY <1>1, <2>4
      <3> HIDE DEF sub
      <3>4. Mapped(node.content, sub) \in Seq(Seq(TextNodes))
        BY <3>2, <3>3, MappedType
      <3>5. <<>> \in Seq(TextNodes)
        OBVIOUS
      <3>6. Joined(Mapped(node.content, sub), <<>>) \in Seq(TextNodes)
        BY <3>4, <3>5, JoinedType
      <3> QED BY <2>1, <3>1, <3>6
    <2> QED BY <2>2, <2>3, <2>4, NodeKinds
  <1>2. 0 \in S
    BY <1>0, <1>1
  <1>3. \A k \in 0 .. Height : k \in S /\ k < Height => k + 1 \in S
    <2> SUFFICES ASSUME NEW k \in 0 .. Height, k \in S, k < Height PROVE k + 1 \in S
      OBVIOUS
    <2>1. k + 1 \in 0 .. Height /\ (k + 1) - 1 = k
      BY <1>0
    <2> HIDE DEF S
    <2> QED BY <1>1, <2>1
  <1>4. 0 .. Height \subseteq S
    <2> HIDE DEF S
    <2> QED BY <1>0, <1>2, <1>3, UpTo
  <1> QED BY <1>4

(* A node is one of the next level too, with the same texts. *)
LEMMA NodesGrow ==
    ASSUME NEW h \in 0 .. Height, h < Height
    PROVE  \A node \in Nodes[h] : node \in Nodes[h + 1] /\ Texts[h + 1][node] = Texts[h][node]
PROOF
  <1> DEFINE S == {k \in 0 .. Height : k < Height =>
                      \A node \in Nodes[k] :
                          node \in Nodes[k + 1] /\ Texts[k + 1][node] = Texts[k][node]}
  <1>0. Height \in Nat
    BY DepthAssumption DEF Height
  <1>1. ASSUME NEW k \in 0 .. Height, k = 0 \/ k - 1 \in S PROVE k \in S
    <2> SUFFICES ASSUME k < Height, NEW node \in Nodes[k]
                 PROVE  node \in Nodes[k + 1] /\ Texts[k + 1][node] = Texts[k][node]
      OBVIOUS
    <2>0. k + 1 \in 0 .. Height /\ k + 1 # 0 /\ (k + 1) - 1 = k
      BY <1>0
    <2>1. Nodes[k + 1] = LeafNodes \cup BlockNodes(Nodes[k])
      BY <2>0, NodesDef
    <2> DEFINE sub == IF k = 0 THEN <<>> ELSE Texts[k - 1]
    <2>2. Texts[k][node] = TextsIn(node, sub)
      BY TextsDef
    <2>3. node \in Nodes[k + 1] => Texts[k + 1][node] = TextsIn(node, Texts[k])
      <3>1. Texts[k + 1] = [x \in Nodes[k + 1] |->
                              TextsIn(x, IF k + 1 = 0 THEN <<>> ELSE Texts[(k + 1) - 1])]
        <4> DEFINE l == k + 1
        <4>1. l \in 0 .. Height
          BY <2>0
        <4> HIDE DEF l
        <4>2. Texts[l] = [x \in Nodes[l] |-> TextsIn(x, IF l = 0 THEN <<>> ELSE Texts[l - 1])]
          BY <4>1, TextsDef
        <4> QED BY <4>2 DEF l
      <3>2. Texts[k + 1] = [x \in Nodes[k + 1] |-> TextsIn(x, Texts[k])]
        BY <2>0, <3>1
      <3> QED BY <3>2
    <2>4. CASE node \in TextNodes
      <3>1. TextsIn(node, sub) = <<node>> /\ TextsIn(node, Texts[k]) = <<node>>
        BY <2>4, LeafTexts
      <3> QED BY <2>1, <2>2, <2>3, <2>4, <3>1 DEF LeafNodes
    <2>5. CASE node \in {Frame("hard_break"), Frame("horizontal_rule")}
      <3>1. TextsIn(node, sub) = <<>> /\ TextsIn(node, Texts[k]) = <<>>
        BY <2>5, LeafTexts
      <3> QED BY <2>1, <2>2, <2>3, <2>5, <3>1 DEF LeafNodes
    <2>6. CASE k # 0 /\ node \in BlockNodes(Nodes[k - 1])
      <3>0. k - 1 \in 0 .. Height /\ k - 1 < Height /\ (k - 1) + 1 = k /\ sub = Texts[k - 1]
        BY <1>0, <2>6
      <3>1. \A x \in Nodes[k - 1] : x \in Nodes[k] /\ Texts[k][x] = Texts[k - 1][x]
        BY <1>1, <2>6, <3>0
      <3>2. node.content \in Seq(Nodes[k - 1])
        BY <2>6, BlockKinds
      <3>3. node \in BlockNodes(Nodes[k])
        <4>1. node.content \in Seq(Nodes[k])
          BY <3>1, <3>2
        <4> QED BY <2>6, <4>1 DEF BlockNodes
      <3>4. Mapped(node.content, Texts[k]) = Mapped(node.content, Texts[k - 1])
        <4>1. \A i \in DOMAIN node.content : node.content[i] \in Nodes[k - 1]
          BY <3>2
        <4> QED BY <3>1, <4>1 DEF Mapped
      <3>5. TextsIn(node, Texts[k]) = TextsIn(node, Texts[k - 1])
        BY <2>6, <3>3, <3>4, BlockTexts
      <3> QED BY <2>1, <2>2, <2>3, <3>0, <3>3, <3>5
    <2> QED BY <2>4, <2>5, <2>6, NodeKinds
  <1>2. 0 \in S
    <2>1. 0 \in 0 .. Height
      BY <1>0
    <2> HIDE DEF S
    <2> QED BY <1>1, <2>1
  <1>3. \A k \in 0 .. Height : k \in S /\ k < Height => k + 1 \in S
    <2> SUFFICES ASSUME NEW k \in 0 .. Height, k \in S, k < Height PROVE k + 1 \in S
      OBVIOUS
    <2>1. k + 1 \in 0 .. Height /\ (k + 1) - 1 = k
      BY <1>0
    <2> HIDE DEF S
    <2> QED BY <1>1, <2>1
  <1>4. 0 .. Height \subseteq S
    <2> HIDE DEF S
    <2> QED BY <1>0, <1>2, <1>3, UpTo
  <1> QED BY <1>4

(* The contents of a node, rendered, show their texts. *)
LEMMA ContentShows ==
    ASSUME NEW D, NEW c \in Seq(D), NEW f, NEW g, \A x \in D : Shows(f[x], g[x])
    PROVE  AllShow(Mapped(c, f), Mapped(c, g))
PROOF
  <1> DEFINE V == Seq(Out)
             W == Seq(TextNodes)
  <1>1. \A x \in D : f[x] \in V
    BY DEF Shows
  <1>1a. \A x \in D : g[x] \in W
    BY DEF Shows
  <1> HIDE DEF V, W
  <1>2. /\ Mapped(c, f) \in Seq(V) /\ Len(Mapped(c, f)) = Len(c)
        /\ \A i \in 1 .. Len(c) : Mapped(c, f)[i] = f[c[i]]
    BY <1>1, MappedType
  <1>3. /\ Mapped(c, g) \in Seq(W) /\ Len(Mapped(c, g)) = Len(c)
        /\ \A i \in 1 .. Len(c) : Mapped(c, g)[i] = g[c[i]]
    BY <1>1a, MappedType
  <1>4. \A i \in 1 .. Len(c) : c[i] \in D
    OBVIOUS
  <1> QED BY <1>2, <1>3, <1>4 DEF AllShow, V, W

(* render_children, render_inline_children. *)
LEMMA ChildrenShow ==
    ASSUME NEW D, NEW node, node.content \in Seq(D), NEW f, NEW g, \A x \in D : Shows(f[x], g[x])
    PROVE  /\ Shows(RenderInlineChildren(node, f), Joined(Mapped(node.content, g), <<>>))
           /\ \A s : Shows(s, <<>>) =>
                 Shows(RenderChildren(node, s, f), Joined(Mapped(node.content, g), <<>>))
PROOF
  <1> DEFINE c == node.content
             e == <<>>
  <1>1. AllShow(Mapped(c, f), Mapped(c, g))
    BY ContentShows
  <1>2. RenderInlineChildren(node, f) = Joined(Mapped(c, f), e)
    BY DEF RenderInlineChildren, Mapped
  <1>3. \A s : RenderChildren(node, s, f) = Joined(Kept(Mapped(c, f), Range(Mapped(c, f)) \ {<<>>}), s)
    BY DEF RenderChildren, Mapped
  <1>4. Shows(Joined(Mapped(c, f), e), Joined(Mapped(c, g), <<>>))
    <2>1. Shows(e, <<>>)
      BY ShowsNothing
    <2> HIDE DEF c, e
    <2> QED BY <1>1, <2>1, JoinedShows
  <1>5. ASSUME NEW s, Shows(s, <<>>)
        PROVE  Shows(RenderChildren(node, s, f), Joined(Mapped(c, g), <<>>))
    BY <1>1, <1>3, <1>5, KeptShows
  <1> QED BY <1>2, <1>4, <1>5

(* The lists: render_list_item and the loop around it. *)
LEMMA ItemsShow ==
    ASSUME NEW D, NEW E, NEW list, list.content \in Seq(D), NEW f, NEW g, NEW bullet \in Markers,
           \A item \in D : /\ item.content \in Seq(E)
                           /\ \E k : /\ g[item] = Joined(Mapped(item.content, k), <<>>)
                                     /\ \A x \in E : Shows(f[x], k[x])
    PROVE  Shows(RenderItems(list, bullet, f), Joined(Mapped(list.content, g), <<>>))
PROOF
  <1> DEFINE c == list.content
             nl == Marker("newline")
             r == [item \in D |-> Cat(Marker(bullet), RenderListItem(item, f))]
  <1>1. Shows(nl, <<>>)
    <2> DEFINE m == "newline"
    <2>1. m \in Markers
      BY DEF Markers
    <2> HIDE DEF m
    <2>2. Shows(Marker(m), <<>>)
      BY <2>1, ShowsMarker
    <2> QED BY <2>2 DEF m
  <1> HIDE DEF nl
  <1>2. ASSUME NEW item \in D PROVE Shows(r[item], g[item])
    <2>1. PICK k : g[item] = Joined(Mapped(item.content, k), <<>>) /\ \A x \in E : Shows(f[x], k[x])
      OBVIOUS
    <2>2. item.content \in Seq(E)
      OBVIOUS
    <2>3. AllShow(Mapped(item.content, f), Mapped(item.content, k))
      BY <2>1, <2>2, ContentShows
    <2>4. RenderListItem(item, f) = Joined(Mapped(item.content, f), nl)
      BY DEF RenderListItem, Mapped, nl
    <2>5. Shows(RenderListItem(item, f), g[item])
      BY <1>1, <2>1, <2>3, <2>4, JoinedShows
    <2>6. Shows(Cat(Marker(bullet), RenderListItem(item, f)), g[item])
      BY <2>5, ShowsAfter
    <2> QED BY <2>6
  <1>3. RenderItems(list, bullet, f) = Joined(Mapped(c, r), nl)
    <2>1. \A i \in DOMAIN c : c[i] \in D
      OBVIOUS
    <2>2. Mapped(c, r) = [i \in DOMAIN c |-> Marker(bullet) \o RenderListItem(c[i], f)]
      BY <2>1 DEF Mapped, Cat
    <2> QED BY <2>2 DEF RenderItems, nl
  <1> HIDE DEF r
  <1>4. AllShow(Mapped(c, r), Mapped(c, g))
    BY <1>2, ContentShows
  <1> QED BY <1>1, <1>3, <1>4, JoinedShows

(* A marker as a separator, or in front of a rendering. *)
LEMMA NoText ==
    /\ Shows(Marker("blank line"), <<>>) /\ Shows(Marker("newline"), <<>>)
          /\ Shows(Marker("---"), <<>>) /\ Shows(Marker("break"), <<>>)
PROOF
  <1>1. \A m \in Markers : Shows(Marker(m), <<>>)
    BY ShowsMarker
  <1>2. "blank line" \in Markers /\ "newline" \in Markers /\ "---" \in Markers /\ "break" \in Markers
    BY DEF Markers
  <1> QED BY <1>1, <1>2

(* The markers of a heading, a quotation and a code block. *)
LEMMA MarkersAround ==
    ASSUME NEW r, NEW t, Shows(r, t)
    PROVE  /\ Shows(Marker("#") \o r, t) /\ Shows(Marker(">") \o r, t)
           /\ Shows(Marker("fence") \o r \o Marker("fence"), t)
PROOF
  <1>1. \A m \in Markers : Shows(Cat(Marker(m), r), t)
    BY ShowsAfter
  <1>2. \A m, k \in Markers : Shows(Cat(Cat(Marker(m), r), Marker(k)), t)
    BY ShowsWithin
  <1>3. "#" \in Markers /\ ">" \in Markers /\ "fence" \in Markers
    BY DEF Markers
  <1>4. /\ Shows(Cat(Marker("#"), r), t) /\ Shows(Cat(Marker(">"), r), t)
        /\ Shows(Cat(Cat(Marker("fence"), r), Marker("fence")), t)
    BY <1>1, <1>2, <1>3
  <1> QED BY <1>4 DEF Cat

(* A block shows its texts if the nodes in it do, and the nodes in those:  *)
(* the loop over a list calls render_list_item on its items.               *)
LEMMA BlockShows ==
    ASSUME NEW h \in 0 .. Height, h # 0, NEW node \in BlockNodes(Nodes[h - 1]),
           \A x \in Nodes[h - 1] : Shows(Rendered[h - 1][x], Texts[h - 1][x])
    PROVE  Shows(RenderOne(node, Rendered[h - 1]), TextsIn(node, Texts[h - 1]))
PROOF
  <1> DEFINE c == node.content
             f == Rendered[h - 1]
             g == Texts[h - 1]
             t == Joined(Mapped(c, g), <<>>)
  <1>0. /\ h - 1 \in 0 .. Height /\ node.type \in Blocks \cup {"doc"} /\ c \in Seq(Nodes[h - 1])
        /\ TextsIn(node, g) = t /\ \A x \in Nodes[h - 1] : Shows(f[x], g[x])
    <2>1. Height \in Nat
      BY DepthAssumption DEF Height
    <2> QED BY <2>1, BlockKinds, BlockTexts
  <1>1. /\ Shows(RenderInlineChildren(node, f), t)
        /\ \A s : Shows(s, <<>>) => Shows(RenderChildren(node, s, f), t)
    <2> HIDE DEF f, g
    <2> QED BY <1>0, ChildrenShow
  <1>2. ASSUME node.type \in Lists, NEW bullet \in Markers
        PROVE  Shows(RenderItems(node, bullet, f), t)
    <2> DEFINE D == {x \in Nodes[h - 1] : x.type = "list_item"}
               E == Nodes[h - 2]
    <2>1. c \in Seq(D)
      <3>1. \A i \in 1 .. Len(c) : c[i] \in D
        <4>1. \A i \in 1 .. Len(c) : c[i].type = "list_item"
          BY <1>2, BlockKinds
        <4>2. \A i \in 1 .. Len(c) : c[i] \in Nodes[h - 1]
          BY <1>0
        <4> QED BY <4>1, <4>2
      <3>2. c \in Seq(Nodes[h - 1])
        BY <1>0
      <3> HIDE DEF D
      <3> QED BY <3>1, <3>2
    <2>2. ASSUME NEW item \in D
          PROVE  /\ item.content \in Seq(E)
                 /\ \E k : /\ g[item] = Joined(Mapped(item.content, k), <<>>)
                           /\ \A x \in E : Shows(f[x], k[x])
      <3>1. h - 1 # 0 /\ h - 2 \in 0 .. Height /\ item \in BlockNodes(E)
        <4>1. item \in Nodes[h - 1] /\ item.type = "list_item" /\ (h - 1) - 1 = h - 2
          OBVIOUS
        <4>2. item \notin TextNodes /\ item \notin {Frame("hard_break"), Frame("horizontal_rule")}
          BY <4>1 DEF TextNodes, Frame
        <4> DEFINE l == h - 1
        <4>3. l \in 0 .. Height /\ item \in Nodes[l]
          BY <1>0, <4>1
        <4> HIDE DEF l
        <4>4. l # 0 /\ l - 1 \in 0 .. Height /\ item \in BlockNodes(Nodes[l - 1])
          BY <4>2, <4>3, NodeKinds
        <4>5. l - 1 = h - 2
          BY DEF l
        <4> QED BY <4>4, <4>5 DEF l
      <3>2. item.content \in Seq(E)
        BY <3>1, BlockKinds
      <3> DEFINE k == Texts[h - 2]
      <3>3. g[item] = Joined(Mapped(item.content, k), <<>>)
        <4> DEFINE l == h - 1
        <4>1. l \in 0 .. Height /\ l # 0 /\ item \in Nodes[l] /\ l - 1 = h - 2 /\ g = Texts[l]
          BY <1>0, <3>1
        <4> HIDE DEF l, E, g
        <4>2. Texts[l] = [x \in Nodes[l] |-> TextsIn(x, IF l = 0 THEN <<>> ELSE Texts[l - 1])]
          BY <4>1, TextsDef
        <4>3. Texts[l][item] = TextsIn(item, k)
          BY <4>1, <4>2
        <4>4. TextsIn(item, k) = Joined(Mapped(item.content, k), <<>>)
          BY <3>1, BlockTexts
        <4> QED BY <4>1, <4>3, <4>4
      <3>4. ASSUME NEW x \in E PROVE Shows(f[x], k[x])
        <4> DEFINE l == h - 2
        <4>1. l \in 0 .. Height /\ l < Height /\ l + 1 = h - 1 /\ x \in Nodes[l]
          <5>1. Height \in Nat
            BY DepthAssumption DEF Height
          <5> QED BY <3>1, <5>1
        <4> HIDE DEF l
        <4>2. x \in Nodes[l + 1] /\ Texts[l + 1][x] = Texts[l][x]
          BY <4>1, NodesGrow
        <4>3. x \in Nodes[h - 1] /\ g[x] = Texts[l][x]
          BY <4>1, <4>2
        <4> HIDE DEF f, g
        <4> QED BY <1>0, <4>3 DEF l
      <3> HIDE DEF k, f, g, E
      <3> QED BY <3>2, <3>3, <3>4
    <2> HIDE DEF D, E, f, g
    <2> QED BY <2>1, <2>2, ItemsShow
  <1> HIDE DEF f, g, t
  <1>3. ASSUME node.type = "doc" PROVE Shows(RenderOne(node, f), t)
    BY <1>1, <1>3, NoText DEF RenderOne
  <1>4. ASSUME node.type = "paragraph" PROVE Shows(RenderOne(node, f), t)
    BY <1>1, <1>4 DEF RenderOne
  <1>5. ASSUME node.type = "heading" PROVE Shows(RenderOne(node, f), t)
    <2>1. Shows(Marker("#") \o RenderInlineChildren(node, f), t)
      BY <1>1, MarkersAround
    <2> QED BY <1>5, <2>1 DEF RenderOne
  <1>6. ASSUME node.type = "code_block" PROVE Shows(RenderOne(node, f), t)
    <2>1. Shows(RenderChildren(node, Marker("newline"), f), t)
      BY <1>1, NoText
    <2>2. Shows(Marker("fence") \o RenderChildren(node, Marker("newline"), f) \o Marker("fence"), t)
      BY <2>1, MarkersAround
    <2> QED BY <1>6, <2>2 DEF RenderOne
  <1>7. ASSUME node.type = "blockquote" PROVE Shows(RenderOne(node, f), t)
    <2>1. Shows(RenderChildren(node, Marker("newline"), f), t)
      BY <1>1, NoText
    <2>2. Shows(Marker(">") \o RenderChildren(node, Marker("newline"), f), t)
      BY <2>1, MarkersAround
    <2> QED BY <1>7, <2>2 DEF RenderOne
  <1>8. ASSUME node.type = "bullet_list" PROVE Shows(RenderOne(node, f), t)
    <2>1. "-" \in Markers /\ node.type \in Lists
      BY <1>8 DEF Markers, Lists
    <2>2. Shows(RenderItems(node, "-", f), t)
      BY <1>2, <2>1
    <2> QED BY <1>8, <2>2 DEF RenderOne
  <1>9. ASSUME node.type = "ordered_list" PROVE Shows(RenderOne(node, f), t)
    <2>1. "1." \in Markers /\ node.type \in Lists
      BY <1>9 DEF Markers, Lists
    <2>2. Shows(RenderItems(node, "1.", f), t)
      BY <1>2, <2>1
    <2> QED BY <1>9, <2>2 DEF RenderOne
  <1>10. ASSUME node.type = "list_item" PROVE Shows(RenderOne(node, f), t)
    <2>1. Shows(RenderChildren(node, <<>>, f), t)
      BY <1>1, ShowsNothing
    <2> QED BY <1>10, <2>1 DEF RenderOne
  <1>11. Shows(RenderOne(node, f), t)
    BY <1>0, <1>3, <1>4, <1>5, <1>6, <1>7, <1>8, <1>9, <1>10 DEF Blocks
  <1> QED BY <1>0, <1>11 DEF f, g

(* What is rendered of a node shows the texts below it. *)
LEMMA RenderShows ==
    ASSUME NEW h \in 0 .. Height
    PROVE  \A node \in Nodes[h] : Shows(Rendered[h][node], Texts[h][node])
PROOF
  <1> DEFINE S == {k \in 0 .. Height : \A node \in Nodes[k] : Shows(Rendered[k][node], Texts[k][node])}
  <1>0. Height \in Nat
    BY DepthAssumption DEF Height
  <1>1. ASSUME NEW k \in 0 .. Height, k = 0 \/ k - 1 \in S PROVE k \in S
    <2> SUFFICES ASSUME NEW node \in Nodes[k] PROVE Shows(Rendered[k][node], Texts[k][node])
      OBVIOUS
    <2> DEFINE sub == IF k = 0 THEN <<>> ELSE Texts[k - 1]
               ren == IF k = 0 THEN <<>> ELSE Rendered[k - 1]
    <2>1. Texts[k][node] = TextsIn(node, sub)
      BY TextsDef
    <2>2. Rendered[k][node] = RenderOne(node, ren)
      BY RenderedDef
    <2>3. CASE node \in TextNodes
      <3> HIDE DEF sub, ren
      <3>1. TextsIn(node, sub) = <<node>>
        BY <2>3, LeafTexts
      <3>2. RenderOne(node, ren) = ApplyMarksReverse(Piece(node.text), node.marks)
        BY <2>3 DEF RenderOne, TextNodes
      <3>3. node.marks \in Seq(MarkTags \cup {"code"}) /\ Shows(Piece(node.text), <<node>>)
        BY <2>3, ShowsPiece DEF TextNodes
      <3>4. Shows(ApplyMarksReverse(Piece(node.text), node.marks), <<node>>)
        BY <3>3, MarksShow
      <3> QED BY <2>1, <2>2, <3>1, <3>2, <3>4
    <2>4. CASE node \in {Frame("hard_break"), Frame("horizontal_rule")}
      <3> HIDE DEF sub, ren
      <3>1. TextsIn(node, sub) = <<>>
        BY <2>4, LeafTexts
      <3>2. RenderOne(node, ren) \in {Marker("---"), Marker("break")}
        <4>1. CASE node = Frame("hard_break")
          <5>1. node.type = "hard_break"
            BY <4>1 DEF Frame
          <5> QED BY <5>1 DEF RenderOne
        <4>2. CASE node = Frame("horizontal_rule")
          <5>1. node.type = "horizontal_rule"
            BY <4>2 DEF Frame
          <5> QED BY <5>1 DEF RenderOne
        <4> QED BY <2>4, <4>1, <4>2
      <3>3. Shows(RenderOne(node, ren), <<>>)
        BY <3>2, NoText
      <3> QED BY <2>1, <2>2, <3>1, <3>3
    <2>5. CASE k # 0 /\ node \in BlockNodes(Nodes[k - 1])
      <3>1. \A x \in Nodes[k - 1] : Shows(Rendered[k - 1][x], Texts[k - 1][x])
        BY <1>1, <2>5
      <3>2. Shows(RenderOne(node, Rendered[k - 1]), TextsIn(node, Texts[k - 1]))
        BY <2>5, <3>1, BlockShows
      <3> QED BY <2>1, <2>2, <2>5, <3>2
    <2> QED BY <2>3, <2>4, <2>5, NodeKinds
  <1>2. 0 \in S
    <2>1. 0 \in 0 .. Height
      BY <1>0
    <2> HIDE DEF S
    <2> QED BY <1>1, <2>1
  <1>3. \A k \in 0 .. Height : k \in S /\ k < Height => k + 1 \in S
    <2> SUFFICES ASSUME NEW k \in 0 .. Height, k \in S, k < Height PROVE k + 1 \in S
      OBVIOUS
    <2>1. k + 1 \in 0 .. Height /\ (k + 1) - 1 = k
      BY <1>0
    <2> HIDE DEF S
    <2> QED BY <1>1, <2>1
  <1>4. 0 .. Height \subseteq S
    <2> HIDE DEF S
    <2> QED BY <1>0, <1>2, <1>3, UpTo
  <1> QED BY <1>4

-----------------------------------------------------------------------------
(* The invariant: what the stack, the marks and the texts have to do with  *)
(* the open tags.                                                          *)
Tags == Blocks \cup MarkTags \cup OtherTags

\* List items are in lists, and nothing else is.
WellNested(tags) ==
    \A j \in 1 .. Len(tags) : tags[j] = "list_item" <=> j > 1 /\ tags[j - 1] \in Lists

\* The open tags.
OpenInv == open \in Seq(Tags) /\ Len(open) <= MaxDepth /\ WellNested(open)

\* A frame for the document and each open block, the k-th of nodes k lower.
Frames == UNION {BlockNodes(Nodes[k]) : k \in 0 .. Height}
StackFits(stack, blocks) ==
    /\ stack \in Seq(Frames) /\ blocks \in Seq(Blocks)
    /\ Len(stack) = Len(blocks) + 1 /\ Len(blocks) <= MaxDepth
    /\ stack[1].type = "doc" /\ \A k \in 1 .. Len(blocks) : stack[k + 1].type = blocks[k]
    /\ \A k \in 1 .. Len(stack) : stack[k] \in BlockNodes(Nodes[Height - k])

\* The active marks are the open ones, unless one has been in its own kind.
MarksInv ==
    /\ builder.marks \in Seq(MarkTags) /\ selfNested \in BOOLEAN
    /\ ~selfNested => builder.marks = Kept(open, MarkTags)

\* What the open frames hold so far, from the document's own to the innermost.
HeldTexts(stack) == [k \in 1 .. Len(stack) |-> Texts[Height - k + 1][stack[k]]]

\* The text nodes are the text events, with the marks around them.
Given == [text : Nat, marks : Seq(MarkTags \cup {"code", "any"})]
Matches(texts, evs) ==
    /\ texts \in Seq(TextNodes) /\ evs \in Seq(Given) /\ Len(texts) = Len(evs)
    /\ \A i \in 1 .. Len(evs) :
          /\ texts[i].text = evs[i].text
          /\ evs[i].marks \in {<<"any">>, texts[i].marks}

TextsInv == Matches(Joined(HeldTexts(builder.stack), <<>>), given)

\* The finished document is the one frame that is left.
TreeInv ==
    tree = <<>> \/ (Len(builder.stack) = 1 /\ tree = <<builder.stack[1]>>)

\* The stack has a frame for each open block.
StackInv == StackFits(builder.stack, Kept(open, Blocks))

MdInv ==
    /\ builder = [stack |-> builder.stack, marks |-> builder.marks] /\ count \in Nat
    /\ OpenInv /\ StackInv /\ MarksInv /\ TextsInv /\ TreeInv

\* An event has an arm or has none.
DroppedInv == dropped \subseteq 1 .. count /\ \A i \in DOMAIN given : given[i].text \in (1 .. count) \ dropped

(* A frame, once closed, is a node of the next level. *)
LEMMA FrameLevel ==
    ASSUME NEW stack, NEW blocks, StackFits(stack, blocks), NEW k \in 1 .. Len(stack)
    PROVE  /\ Height - k \in 0 .. Height /\ Height - k + 1 \in 0 .. Height
           /\ Height - k + 1 # 0 /\ (Height - k + 1) - 1 = Height - k
           /\ stack[k] \in BlockNodes(Nodes[Height - k]) /\ stack[k] \in Nodes[Height - k + 1]
           /\ Texts[Height - k + 1][stack[k]] =
                 Joined(Mapped(stack[k].content, Texts[Height - k]), <<>>)
PROOF
  <1>1. Height \in Nat /\ Len(stack) \in Nat /\ Len(stack) <= Height
    BY DepthAssumption DEF Height, StackFits
  <1>2. /\ Height - k \in 0 .. Height /\ Height - k + 1 \in 0 .. Height
        /\ Height - k + 1 # 0 /\ (Height - k + 1) - 1 = Height - k
    BY <1>1
  <1>3. stack[k] \in BlockNodes(Nodes[Height - k])
    BY DEF StackFits
  <1> DEFINE l == Height - k + 1
  <1>4. l \in 0 .. Height /\ l # 0 /\ l - 1 = Height - k
    BY <1>2
  <1> HIDE DEF l
  <1>5. Nodes[l] = LeafNodes \cup BlockNodes(Nodes[l - 1])
    BY <1>4, NodesDef
  <1>6. stack[k] \in Nodes[l]
    BY <1>3, <1>4, <1>5
  <1>7. Texts[l] = [x \in Nodes[l] |-> TextsIn(x, IF l = 0 THEN <<>> ELSE Texts[l - 1])]
    BY <1>4, TextsDef
  <1>8. Texts[l][stack[k]] = TextsIn(stack[k], Texts[Height - k])
    BY <1>4, <1>6, <1>7
  <1>9. TextsIn(stack[k], Texts[Height - k]) = Joined(Mapped(stack[k].content, Texts[Height - k]), <<>>)
    BY <1>3, BlockTexts
  <1> QED BY <1>2, <1>3, <1>6, <1>8, <1>9 DEF l

(* The texts an open frame holds are text nodes. *)
LEMMA HeldType ==
    ASSUME NEW stack, NEW blocks, StackFits(stack, blocks)
    PROVE  /\ HeldTexts(stack) \in Seq(Seq(TextNodes)) /\ Len(HeldTexts(stack)) = Len(stack)
           /\ \A k \in 1 .. Len(stack) : HeldTexts(stack)[k] = Texts[Height - k + 1][stack[k]]
PROOF
  <1> DEFINE V == Seq(TextNodes)
  <1>1. \A k \in 1 .. Len(stack) : Texts[Height - k + 1][stack[k]] \in V
    <2> SUFFICES ASSUME NEW k \in 1 .. Len(stack) PROVE Texts[Height - k + 1][stack[k]] \in V
      OBVIOUS
    <2> DEFINE l == Height - k + 1
    <2>1. l \in 0 .. Height /\ stack[k] \in Nodes[l]
      BY FrameLevel
    <2> HIDE DEF l
    <2>2. Texts[l][stack[k]] \in V
      BY <2>1, TextsType
    <2> QED BY <2>2 DEF l
  <1>2. Len(stack) \in Nat
    BY DEF StackFits
  <1> HIDE DEF V
  <1>3. HeldTexts(stack) = [k \in 1 .. Len(stack) |-> Texts[Height - k + 1][stack[k]]]
    BY DEF HeldTexts
  <1>4. [k \in 1 .. Len(stack) |-> Texts[Height - k + 1][stack[k]]] \in Seq(V)
    BY <1>1, <1>2
  <1> QED BY <1>2, <1>3, <1>4 DEF V

(* An empty frame fits everywhere. *)
LEMMA EmptyFrame ==
    ASSUME NEW tag \in Blocks \cup {"doc"}, NEW k \in 0 .. Height
    PROVE  /\ Frame(tag) \in BlockNodes(Nodes[k]) /\ Frame(tag) \in Frames /\ Frame(tag).type = tag
           /\ Joined(Mapped(Frame(tag).content, Texts[k]), <<>>) = <<>>
PROOF
  <1>1. Frame(tag).type = tag /\ Frame(tag).content = <<>>
    BY DEF Frame
  <1>2. <<>> \in Seq(Nodes[k]) /\ Len(<<>>) = 0
    OBVIOUS
  <1>3. Frame(tag) \in BlockNodes(Nodes[k])
    <2>1. Frame(tag) \in [type : Blocks \cup {"doc"}, content : Seq(Nodes[k])]
      BY <1>2 DEF Frame
    <2>2. \A i \in 1 .. Len(Frame(tag).content) : Frame(tag).content[i].type = "list_item"
      BY <1>1, <1>2
    <2> QED BY <2>1, <2>2 DEF BlockNodes
  <1>4. Frame(tag) \in Frames
    BY <1>3 DEF Frames
  <1>5. Mapped(Frame(tag).content, Texts[k]) = <<>>
    BY <1>1 DEF Mapped
  <1>6. Joined(<<>>, <<>>) = <<>>
    <2>1. <<>> \in Seq({})
      OBVIOUS
    <2> QED BY <2>1, JoinedEmpty
  <1> QED BY <1>1, <1>3, <1>4, <1>5, <1>6

(* A block is opened. *)
LEMMA BlockOpened ==
    ASSUME NEW stack, NEW blocks, StackFits(stack, blocks), Len(blocks) < MaxDepth, NEW tag \in Blocks
    PROVE  /\ StackFits(Append(stack, Frame(tag)), Append(blocks, tag))
           /\ Joined(HeldTexts(Append(stack, Frame(tag))), <<>>) = Joined(HeldTexts(stack), <<>>)
PROOF
  <1> DEFINE n == Len(stack)
             stack2 == Append(stack, Frame(tag))
             blocks2 == Append(blocks, tag)
  <1>0. /\ stack \in Seq(Frames) /\ blocks \in Seq(Blocks) /\ n = Len(blocks) + 1 /\ n \in Nat
        /\ n + 1 <= Height /\ Height \in Nat
    BY DepthAssumption DEF StackFits, Height
  <1>1. Height - (n + 1) \in 0 .. Height /\ Height - (n + 1) + 1 \in 0 .. Height
    BY <1>0
  <1>2. /\ Frame(tag) \in BlockNodes(Nodes[Height - (n + 1)])
        /\ Frame(tag) \in Frames /\ Frame(tag).type = tag
    BY <1>1, EmptyFrame
  <1>3. /\ stack2 \in Seq(Frames) /\ Len(stack2) = n + 1 /\ stack2[n + 1] = Frame(tag)
        /\ \A k \in 1 .. n : stack2[k] = stack[k]
    BY <1>0, <1>2
  <1>4. /\ blocks2 \in Seq(Blocks) /\ Len(blocks2) = n /\ blocks2[n] = tag
        /\ \A k \in 1 .. n - 1 : blocks2[k] = blocks[k]
    BY <1>0
  <1>5. StackFits(stack2, blocks2)
    <2> HIDE DEF stack2, blocks2
    <2>1. Len(stack2) = Len(blocks2) + 1 /\ Len(blocks2) <= MaxDepth
      BY <1>0, <1>3, <1>4, DepthAssumption
    <2>2. stack2[1].type = "doc"
      <3>1. 1 \in 1 .. n
        BY <1>0 DEF StackFits
      <3> QED BY <1>3, <3>1 DEF StackFits
    <2>3. \A k \in 1 .. Len(blocks2) : stack2[k + 1].type = blocks2[k]
      <3> SUFFICES ASSUME NEW k \in 1 .. n PROVE stack2[k + 1].type = blocks2[k]
        BY <1>4
      <3>1. CASE k = n
        BY <1>2, <1>3, <1>4, <3>1
      <3>2. CASE k # n
        <4>1. k \in 1 .. n - 1 /\ k \in 1 .. Len(blocks) /\ k + 1 \in 1 .. n
          BY <1>0, <3>2
        <4> QED BY <1>3, <1>4, <4>1 DEF StackFits
      <3> QED BY <3>1, <3>2
    <2>4. \A k \in 1 .. Len(stack2) : stack2[k] \in BlockNodes(Nodes[Height - k])
      <3> SUFFICES ASSUME NEW k \in 1 .. n + 1 PROVE stack2[k] \in BlockNodes(Nodes[Height - k])
        BY <1>3
      <3>1. CASE k = n + 1
        BY <1>2, <1>3, <3>1
      <3>2. CASE k # n + 1
        <4>1. k \in 1 .. n
          BY <1>0, <3>2
        <4> QED BY <1>3, <4>1 DEF StackFits
      <3> QED BY <3>1, <3>2
    <2> QED BY <1>3, <1>4, <2>1, <2>2, <2>3, <2>4 DEF StackFits
  <1>6. /\ HeldTexts(stack) \in Seq(Seq(TextNodes)) /\ Len(HeldTexts(stack)) = n
        /\ \A k \in 1 .. n : HeldTexts(stack)[k] = Texts[Height - k + 1][stack[k]]
    BY HeldType
  <1> HIDE DEF stack2, blocks2
  <1>7. /\ HeldTexts(stack2) \in Seq(Seq(TextNodes)) /\ Len(HeldTexts(stack2)) = n + 1
        /\ \A k \in 1 .. n + 1 : HeldTexts(stack2)[k] = Texts[Height - k + 1][stack2[k]]
    BY <1>3, <1>5, HeldType
  <1>8. HeldTexts(stack2)[n + 1] = <<>>
    <2>1. n + 1 \in 1 .. Len(stack2)
      BY <1>0, <1>3
    <2>2. Texts[Height - (n + 1) + 1][stack2[n + 1]] =
             Joined(Mapped(stack2[n + 1].content, Texts[Height - (n + 1)]), <<>>)
      BY <1>5, <2>1, FrameLevel
    <2>3. Joined(Mapped(Frame(tag).content, Texts[Height - (n + 1)]), <<>>) = <<>>
      BY <1>1, EmptyFrame
    <2> QED BY <1>0, <1>3, <1>7, <2>2, <2>3
  <1> DEFINE p == HeldTexts(stack)
             q == HeldTexts(stack2)
             e == <<>>
  <1>9. q = Append(p, e)
    <2>1. \A k \in 1 .. n : q[k] = p[k]
      <3> SUFFICES ASSUME NEW k \in 1 .. n PROVE q[k] = p[k]
        OBVIOUS
      <3>1. k \in 1 .. n + 1
        BY <1>0
      <3>2. q[k] = Texts[Height - k + 1][stack2[k]] /\ p[k] = Texts[Height - k + 1][stack[k]]
        BY <1>6, <1>7, <3>1
      <3> QED BY <1>3, <3>2
    <2>2. p \in Seq(Seq(TextNodes)) /\ q \in Seq(Seq(TextNodes)) /\ Len(p) = n /\ Len(q) = n + 1 /\ q[n + 1] = e
      BY <1>6, <1>7, <1>8
    <2>3. n \in Nat
      BY <1>0
    <2> HIDE DEF p, q, n
    <2>4. Append(p, e) \in Seq(Seq(TextNodes)) /\ Len(Append(p, e)) = n + 1
          /\ \A k \in 1 .. n + 1 : Append(p, e)[k] = q[k]
      BY <2>1, <2>2, <2>3
    <2> HIDE DEF e
    <2> QED BY <2>2, <2>4, SeqEqual
  <1>10. Joined(q, e) = Joined(p, e)
    <2>1. p \in Seq(Seq(TextNodes)) /\ e \in Seq(TextNodes)
      BY <1>6
    <2> HIDE DEF p, q
    <2>2. Joined(Append(p, e), <<>>) = Cat(Joined(p, <<>>), e)
      BY <2>1, JoinedFlat
    <2>3. Joined(p, <<>>) \in Seq(TextNodes)
      BY <2>1, JoinedType
    <2>4. Cat(Joined(p, <<>>), <<>>) = Joined(p, <<>>)
      BY <2>3, CatEmpty
    <2> QED BY <1>9, <2>2, <2>4
  <1> QED BY <1>5, <1>10 DEF stack2, blocks2

(* To join what ends in a larger last part. *)
LEMMA LastGrows ==
    ASSUME NEW T, NEW p \in Seq(Seq(T)), NEW q \in Seq(Seq(T)), NEW x \in Seq(T), p # <<>>,
           Len(q) = Len(p), \A k \in 1 .. Len(p) - 1 : q[k] = p[k],
           q[Len(p)] = Cat(p[Len(p)], x)
    PROVE  Joined(q, <<>>) = Cat(Joined(p, <<>>), x)
PROOF
  <1> DEFINE n == Len(p)
             V == Seq(T)
             r == [k \in 1 .. n - 1 |-> p[k]]
             l == p[n]
             m == q[n]
  <1>0. n \in Nat /\ n # 0 /\ n \in 1 .. n
    OBVIOUS
  <1>1. l \in V /\ m \in V
    OBVIOUS
  <1>2. r \in Seq(V) /\ Len(r) = n - 1 /\ \A k \in 1 .. n - 1 : r[k] = p[k]
    OBVIOUS
  <1> HIDE DEF r, V
  <1>3. p = Append(r, l)
    <2>1. Append(r, l) \in Seq(V) /\ Len(Append(r, l)) = n /\ \A k \in 1 .. n : Append(r, l)[k] = p[k]
      BY <1>0, <1>1, <1>2
    <2>2. p \in Seq(V)
      BY DEF V
    <2> QED BY <2>1, <2>2, SeqEqual
  <1>4. q = Append(r, m)
    <2>0. m \in V /\ m = q[n] /\ \A k \in 1 .. n - 1 : r[k] = q[k]
      BY <1>1, <1>2
    <2>1. Append(r, m) \in Seq(V) /\ Len(Append(r, m)) = n /\ \A k \in 1 .. n : Append(r, m)[k] = q[k]
      <3> HIDE DEF m, n
      <3> QED BY <1>0, <1>2, <2>0
    <2>2. q \in Seq(V)
      BY DEF V
    <2> QED BY <2>1, <2>2, SeqEqual
  <1>5. m = Cat(l, x)
    OBVIOUS
  <1>6. r \in Seq(Seq(T)) /\ l \in Seq(T) /\ m \in Seq(T)
    BY <1>1, <1>2 DEF V
  <1> HIDE DEF l, m, n
  <1>7. Joined(Append(r, l), <<>>) = Cat(Joined(r, <<>>), l)
    BY <1>6, JoinedFlat
  <1>8. Joined(Append(r, m), <<>>) = Cat(Joined(r, <<>>), m)
    BY <1>6, JoinedFlat
  <1> DEFINE j == Joined(r, <<>>)
  <1>9. j \in Seq(T)
    <2> DEFINE e == <<>>
    <2>1. e \in Seq(T)
      OBVIOUS
    <2> HIDE DEF e
    <2>2. Joined(r, e) \in Seq(T)
      BY <1>6, <2>1, JoinedType
    <2> QED BY <2>2 DEF e
  <1> HIDE DEF j
  <1>10. Cat(Cat(j, l), x) = Cat(j, Cat(l, x))
    BY <1>6, <1>9, CatAssociative
  <1> QED BY <1>3, <1>4, <1>5, <1>7, <1>8, <1>10 DEF j

(* One more node in a frame. *)
LEMMA MappedAppend ==
    ASSUME NEW D, NEW c \in Seq(D), NEW x \in D, NEW f
    PROVE  Mapped(Append(c, x), f) = Append(Mapped(c, f), f[x])
PROOF
  <1> DEFINE n == Len(c)
             V == {f[y] : y \in D}
             a == Append(c, x)
  <1>1. a \in Seq(D) /\ Len(a) = n + 1 /\ n \in Nat /\ a[n + 1] = x /\ \A i \in 1 .. n : a[i] = c[i]
    OBVIOUS
  <1>2. \A y \in D : f[y] \in V
    OBVIOUS
  <1> HIDE DEF a, V, n
  <1>3. /\ Mapped(c, f) \in Seq(V) /\ Len(Mapped(c, f)) = n
        /\ \A i \in 1 .. n : Mapped(c, f)[i] = f[c[i]]
    BY <1>2, MappedType DEF n
  <1>4. /\ Mapped(a, f) \in Seq(V) /\ Len(Mapped(a, f)) = n + 1
        /\ \A i \in 1 .. n + 1 : Mapped(a, f)[i] = f[a[i]]
    BY <1>1, <1>2, MappedType
  <1> DEFINE p == Mapped(c, f)
             q == Mapped(a, f)
             y == f[x]
  <1>5. y \in V
    BY <1>2
  <1>6. \A i \in 1 .. n : q[i] = p[i]
    BY <1>1, <1>3, <1>4
  <1>7. q[n + 1] = y
    BY <1>1, <1>4
  <1> HIDE DEF p, q, y
  <1>8. Append(p, y) \in Seq(V) /\ Len(Append(p, y)) = n + 1 /\ \A i \in 1 .. n + 1 : Append(p, y)[i] = q[i]
    BY <1>1, <1>3, <1>5, <1>6, <1>7 DEF p
  <1>9. q = Append(p, y)
    BY <1>4, <1>8, SeqEqual DEF q
  <1> QED BY <1>9 DEF p, q, y, a

\* The stack with one more node in its innermost frame.
Pushed(stack, node) == [stack EXCEPT ![Len(stack)].content = Append(@, node)]

(* A node is pushed. *)
LEMMA NodePushed ==
    ASSUME NEW stack, NEW blocks, StackFits(stack, blocks), NEW node \in Nodes[Height - Len(stack)],
           stack[Len(stack)].type \in Lists => node.type = "list_item"
    PROVE  /\ StackFits(Pushed(stack, node), blocks)
           /\ Joined(HeldTexts(Pushed(stack, node)), <<>>) =
                 Cat(Joined(HeldTexts(stack), <<>>), Texts[Height - Len(stack)][node])
PROOF
  <1> DEFINE n == Len(stack)
             top == stack[n]
             top2 == [top EXCEPT !.content = Append(@, node)]
             stack2 == Pushed(stack, node)
             D == Nodes[Height - n]
  <1>0. /\ stack \in Seq(Frames) /\ blocks \in Seq(Blocks) /\ n = Len(blocks) + 1 /\ n \in Nat /\ n # 0
        /\ n \in 1 .. n
    BY DEF StackFits
  <1>1. /\ Height - n \in 0 .. Height /\ Height - n + 1 \in 0 .. Height
        /\ top \in BlockNodes(D)
        /\ Texts[Height - n + 1][top] = Joined(Mapped(top.content, Texts[Height - n]), <<>>)
    BY <1>0, FrameLevel
  <1>2. top \in [type : Blocks \cup {"doc"}, content : Seq(D)]
    BY <1>1 DEF BlockNodes
  <1>3. top2 = [type |-> top.type, content |-> Append(top.content, node)]
    <2> DEFINE z == Append(top.content, node)
               C == Seq(D)
    <2>1. top \in [type : Blocks \cup {"doc"}, content : C]
      BY <1>2
    <2> HIDE DEF top, C, z
    <2>2. [top EXCEPT !.content = z] = [type |-> top.type, content |-> z]
      BY <2>1
    <2> QED BY <2>2 DEF z
  <1>4. top.content \in Seq(D) /\ node \in D /\ top.type \in Blocks \cup {"doc"}
    BY <1>2
  <1> HIDE DEF D, top, top2
  <1>5. top2.type = top.type /\ top2.content = Append(top.content, node)
    BY <1>3
  <1>6. top2 \in BlockNodes(D)
    <2>1. Append(top.content, node) \in Seq(D)
      BY <1>4
    <2>2. top2 \in [type : Blocks \cup {"doc"}, content : Seq(D)]
      BY <1>3, <1>4, <2>1
    <2>3. ASSUME top2.type \in Lists PROVE \A i \in 1 .. Len(top2.content) : top2.content[i].type = "list_item"
      <3>1. \A i \in 1 .. Len(top.content) : top.content[i].type = "list_item"
        BY <1>1, <1>5, <2>3, BlockKinds
      <3>2. node.type = "list_item"
        BY <1>5, <2>3 DEF top
      <3> QED BY <1>4, <1>5, <3>1, <3>2
    <2> QED BY <2>2, <2>3 DEF BlockNodes
  <1>7. top2 \in Frames
    BY <1>1, <1>6 DEF Frames, D
  <1>8. stack2 = [stack EXCEPT ![n] = top2]
    BY DEF Pushed, top2, top
  <1>9. /\ stack2 \in Seq(Frames) /\ Len(stack2) = n /\ stack2[n] = top2
        /\ \A k \in 1 .. n : k # n => stack2[k] = stack[k]
    BY <1>0, <1>7, <1>8
  <1> HIDE DEF stack2
  <1>10. StackFits(stack2, blocks)
    <2>1. \A k \in 1 .. n : stack2[k].type = stack[k].type
      BY <1>5, <1>9 DEF top
    <2>2. \A k \in 1 .. n : stack2[k] \in BlockNodes(Nodes[Height - k])
      <3> SUFFICES ASSUME NEW k \in 1 .. n PROVE stack2[k] \in BlockNodes(Nodes[Height - k])
        OBVIOUS
      <3>1. CASE k = n
        BY <1>6, <1>9, <3>1 DEF D
      <3>2. CASE k # n
        BY <1>9, <3>2 DEF StackFits
      <3> QED BY <3>1, <3>2
    <2>3. 1 \in 1 .. n /\ \A k \in 1 .. Len(blocks) : k + 1 \in 1 .. n
      BY <1>0
    <2>4. stack2[1].type = "doc" /\ \A k \in 1 .. Len(blocks) : stack2[k + 1].type = blocks[k]
      BY <2>1, <2>3 DEF StackFits
    <2> QED BY <1>0, <1>9, <2>2, <2>4 DEF StackFits
  <1> DEFINE p == HeldTexts(stack)
             q == HeldTexts(stack2)
             x == Texts[Height - n][node]
             V == Seq(TextNodes)
  <1>11. /\ p \in Seq(V) /\ Len(p) = n
         /\ \A k \in 1 .. n : p[k] = Texts[Height - k + 1][stack[k]]
    BY HeldType
  <1>12. /\ q \in Seq(V) /\ Len(q) = n
         /\ \A k \in 1 .. n : q[k] = Texts[Height - k + 1][stack2[k]]
    BY <1>9, <1>10, HeldType
  <1>13. x \in V
    <2> DEFINE l == Height - n
    <2>1. l \in 0 .. Height /\ node \in Nodes[l]
      BY <1>1
    <2> HIDE DEF l
    <2>2. Texts[l][node] \in Seq(TextNodes)
      BY <2>1, TextsType
    <2> QED BY <2>2 DEF l
  <1>14. q[n] = Cat(p[n], x)
    <2> DEFINE f == Texts[Height - n]
               W == Seq(TextNodes)
    <2>1. Texts[Height - n + 1][top2] = Joined(Mapped(top2.content, f), <<>>)
      <3>1. /\ stack2[n] = top2 /\ n \in 1 .. Len(stack2)
        BY <1>0, <1>9
      <3>2. Texts[Height - n + 1][stack2[n]] = Joined(Mapped(stack2[n].content, f), <<>>)
        BY <1>10, <3>1, FrameLevel
      <3> QED BY <3>1, <3>2
    <2>2. \A y \in D : f[y] \in W
      <3> DEFINE l == Height - n
      <3>1. l \in 0 .. Height
        BY <1>1
      <3> HIDE DEF l
      <3>2. \A y \in Nodes[l] : Texts[l][y] \in Seq(TextNodes)
        BY <3>1, TextsType
      <3> QED BY <3>2 DEF D, l
    <2> HIDE DEF f, W
    <2>3. Mapped(Append(top.content, node), f) = Append(Mapped(top.content, f), f[node])
      BY <1>4, MappedAppend
    <2>4. Mapped(top.content, f) \in Seq(W) /\ f[node] \in W
      BY <1>4, <2>2, MappedType
    <2>5. Mapped(top.content, f) \in Seq(Seq(TextNodes)) /\ f[node] \in Seq(TextNodes)
      BY <2>4 DEF W
    <2>6. Joined(Append(Mapped(top.content, f), f[node]), <<>>) =
             Cat(Joined(Mapped(top.content, f), <<>>), f[node])
      BY <2>5, JoinedFlat
    <2>7. q[n] = Texts[Height - n + 1][top2] /\ p[n] = Texts[Height - n + 1][top]
      BY <1>0, <1>9, <1>11, <1>12 DEF top
    <2>8. p[n] = Joined(Mapped(top.content, f), <<>>)
      BY <1>1, <2>7 DEF f
    <2>9. q[n] = Joined(Append(Mapped(top.content, f), f[node]), <<>>)
      BY <1>5, <2>1, <2>3, <2>7
    <2> QED BY <2>6, <2>8, <2>9 DEF f
  <1>15. \A k \in 1 .. n - 1 : q[k] = p[k]
    <2> SUFFICES ASSUME NEW k \in 1 .. n - 1 PROVE q[k] = p[k]
      OBVIOUS
    <2>1. k \in 1 .. n /\ k # n
      BY <1>0
    <2>2. q[k] = Texts[Height - k + 1][stack2[k]] /\ p[k] = Texts[Height - k + 1][stack[k]]
      BY <1>11, <1>12, <2>1
    <2> QED BY <1>9, <2>1, <2>2
  <1>16. Joined(q, <<>>) = Cat(Joined(p, <<>>), x)
    <2>1. p # <<>>
      BY <1>0, <1>11
    <2>2. p \in Seq(Seq(TextNodes)) /\ q \in Seq(Seq(TextNodes)) /\ x \in Seq(TextNodes) /\ Len(q) = Len(p)
      BY <1>11, <1>12, <1>13
    <2>3. (\A k \in 1 .. Len(p) - 1 : q[k] = p[k]) /\ q[Len(p)] = Cat(p[Len(p)], x)
      BY <1>11, <1>14, <1>15
    <2> HIDE DEF p, q, x
    <2> QED BY <2>1, <2>2, <2>3, LastGrows
  <1> QED BY <1>10, <1>16 DEF stack2

(* A sequence is its front and its last element. *)
LEMMA FrontAndLast ==
    ASSUME NEW T, NEW s \in Seq(T), s # <<>>
    PROVE  /\ Front(s) \in Seq(T) /\ Last(s) \in T /\ s = Append(Front(s), Last(s))
           /\ Len(Front(s)) = Len(s) - 1 /\ Last(s) = s[Len(s)]
           /\ \A k \in 1 .. Len(s) - 1 : Front(s)[k] = s[k]
PROOF
  <1>0. Len(s) \in Nat /\ Len(s) # 0
    OBVIOUS
  <1>1. /\ Front(s) \in Seq(T) /\ Len(Front(s)) = Len(s) - 1
        /\ \A k \in 1 .. Len(s) - 1 : Front(s)[k] = s[k]
    <2> DEFINE n == Len(s) - 1
               r == SubSeq(s, 1, n)
    <2>1. n \in Int /\ n \in Nat /\ 1 \in Int /\ n = Len(s) - 1 /\ \A i \in 1 .. n : s[i] \in T
      BY <1>0
    <2> HIDE DEF n
    <2>2. r \in Seq(T) /\ Len(r) = IF 1 <= n THEN n - 1 + 1 ELSE 0
      BY <2>1, SubSeqProperties
    <2>3. \A i \in 1 .. n - 1 + 1 : r[i] = s[1 + i - 1]
      BY <2>1, SubSeqProperties
    <2> HIDE DEF r
    <2>4. Len(r) = n /\ \A i \in 1 .. n : r[i] = s[i]
      <3>1. n - 1 + 1 = n
        BY <2>1
      <3>2. \A i \in 1 .. n : 1 + i - 1 = i
        BY <2>1
      <3>3. \A i \in 1 .. n : r[i] = s[i]
        BY <2>3, <3>1, <3>2
      <3>4. Len(r) = n
        BY <2>1, <2>2
      <3> QED BY <3>3, <3>4
    <2>5. Front(s) = r
      BY DEF Front, n, r
    <2> QED BY <2>1, <2>2, <2>4, <2>5
  <1>2. Last(s) \in T /\ Last(s) = s[Len(s)]
    BY <1>0 DEF Last
  <1> DEFINE f == Front(s)
             l == Last(s)
  <1> HIDE DEF f, l
  <1>3. Append(f, l) \in Seq(T) /\ Len(Append(f, l)) = Len(s) /\ \A k \in 1 .. Len(s) : Append(f, l)[k] = s[k]
    <2>1. /\ f \in Seq(T) /\ Len(f) = Len(s) - 1 /\ \A k \in 1 .. Len(s) - 1 : f[k] = s[k]
          /\ l \in T /\ l = s[Len(s)]
      BY <1>1, <1>2 DEF f, l
    <2> QED BY <1>0, <2>1
  <1>4. s = Append(f, l)
    BY <1>3, SeqEqual
  <1> QED BY <1>1, <1>2, <1>4 DEF f, l

(* If the innermost open block is a list, then no mark is open in it. *)
LEMMA ListOnTop ==
    ASSUME NEW o \in Seq(Tags), WellNested(o), Kept(o, Blocks) # <<>>,
           Kept(o, Blocks)[Len(Kept(o, Blocks))] \in Lists
    PROVE  o # <<>> /\ o[Len(o)] \in Lists
PROOF
  <1> DEFINE n == Len(o)
  <1>0. n \in Nat
    OBVIOUS
  <1>1. PICK f \in [0 .. n -> Seq(Tags)] : KeptLoopOf(f, o, Blocks)
    BY KeptLoop
  <1>2. /\ f[0] = <<>> /\ Kept(o, Blocks) = f[n]
        /\ \A i \in 1 .. n : f[i] = KeptTurn(o, Blocks, i, f[i - 1])
    BY <1>1 DEF KeptLoopOf
  <1> DEFINE S == {i \in 0 .. n : f[i] # <<>> /\ f[i][Len(f[i])] \in Lists => i # 0 /\ o[i] \in Lists}
  <1>3. 0 \in S
    BY <1>0, <1>2
  <1>4. ASSUME NEW i \in 0 .. n, i \in S, i < n PROVE i + 1 \in S
    <2>1. i + 1 \in 1 .. n /\ (i + 1) - 1 = i /\ i + 1 \in 0 .. n /\ i + 1 # 0
      BY <1>0, <1>4
    <2>2. f[i + 1] = KeptTurn(o, Blocks, i + 1, f[i]) /\ f[i] \in Seq(Tags) /\ o[i + 1] \in Tags
      BY <1>2, <2>1
    <2>3. CASE o[i + 1] \in Blocks
      <3>1. f[i + 1] = Append(f[i], o[i + 1])
        BY <2>2, <2>3 DEF KeptTurn
      <3>2. f[i + 1][Len(f[i + 1])] = o[i + 1]
        BY <2>2, <3>1
      <3> QED BY <2>1, <3>2
    <2>4. CASE o[i + 1] \notin Blocks
      <3>1. f[i + 1] = f[i]
        BY <2>2, <2>4 DEF KeptTurn
      <3>2. ASSUME f[i] # <<>>, f[i][Len(f[i])] \in Lists PROVE FALSE
        <4>1. i # 0 /\ o[i] \in Lists
          BY <1>4, <3>2
        <4>2. o[i + 1] = "list_item"
          <5>1. i + 1 > 1 /\ i + 1 \in 1 .. Len(o)
            BY <2>1, <4>1
          <5> QED BY <2>1, <4>1, <5>1 DEF WellNested
        <4> QED BY <2>4, <4>2 DEF Blocks
      <3> QED BY <2>1, <3>1, <3>2
    <2> QED BY <2>3, <2>4
  <1>5. n \in S
    <2>1. \A i \in 0 .. n : i \in S /\ i < n => i + 1 \in S
      BY <1>4
    <2>2. 0 .. n \subseteq S
      <3> HIDE DEF S, n
      <3> QED BY <1>0, <1>3, <2>1, UpTo
    <2>3. n \in 0 .. n
      BY <1>0
    <2> QED BY <2>2, <2>3
  <1> QED BY <1>2, <1>5

(* A block is closed and goes to its parent. *)
LEMMA BlockClosed ==
    ASSUME NEW stack, NEW blocks, NEW tag \in Blocks, blocks \in Seq(Blocks),
           StackFits(stack, Append(blocks, tag)),
           blocks # <<>> /\ blocks[Len(blocks)] \in Lists => tag = "list_item"
    PROVE  /\ StackFits(Pushed(Front(stack), Last(stack)), blocks)
           /\ Joined(HeldTexts(Pushed(Front(stack), Last(stack))), <<>>) = Joined(HeldTexts(stack), <<>>)
           /\ stack # <<>> /\ Front(stack) # <<>>
PROOF
  <1> DEFINE n == Len(stack)
             lower == Front(stack)
             node == Last(stack)
             blocks2 == Append(blocks, tag)
  <1>0. /\ blocks2 \in Seq(Blocks) /\ Len(blocks2) = Len(blocks) + 1 /\ blocks2[Len(blocks2)] = tag
        /\ \A k \in 1 .. Len(blocks) : blocks2[k] = blocks[k]
    OBVIOUS
  <1>1. /\ stack \in Seq(Frames) /\ n = Len(blocks) + 2 /\ n \in Nat /\ n # 0 /\ stack # <<>>
        /\ Len(blocks2) <= MaxDepth /\ Len(blocks) \in Nat
    BY <1>0 DEF StackFits
  <1>2. /\ lower \in Seq(Frames) /\ Len(lower) = n - 1 /\ node = stack[n]
        /\ \A k \in 1 .. n - 1 : lower[k] = stack[k]
    BY <1>1, FrontAndLast
  <1>3. node.type = tag
    <2>1. Len(blocks2) \in 1 .. Len(blocks2) /\ Len(blocks2) + 1 = n
      BY <1>0, <1>1
    <2>0. StackFits(stack, blocks2)
      OBVIOUS
    <2> HIDE DEF blocks2
    <2>2. stack[Len(blocks2) + 1].type = blocks2[Len(blocks2)]
      BY <2>0, <2>1 DEF StackFits
    <2> QED BY <1>0, <1>2, <2>1, <2>2
  <1> HIDE DEF lower, node, blocks2, n
  <1>4. StackFits(lower, blocks)
    <2>1. lower[1].type = "doc"
      <3>1. 1 \in 1 .. n - 1
        BY <1>1
      <3> QED BY <1>2, <3>1 DEF StackFits, blocks2
    <2>2. ASSUME NEW k \in 1 .. Len(blocks) PROVE lower[k + 1].type = blocks[k]
      <3>1. k + 1 \in 1 .. n - 1 /\ k \in 1 .. Len(blocks2)
        BY <1>0, <1>1
      <3>2. stack[k + 1].type = blocks2[k]
        BY <3>1 DEF StackFits, blocks2
      <3> QED BY <1>0, <1>2, <3>1, <3>2
    <2>3. ASSUME NEW k \in 1 .. Len(lower) PROVE lower[k] \in BlockNodes(Nodes[Height - k])
      <3>1. k \in 1 .. n - 1 /\ k \in 1 .. n
        BY <1>1, <1>2
      <3>2. stack[k] \in BlockNodes(Nodes[Height - k])
        BY <3>1 DEF StackFits, n
      <3> QED BY <1>2, <3>1, <3>2
    <2>4. Len(lower) = Len(blocks) + 1 /\ Len(blocks) <= MaxDepth
      BY <1>0, <1>1, <1>2, DepthAssumption
    <2> QED BY <1>2, <2>1, <2>2, <2>3, <2>4 DEF StackFits
  <1>5. StackFits(stack, blocks2)
    BY DEF blocks2
  <1>6. n \in 1 .. Len(stack)
    BY <1>1 DEF n
  <1>7. Height - Len(lower) = Height - n + 1
    <2>1. Height \in Nat
      BY DepthAssumption DEF Height
    <2> QED BY <1>1, <1>2, <2>1
  <1>8. node \in Nodes[Height - Len(lower)]
    BY <1>2, <1>5, <1>6, <1>7, FrameLevel
  <1>9. lower[Len(lower)].type \in Lists => node.type = "list_item"
    <2> SUFFICES ASSUME lower[Len(lower)].type \in Lists PROVE node.type = "list_item"
      OBVIOUS
    <2>1. CASE blocks = <<>>
      <3>1. lower[Len(lower)].type = "doc"
        BY <1>1, <1>2, <1>4, <2>1 DEF StackFits
      <3> QED BY <3>1 DEF Lists
    <2>2. CASE blocks # <<>>
      <3>1. Len(blocks) \in 1 .. Len(blocks) /\ Len(lower) = Len(blocks) + 1
        BY <1>1, <1>2, <2>2
      <3>2. lower[Len(lower)].type = blocks[Len(blocks)]
        BY <1>4, <3>1 DEF StackFits
      <3> QED BY <1>3, <2>2, <3>2
    <2> QED BY <2>1, <2>2
  <1> DEFINE x == Texts[Height - Len(lower)][node]
             p == HeldTexts(lower)
             q == HeldTexts(stack)
             V == Seq(TextNodes)
  <1>10. /\ StackFits(Pushed(lower, node), blocks)
         /\ Joined(HeldTexts(Pushed(lower, node)), <<>>) = Cat(Joined(p, <<>>), x)
    BY <1>4, <1>8, <1>9, NodePushed
  <1>11. /\ p \in Seq(V) /\ Len(p) = n - 1
         /\ \A k \in 1 .. n - 1 : p[k] = Texts[Height - k + 1][lower[k]]
    BY <1>2, <1>4, HeldType
  <1>12. /\ q \in Seq(V) /\ Len(q) = n
         /\ \A k \in 1 .. n : q[k] = Texts[Height - k + 1][stack[k]]
    BY <1>5, HeldType DEF n
  <1>13. q[n] = x
    BY <1>2, <1>6, <1>7, <1>12 DEF n
  <1>14. \A k \in 1 .. n - 1 : q[k] = p[k]
    <2> SUFFICES ASSUME NEW k \in 1 .. n - 1 PROVE q[k] = p[k]
      OBVIOUS
    <2>1. k \in 1 .. n
      BY <1>1
    <2>2. q[k] = Texts[Height - k + 1][stack[k]] /\ p[k] = Texts[Height - k + 1][lower[k]]
      BY <1>11, <1>12, <2>1
    <2> QED BY <1>2, <2>2
  <1>15. x \in V
    BY <1>1, <1>12, <1>13
  <1> HIDE DEF p, q, x, V
  <1>16. q = Append(p, x)
    <2>1. Append(p, x) \in Seq(V) /\ Len(Append(p, x)) = n /\ \A k \in 1 .. n : Append(p, x)[k] = q[k]
      BY <1>1, <1>11, <1>13, <1>14, <1>15
    <2> QED BY <1>12, <2>1, SeqEqual
  <1>17. Joined(Append(p, x), <<>>) = Cat(Joined(p, <<>>), x)
    <2>1. p \in Seq(Seq(TextNodes)) /\ x \in Seq(TextNodes)
      BY <1>11, <1>15 DEF V
    <2> QED BY <2>1, JoinedFlat
  <1>18. lower # <<>>
    BY <1>1, <1>2
  <1> QED BY <1>1, <1>10, <1>16, <1>17, <1>18 DEF p, q, x, lower, node

(* What push_to_parent and the end of a block do. *)
LEMMA PushIs ==
    ASSUME NEW b, NEW node, b.stack # <<>>, b = [stack |-> b.stack, marks |-> b.marks]
    PROVE  PushToParent(b, node) = [stack |-> Pushed(b.stack, node), marks |-> b.marks]
PROOF
  <1> DEFINE s == b.stack
             m == b.marks
  <1>1. PushToParent(b, node) = [b EXCEPT !.stack = Pushed(s, node)]
    BY DEF PushToParent, Pushed
  <1>2. b = [stack |-> s, marks |-> m]
    OBVIOUS
  <1> HIDE DEF s, m
  <1> QED BY <1>1, <1>2 DEF s, m


-----------------------------------------------------------------------------
(* The initial state and the steps.                                        *)

(* The empty document. *)
LEMMA InitInv == MdInit => MdInv
PROOF
  <1> SUFFICES ASSUME MdInit PROVE MdInv
    OBVIOUS
  <1> USE DEF MdInit
  <1>1. /\ builder.stack = <<Frame("doc")>> /\ builder.marks = <<>>
        /\ builder = [stack |-> builder.stack, marks |-> builder.marks]
    BY DEF NewBuilder
  <1>2. Kept(open, Blocks) = <<>> /\ Kept(open, MarkTags) = <<>>
    BY KeptEmpty
  <1> DEFINE d == Frame("doc")
             p == <<d>>
  <1>3. Height \in Nat /\ Height - 1 \in 0 .. Height /\ Height - 1 + 1 = Height /\ MaxDepth \in Nat
    BY DepthAssumption DEF Height
  <1>4. d \in BlockNodes(Nodes[Height - 1]) /\ d \in Frames /\ d.type = "doc"
    BY <1>3, EmptyFrame
  <1>5. Joined(Mapped(d.content, Texts[Height - 1]), <<>>) = <<>>
    BY <1>3, EmptyFrame
  <1> HIDE DEF d
  <1>6. p \in Seq(Frames) /\ Len(p) = 1 /\ p[1] = d
    BY <1>4
  <1>7. <<>> \in Seq(Blocks) /\ Len(<<>>) = 0
    OBVIOUS
  <1> HIDE DEF p
  <1>8. StackFits(p, <<>>)
    <2>1. \A k \in 1 .. Len(p) : p[k] \in BlockNodes(Nodes[Height - k])
      BY <1>4, <1>6
    <2>2. \A k \in 1 .. Len(<<>>) : p[k + 1].type = <<>>[k]
      BY <1>7
    <2> QED BY <1>3, <1>4, <1>6, <1>7, <2>1, <2>2 DEF StackFits
  <1>9. Joined(HeldTexts(p), <<>>) = <<>>
    <2> DEFINE q == HeldTexts(p)
    <2>1. q \in Seq(Seq(TextNodes)) /\ Len(q) = 1 /\ q[1] = Texts[Height - 1 + 1][p[1]]
      <3>1. 1 \in 1 .. Len(p)
        BY <1>6
      <3> QED BY <1>6, <1>8, <3>1, HeldType
    <2>2. q[1] = <<>>
      <3>1. 1 \in 1 .. Len(p)
        BY <1>6
      <3>2. Texts[Height - 1 + 1][p[1]] = Joined(Mapped(p[1].content, Texts[Height - 1]), <<>>)
        BY <1>8, <3>1, FrameLevel
      <3> QED BY <1>5, <1>6, <2>1, <3>2
    <2> HIDE DEF q
    <2>3. q = Append(<<>>, <<>>)
      BY <2>1, <2>2
    <2>4. Joined(Append(<<>>, <<>>), <<>>) = <<>>
      <3>1. <<>> \in Seq(Seq(TextNodes)) /\ <<>> \in Seq(TextNodes)
        OBVIOUS
      <3> QED BY <3>1, JoinedAppend
    <2> QED BY <2>3, <2>4 DEF q
  <1>10. StackInv
    BY <1>1, <1>2, <1>8 DEF StackInv, p, d
  <1>11. OpenInv
    <2>1. open \in Seq(Tags) /\ Len(open) = 0
      OBVIOUS
    <2> QED BY <1>3, <2>1 DEF OpenInv, WellNested
  <1>12. MarksInv
    <2>1. <<>> \in Seq(MarkTags)
      OBVIOUS
    <2>2. selfNested \in BOOLEAN
      OBVIOUS
    <2>3. builder.marks = <<>> /\ Kept(open, MarkTags) = <<>>
      BY <1>1, <1>2
    <2> QED BY <2>1, <2>2, <2>3 DEF MarksInv
  <1>13. TextsInv
    <2>1. Matches(<<>>, <<>>)
      <3>1. <<>> \in Seq(TextNodes) /\ <<>> \in Seq(Given) /\ Len(<<>>) = 0
        OBVIOUS
      <3> QED BY <3>1 DEF Matches
    <2>2. Joined(HeldTexts(builder.stack), <<>>) = <<>>
      BY <1>1, <1>9 DEF p, d
    <2> QED BY <2>1, <2>2 DEF TextsInv
  <1>14. TreeInv
    BY DEF TreeInv
  <1> QED BY <1>1, <1>10, <1>11, <1>12, <1>13, <1>14 DEF MdInv

(* In a list, only a list item may be opened, and only there. *)
LEMMA MayOpenNested ==
    ASSUME MdInv, NEW tag \in Tags, MayOpen(tag), Len(open) < MaxDepth
    PROVE  /\ Append(open, tag) \in Seq(Tags) /\ Len(Append(open, tag)) <= MaxDepth
           /\ WellNested(Append(open, tag))
PROOF
  <1> DEFINE n == Len(open)
             o == Append(open, tag)
  <1>1. open \in Seq(Tags) /\ n \in Nat /\ WellNested(open)
    BY DEF MdInv, OpenInv
  <1>2. /\ o \in Seq(Tags) /\ Len(o) = n + 1 /\ o[n + 1] = tag
        /\ \A k \in 1 .. n : o[k] = open[k]
    BY <1>1
  <1>3. tag = "list_item" <=> n # 0 /\ open[n] \in Lists
    <2>1. tag = "list_item" <=> Context \in Lists
      <3>1. CASE tag = "list_item"
        BY <3>1 DEF MayOpen, Lists, Blocks, MarkTags, OtherTags
      <3>2. CASE tag # "list_item"
        BY <3>2 DEF MayOpen, Lists, Tags, Flow, Inline, Blocks, MarkTags, OtherTags
      <3> QED BY <3>1, <3>2
    <2>2. CASE open = <<>>
      BY <1>1, <2>1, <2>2 DEF Context, Lists
    <2>3. CASE open # <<>>
      BY <1>1, <2>1, <2>3 DEF Context, Last
    <2> QED BY <2>2, <2>3
  <1> HIDE DEF o
  <1>4. WellNested(o)
    <2> SUFFICES ASSUME NEW j \in 1 .. Len(o)
                 PROVE  o[j] = "list_item" <=> j > 1 /\ o[j - 1] \in Lists
      BY DEF WellNested
    <2>1. CASE j = n + 1
      <3>1. j > 1 <=> n # 0
        BY <1>1, <2>1
      <3>2. n # 0 => o[j - 1] = open[n]
        <4>1. n # 0 => n \in 1 .. n /\ j - 1 = n
          BY <1>1, <2>1
        <4> QED BY <1>2, <4>1
      <3> QED BY <1>2, <1>3, <2>1, <3>1, <3>2
    <2>2. CASE j # n + 1
      <3>1. j \in 1 .. n
        BY <1>1, <1>2, <2>2
      <3>2. j > 1 => j - 1 \in 1 .. n
        BY <1>1, <3>1
      <3>3. o[j] = open[j] /\ (j > 1 => o[j - 1] = open[j - 1])
        BY <1>2, <3>1, <3>2
      <3>4. open[j] = "list_item" <=> j > 1 /\ open[j - 1] \in Lists
        BY <1>1, <3>1 DEF WellNested
      <3> QED BY <3>3, <3>4
    <2> QED BY <2>1, <2>2
  <1>5. n + 1 <= MaxDepth
    BY <1>1, DepthAssumption
  <1> QED BY <1>2, <1>4, <1>5 DEF o

(* What the start of a tag does. *)
LEMMA StartIs ==
    ASSUME NEW b, b = [stack |-> b.stack, marks |-> b.marks], NEW tag
    PROVE  /\ tag \in Blocks =>
                 StartTag(b, tag) = [stack |-> Append(b.stack, Frame(tag)), marks |-> b.marks]
           /\ tag \in MarkTags =>
                 StartTag(b, tag) = [stack |-> b.stack, marks |-> Append(b.marks, tag)]
PROOF
  <1> DEFINE s == b.stack
             m == b.marks
             f == Frame(tag)
  <1>1. tag \in Blocks => StartTag(b, tag) = [b EXCEPT !.stack = Append(s, f)]
    BY DEF StartTag, Blocks, MarkTags, OtherTags
  <1>2. tag \in MarkTags => StartTag(b, tag) = [b EXCEPT !.marks = Append(m, tag)]
    BY DEF StartTag, Blocks, MarkTags, OtherTags
  <1>3. b = [stack |-> s, marks |-> m]
    OBVIOUS
  <1> HIDE DEF s, m, f
  <1> QED BY <1>1, <1>2, <1>3 DEF s, m, f

(* A tag is opened. *)
LEMMA StartInv == MdInv /\ HandleStart => MdInv'
PROOF
  <1> SUFFICES ASSUME MdInv, HandleStart PROVE MdInv'
    OBVIOUS
  <1>1. PICK tag \in Tags : /\ MayOpen(tag)
                            /\ builder' = StartTag(builder, tag) /\ open' = Append(open, tag)
    BY DEF HandleStart, Tags
  <1>2. /\ Len(open) < MaxDepth /\ tree = <<>> /\ tree' = <<>>
        /\ given' = given /\ selfNested' = selfNested /\ count' = count + 1
    BY DEF HandleStart, InText
  <1> DEFINE s == builder.stack
             m == builder.marks
  <1>3. /\ builder = [stack |-> s, marks |-> m] /\ count \in Nat
        /\ open \in Seq(Tags) /\ Len(open) <= MaxDepth
        /\ StackFits(s, Kept(open, Blocks)) /\ m \in Seq(MarkTags) /\ selfNested \in BOOLEAN
        /\ (~selfNested => m = Kept(open, MarkTags))
        /\ Matches(Joined(HeldTexts(s), <<>>), given)
    BY DEF MdInv, OpenInv, StackInv, MarksInv, TextsInv
  <1>4. OpenInv'
    BY <1>1, <1>2, MayOpenNested DEF OpenInv
  <1>5. count' \in Nat /\ TreeInv'
    BY <1>2, <1>3 DEF TreeInv
  <1> HIDE DEF s, m
  <1>6. CASE tag \in Blocks
    <2>1. tag \notin MarkTags
      BY <1>6 DEF Blocks, MarkTags
    <2>2. Kept(open', Blocks) = Append(Kept(open, Blocks), tag) /\ Kept(open', MarkTags) = Kept(open, MarkTags)
      BY <1>1, <1>3, <1>6, <2>1, KeptAppend
    <2>3. Len(Kept(open, Blocks)) < MaxDepth
      <3>1. Len(Kept(open, Blocks)) <= Len(open) /\ Kept(open, Blocks) \in Seq(Tags \cap Blocks)
        BY <1>3, KeptType
      <3>2. Len(Kept(open, Blocks)) \in Nat /\ Len(open) \in Nat
        BY <1>3, <3>1
      <3> QED BY <1>2, <3>1, <3>2, DepthAssumption
    <2>4. builder' = [stack |-> Append(s, Frame(tag)), marks |-> m]
      BY <1>1, <1>3, <1>6, StartIs DEF s, m
    <2>5. /\ StackFits(Append(s, Frame(tag)), Append(Kept(open, Blocks), tag))
          /\ Joined(HeldTexts(Append(s, Frame(tag))), <<>>) = Joined(HeldTexts(s), <<>>)
      BY <1>3, <1>6, <2>3, BlockOpened
    <2>6. builder'.stack = Append(s, Frame(tag)) /\ builder'.marks = m
      BY <2>4
    <2>7. StackInv'
      BY <2>2, <2>5, <2>6 DEF StackInv
    <2>8. TextsInv'
      BY <1>2, <1>3, <2>5, <2>6 DEF TextsInv
    <2>9. MarksInv'
      BY <1>2, <1>3, <2>2, <2>6 DEF MarksInv
    <2> QED BY <1>4, <1>5, <2>4, <2>6, <2>7, <2>8, <2>9 DEF MdInv
  <1>7. CASE tag \in MarkTags
    <2>1. tag \notin Blocks
      BY <1>7 DEF Blocks, MarkTags
    <2>2. Kept(open', Blocks) = Kept(open, Blocks) /\ Kept(open', MarkTags) = Append(Kept(open, MarkTags), tag)
      BY <1>1, <1>3, <1>7, <2>1, KeptAppend
    <2>3. builder' = [stack |-> s, marks |-> Append(m, tag)]
      BY <1>1, <1>3, <1>7, StartIs DEF s, m
    <2>4. builder'.stack = s /\ builder'.marks = Append(m, tag)
      BY <2>3
    <2>5. StackInv' /\ TextsInv'
      BY <1>2, <1>3, <2>2, <2>4 DEF StackInv, TextsInv
    <2>6. Append(m, tag) \in Seq(MarkTags)
      BY <1>3, <1>7
    <2>7. MarksInv'
      BY <1>2, <1>3, <2>2, <2>4, <2>6 DEF MarksInv
    <2> QED BY <1>4, <1>5, <2>3, <2>4, <2>5, <2>7 DEF MdInv
  <1>8. CASE tag \in OtherTags
    <2>1. tag \notin Blocks /\ tag \notin MarkTags
      BY <1>8 DEF Blocks, MarkTags, OtherTags
    <2>2. Kept(open', Blocks) = Kept(open, Blocks) /\ Kept(open', MarkTags) = Kept(open, MarkTags)
      BY <1>1, <1>3, <2>1, KeptAppend
    <2>3. builder' = builder
      BY <1>1, <1>8, <2>1 DEF StartTag
    <2> QED BY <1>2, <1>3, <1>4, <1>5, <2>2, <2>3 DEF MdInv, StackInv, TextsInv, MarksInv, s, m
  <1> QED BY <1>6, <1>7, <1>8 DEF Tags

(* Without the tag and its like, the rest is unchanged. *)
LEMMA WithoutTag ==
    ASSUME NEW s \in Seq(Tags), NEW tag \in MarkTags, ~Contains(s, tag)
    PROVE  Kept(Append(Kept(s, MarkTags), tag), MarkTags \ {tag}) = Kept(s, MarkTags)
PROOF
  <1> DEFINE T == Tags \ {tag}
             r == Kept(s, MarkTags)
             S == MarkTags \ {tag}
  <1>1. s \in Seq(T)
    <2>1. \A i \in 1 .. Len(s) : s[i] # tag
      BY DEF Contains
    <2>2. s \in [1 .. Len(s) -> T] /\ Len(s) \in Nat
      BY <2>1
    <2> QED BY <2>2
  <1>2. r \in Seq(T \cap MarkTags)
    BY <1>1, KeptType
  <1>3. T \cap MarkTags = S
    BY DEF Tags
  <1>4. Kept(r, S) = r
    <2>1. r \in Seq(S)
      BY <1>2, <1>3
    <2> HIDE DEF r, S
    <2> QED BY <2>1, KeptAll
  <1>5. r \in Seq(MarkTags) /\ tag \notin S
    <2> HIDE DEF r
    <2> QED BY <1>2, <1>3
  <1> HIDE DEF r, S
  <1>6. Kept(Append(r, tag), S) = Kept(r, S)
    BY <1>5, KeptAppend
  <1> QED BY <1>4, <1>6 DEF r, S

(* What the end of a tag does. *)
LEMMA EndIs ==
    ASSUME NEW b, b = [stack |-> b.stack, marks |-> b.marks], NEW tag
    PROVE  /\ tag \in Blocks /\ Front(b.stack) # <<>> =>
                 EndTag(b, tag) = [stack |-> Pushed(Front(b.stack), Last(b.stack)), marks |-> b.marks]
           /\ tag \in MarkTags =>
                 EndTag(b, tag) = [stack |-> b.stack, marks |-> Kept(b.marks, MarkTags \ {tag})]
           /\ tag \in OtherTags => EndTag(b, tag) = b
PROOF
  <1> DEFINE s == b.stack
             m == b.marks
             low == Front(s)
             top == Last(s)
             kept == Kept(m, MarkTags \ {tag})
             c == [stack |-> low, marks |-> m]
  <1>1. tag \in Blocks => EndTag(b, tag) = PushToParent([b EXCEPT !.stack = low], top)
    BY DEF EndTag, Blocks, MarkTags, OtherTags
  <1>2. tag \in MarkTags => EndTag(b, tag) = [b EXCEPT !.marks = kept]
    BY DEF EndTag, Blocks, MarkTags, OtherTags
  <1>3. tag \in OtherTags => EndTag(b, tag) = b
    BY DEF EndTag, Blocks, MarkTags, OtherTags
  <1>4. b = [stack |-> s, marks |-> m]
    OBVIOUS
  <1>5. low # <<>> => PushToParent(c, top) = [stack |-> Pushed(low, top), marks |-> m]
    <2>1. c.stack = low /\ c.marks = m /\ c = [stack |-> c.stack, marks |-> c.marks]
      OBVIOUS
    <2> HIDE DEF c, low, m, top
    <2> QED BY <2>1, PushIs
  <1> HIDE DEF s, m, low, top, kept
  <1>6. [b EXCEPT !.stack = low] = c /\ [b EXCEPT !.marks = kept] = [stack |-> s, marks |-> kept]
    BY <1>4
  <1> QED BY <1>1, <1>2, <1>3, <1>5, <1>6 DEF s, m, low, top, kept

(* What is well nested stays so without its last tag. *)
LEMMA FrontNested ==
    ASSUME NEW s \in Seq(Tags), s # <<>>, WellNested(s)
    PROVE  WellNested(Front(s))
PROOF
  <1> DEFINE f == Front(s)
  <1>1. Len(f) = Len(s) - 1 /\ Len(s) \in Nat /\ \A k \in 1 .. Len(s) - 1 : f[k] = s[k]
    BY FrontAndLast
  <1> HIDE DEF f
  <1>2. WellNested(f)
    <2> SUFFICES ASSUME NEW j \in 1 .. Len(f)
                 PROVE  f[j] = "list_item" <=> j > 1 /\ f[j - 1] \in Lists
      BY DEF WellNested
    <2>1. j \in 1 .. Len(s) - 1 /\ j \in 1 .. Len(s) /\ (j > 1 => j - 1 \in 1 .. Len(s) - 1)
      BY <1>1
    <2>2. f[j] = s[j] /\ (j > 1 => f[j - 1] = s[j - 1])
      BY <1>1, <2>1
    <2>3. s[j] = "list_item" <=> j > 1 /\ s[j - 1] \in Lists
      BY <2>1 DEF WellNested
    <2> QED BY <2>2, <2>3
  <1> QED BY <1>2 DEF f

(* A tag is closed. *)
LEMMA EndInv == MdInv /\ HandleEnd => MdInv'
PROOF
  <1> SUFFICES ASSUME MdInv, HandleEnd PROVE MdInv'
    OBVIOUS
  <1> DEFINE s == builder.stack
             m == builder.marks
             rest == Front(open)
             tag == Last(open)
  <1>1. /\ open # <<>> /\ tree = <<>> /\ tree' = <<>> /\ count' = count /\ given' = given
        /\ builder' = EndTag(builder, tag) /\ open' = rest
        /\ selfNested' = (selfNested \/ (tag \in MarkTags /\ Contains(rest, tag)))
    BY DEF HandleEnd
  <1>2. /\ builder = [stack |-> s, marks |-> m] /\ count \in Nat
        /\ open \in Seq(Tags) /\ Len(open) <= MaxDepth /\ WellNested(open)
        /\ StackFits(s, Kept(open, Blocks)) /\ m \in Seq(MarkTags) /\ selfNested \in BOOLEAN
        /\ (~selfNested => m = Kept(open, MarkTags))
        /\ Matches(Joined(HeldTexts(s), <<>>), given)
    BY DEF MdInv, OpenInv, StackInv, MarksInv, TextsInv
  <1>3. /\ rest \in Seq(Tags) /\ tag \in Tags /\ open = Append(rest, tag)
        /\ Len(rest) = Len(open) - 1 /\ tag = open[Len(open)]
        /\ \A k \in 1 .. Len(open) - 1 : rest[k] = open[k]
    BY <1>1, <1>2, FrontAndLast
  <1>4. WellNested(rest)
    BY <1>1, <1>2, FrontNested
  <1> HIDE DEF rest, tag
  <1>5. Len(open) \in Nat
    BY <1>2
  <1>6. OpenInv'
    <2>1. Len(rest) <= MaxDepth
      BY <1>2, <1>3, <1>5, DepthAssumption
    <2> QED BY <1>1, <1>3, <1>4, <2>1 DEF OpenInv
  <1>7. count' \in Nat /\ TreeInv' /\ selfNested' \in BOOLEAN
    BY <1>1, <1>2 DEF TreeInv
  <1>8. CASE tag \in Blocks
    <2>1. tag \notin MarkTags
      BY <1>8 DEF Blocks, MarkTags
    <2>2. Kept(open, Blocks) = Append(Kept(rest, Blocks), tag) /\ Kept(open, MarkTags) = Kept(rest, MarkTags)
      BY <1>3, <1>8, <2>1, KeptAppend
    <2> DEFINE k == Kept(rest, Blocks)
    <2>3. k \in Seq(Blocks)
      <3>1. k \in Seq(Tags \cap Blocks) /\ Tags \cap Blocks = Blocks
        BY <1>3, KeptType DEF Tags
      <3> QED BY <3>1
    <2>4. k # <<>> /\ k[Len(k)] \in Lists => tag = "list_item"
      <3> SUFFICES ASSUME k # <<>>, k[Len(k)] \in Lists PROVE tag = "list_item"
        OBVIOUS
      <3>1. rest # <<>> /\ rest[Len(rest)] \in Lists
        BY <1>3, <1>4, ListOnTop
      <3>2. Len(open) \in 1 .. Len(open) /\ Len(open) - 1 = Len(rest) /\ Len(open) > 1
            /\ Len(open) - 1 \in 1 .. Len(open) - 1
        BY <1>3, <1>5, <3>1
      <3>3. open[Len(open)] = "list_item" <=> Len(open) > 1 /\ open[Len(open) - 1] \in Lists
        BY <1>2, <3>2 DEF WellNested
      <3> QED BY <1>3, <3>1, <3>2, <3>3
    <2> HIDE DEF k
    <2>5. /\ StackFits(Pushed(Front(s), Last(s)), k)
          /\ Joined(HeldTexts(Pushed(Front(s), Last(s))), <<>>) = Joined(HeldTexts(s), <<>>)
          /\ Front(s) # <<>>
      <3>1. StackFits(s, Append(k, tag))
        BY <1>2, <2>2 DEF k
      <3> QED BY <1>8, <2>3, <2>4, <3>1, BlockClosed
    <2>6. builder' = [stack |-> Pushed(Front(s), Last(s)), marks |-> m]
      BY <1>1, <1>2, <1>8, <2>5, EndIs
    <2>7. builder'.stack = Pushed(Front(s), Last(s)) /\ builder'.marks = m
      BY <2>6
    <2>8. StackInv'
      BY <1>1, <2>5, <2>7 DEF StackInv, k
    <2>9. TextsInv'
      BY <1>1, <1>2, <2>5, <2>7 DEF TextsInv
    <2>10. MarksInv'
      <3>1. selfNested' = selfNested /\ open' = rest
        BY <1>1, <1>2, <2>1
      <3> QED BY <1>2, <2>2, <2>7, <3>1 DEF MarksInv
    <2>11. builder' = [stack |-> builder'.stack, marks |-> builder'.marks]
      BY <2>6, <2>7
    <2> QED BY <1>6, <1>7, <2>8, <2>9, <2>10, <2>11 DEF MdInv
  <1>9. CASE tag \in MarkTags
    <2>1. tag \notin Blocks
      BY <1>9 DEF Blocks, MarkTags
    <2>2. Kept(open, Blocks) = Kept(rest, Blocks) /\ Kept(open, MarkTags) = Append(Kept(rest, MarkTags), tag)
      BY <1>3, <1>9, <2>1, KeptAppend
    <2> DEFINE m2 == Kept(m, MarkTags \ {tag})
    <2>3. builder' = [stack |-> s, marks |-> m2]
      BY <1>1, <1>2, <1>9, EndIs
    <2>4. m2 \in Seq(MarkTags)
      <3>1. m2 \in Seq(MarkTags \cap (MarkTags \ {tag}))
        BY <1>2, KeptType
      <3> HIDE DEF m2
      <3> QED BY <3>1
    <2>5. ~selfNested' => m2 = Kept(rest, MarkTags)
      <3> SUFFICES ASSUME ~selfNested' PROVE m2 = Kept(rest, MarkTags)
        OBVIOUS
      <3>1. ~selfNested /\ ~Contains(rest, tag)
        BY <1>1, <1>9
      <3>2. m = Append(Kept(rest, MarkTags), tag)
        BY <1>2, <2>2, <3>1
      <3> QED BY <1>3, <1>9, <3>1, <3>2, WithoutTag
    <2> HIDE DEF m2
    <2>6. builder'.stack = s /\ builder'.marks = m2
      BY <2>3
    <2>7. StackInv' /\ TextsInv'
      BY <1>1, <1>2, <2>2, <2>6 DEF StackInv, TextsInv
    <2>8. MarksInv'
      BY <1>1, <1>7, <2>4, <2>5, <2>6 DEF MarksInv
    <2>9. builder' = [stack |-> builder'.stack, marks |-> builder'.marks]
      BY <2>3, <2>6
    <2> QED BY <1>6, <1>7, <2>7, <2>8, <2>9 DEF MdInv
  <1>10. CASE tag \in OtherTags
    <2>1. tag \notin Blocks /\ tag \notin MarkTags
      BY <1>10 DEF Blocks, MarkTags, OtherTags
    <2>2. Kept(open, Blocks) = Kept(rest, Blocks) /\ Kept(open, MarkTags) = Kept(rest, MarkTags)
      BY <1>3, <2>1, KeptAppend
    <2>3. builder' = builder
      BY <1>1, <1>2, <1>10, EndIs
    <2>4. selfNested' = selfNested /\ open' = rest
      BY <1>1, <1>2, <2>1
    <2> QED BY <1>1, <1>2, <1>6, <1>7, <2>2, <2>3, <2>4 DEF MdInv, StackInv, TextsInv, MarksInv, s, m
  <1> QED BY <1>3, <1>8, <1>9, <1>10 DEF Tags

(* The frame a leaf goes to, of the innermost open block, is no list's. *)
LEMMA TopNoList ==
    ASSUME MdInv, Context \notin Lists
    PROVE  builder.stack[Len(builder.stack)].type \notin Lists
PROOF
  <1> DEFINE s == builder.stack
             k == Kept(open, Blocks)
  <1>1. StackFits(s, k) /\ open \in Seq(Tags) /\ WellNested(open)
    BY DEF MdInv, StackInv, OpenInv
  <1>2. ASSUME k # <<>>, k[Len(k)] \in Lists PROVE FALSE
    <2>1. open # <<>> /\ open[Len(open)] \in Lists
      BY <1>1, <1>2, ListOnTop
    <2> QED BY <2>1 DEF Context, Last
  <1> HIDE DEF s, k
  <1>3. k \in Seq(Blocks) /\ Len(s) = Len(k) + 1 /\ s[1].type = "doc"
    BY <1>1 DEF StackFits
  <1>4. CASE k = <<>>
    <2>1. s[Len(s)].type = "doc"
      BY <1>3, <1>4
    <2> QED BY <2>1 DEF Lists, s
  <1>5. CASE k # <<>>
    <2>1. Len(k) \in 1 .. Len(k)
      BY <1>3, <1>5
    <2>2. s[Len(k) + 1].type = k[Len(k)]
      BY <1>1, <2>1 DEF StackFits
    <2> QED BY <1>2, <1>3, <1>5, <2>2 DEF s
  <1> QED BY <1>4, <1>5

(* A leaf is pushed: a text node is the last text then, another is none. *)
LEMMA LeafPushed ==
    ASSUME NEW stack, NEW blocks, StackFits(stack, blocks), stack[Len(stack)].type \notin Lists,
           NEW node
    PROVE  /\ node \in TextNodes =>
                 /\ StackFits(Pushed(stack, node), blocks)
                 /\ Joined(HeldTexts(Pushed(stack, node)), <<>>) =
                       Cat(Joined(HeldTexts(stack), <<>>), <<node>>)
           /\ node \in {Frame("hard_break"), Frame("horizontal_rule")} =>
                 /\ StackFits(Pushed(stack, node), blocks)
                 /\ Joined(HeldTexts(Pushed(stack, node)), <<>>) = Joined(HeldTexts(stack), <<>>)
PROOF
  <1> DEFINE h == Height - Len(stack)
             old == Joined(HeldTexts(stack), <<>>)
             new == Joined(HeldTexts(Pushed(stack, node)), <<>>)
             sub == IF h = 0 THEN <<>> ELSE Texts[h - 1]
  <1>1. h \in 0 .. Height
    <2>1. Len(stack) \in 1 .. Len(stack)
      BY DEF StackFits
    <2> QED BY <2>1, FrameLevel
  <1>2. old \in Seq(TextNodes)
    <2>1. HeldTexts(stack) \in Seq(Seq(TextNodes))
      BY HeldType
    <2>2. <<>> \in Seq(TextNodes)
      OBVIOUS
    <2> QED BY <2>1, <2>2, JoinedType
  <1>3. Texts[h] = [x \in Nodes[h] |-> TextsIn(x, sub)]
    <2> HIDE DEF h
    <2> QED BY <1>1, TextsDef
  <1>4. ASSUME node \in LeafNodes
        PROVE  /\ StackFits(Pushed(stack, node), blocks) /\ new = Cat(old, Texts[h][node])
               /\ Texts[h][node] = TextsIn(node, sub)
    <2>1. node \in Nodes[h]
      <3> HIDE DEF h
      <3>1. Nodes[h] = IF h = 0 THEN LeafNodes ELSE LeafNodes \cup BlockNodes(Nodes[h - 1])
        BY <1>1, NodesDef
      <3> QED BY <1>4, <3>1
    <2>2. StackFits(Pushed(stack, node), blocks) /\ new = Cat(old, Texts[h][node])
      BY <2>1, NodePushed
    <2> HIDE DEF h, sub
    <2>3. Texts[h][node] = TextsIn(node, sub)
      BY <1>3, <2>1
    <2> QED BY <2>2, <2>3
  <1> HIDE DEF h, old, new, sub
  <1>5. ASSUME node \in TextNodes PROVE StackFits(Pushed(stack, node), blocks) /\ new = Cat(old, <<node>>)
    <2>1. node \in LeafNodes
      BY <1>5 DEF LeafNodes
    <2>2. TextsIn(node, sub) = <<node>>
      BY <1>5, LeafTexts
    <2> QED BY <1>4, <2>1, <2>2
  <1>6. ASSUME node \in {Frame("hard_break"), Frame("horizontal_rule")}
        PROVE  StackFits(Pushed(stack, node), blocks) /\ new = old
    <2>1. node \in LeafNodes
      BY <1>6 DEF LeafNodes
    <2>2. TextsIn(node, sub) = <<>>
      BY <1>6, LeafTexts
    <2>3. Cat(old, <<>>) = old
      BY <1>2, CatEmpty
    <2> QED BY <1>4, <2>1, <2>2, <2>3
  <1> QED BY <1>5, <1>6 DEF old, new

(* One more text, and the event that brought it. *)
LEMMA MatchesMore ==
    ASSUME NEW texts, NEW evs, Matches(texts, evs), NEW node \in TextNodes, NEW ev \in Given,
           node.text = ev.text, ev.marks \in {<<"any">>, node.marks}
    PROVE  Matches(Cat(texts, <<node>>), Append(evs, ev))
PROOF
  <1> DEFINE n == Len(texts)
             t == Append(texts, node)
             e == Append(evs, ev)
  <1>1. texts \in Seq(TextNodes) /\ evs \in Seq(Given) /\ Len(evs) = n /\ n \in Nat
    BY DEF Matches
  <1>2. Cat(texts, <<node>>) = t
    BY <1>1 DEF Cat
  <1>3. t \in Seq(TextNodes) /\ Len(t) = n + 1 /\ t[n + 1] = node /\ \A i \in 1 .. n : t[i] = texts[i]
    BY <1>1
  <1>4. e \in Seq(Given) /\ Len(e) = n + 1 /\ e[n + 1] = ev /\ \A i \in 1 .. n : e[i] = evs[i]
    BY <1>1
  <1> HIDE DEF t, e, n
  <1>5. Matches(t, e)
    <2> SUFFICES ASSUME NEW i \in 1 .. Len(e)
                 PROVE  t[i].text = e[i].text /\ e[i].marks \in {<<"any">>, t[i].marks}
      BY <1>3, <1>4 DEF Matches
    <2>1. CASE i = n + 1
      BY <1>3, <1>4, <2>1
    <2>2. CASE i # n + 1
      <3>1. i \in 1 .. n
        BY <1>1, <1>4, <2>2
      <3>2. texts[i].text = evs[i].text /\ evs[i].marks \in {<<"any">>, texts[i].marks}
        BY <1>1, <3>1 DEF Matches
      <3> QED BY <1>3, <1>4, <3>1, <3>2
    <2> QED BY <2>1, <2>2
  <1> QED BY <1>2, <1>5 DEF t, e

(* The node of each leaf. *)
LEMMA LeafIs ==
    ASSUME NEW b, b.marks \in Seq(MarkTags), NEW n \in Nat, NEW leaf
    PROVE  /\ leaf \in {"text", "html"} =>
                 /\ LeafNode(b, leaf, n) \in TextNodes /\ LeafNode(b, leaf, n).text = n
                 /\ LeafNode(b, leaf, n).marks = b.marks
           /\ leaf = "code" =>
                 /\ LeafNode(b, leaf, n) \in TextNodes /\ LeafNode(b, leaf, n).text = n
                 /\ LeafNode(b, leaf, n).marks = Append(b.marks, "code")
           /\ leaf \in {"hard_break", "horizontal_rule"} =>
                 LeafNode(b, leaf, n) \in {Frame("hard_break"), Frame("horizontal_rule")}
PROOF
  <1> DEFINE m == b.marks
             M == MarkTags \cup {"code"}
             plain == [type |-> "text", text |-> n, marks |-> m]
             mc == Append(m, "code")
             code == [type |-> "text", text |-> n, marks |-> mc]
  <1>1. m \in Seq(M) /\ mc \in Seq(M)
    OBVIOUS
  <1>2. m \o <<>> = m /\ m \o <<"code">> = mc
    OBVIOUS
  <1>3. MakeTextNode(b, n, <<>>) = plain /\ MakeTextNode(b, n, <<"code">>) = code
    <2>1. MakeTextNode(b, n, <<>>) = [type |-> "text", text |-> n, marks |-> m \o <<>>]
      BY DEF MakeTextNode
    <2>2. MakeTextNode(b, n, <<"code">>) = [type |-> "text", text |-> n, marks |-> m \o <<"code">>]
      BY DEF MakeTextNode
    <2> QED BY <1>2, <2>1, <2>2
  <1> HIDE DEF m, mc, M
  <1>4. plain \in TextNodes /\ code \in TextNodes
    BY <1>1 DEF TextNodes, M
  <1>5. plain.text = n /\ plain.marks = m /\ code.text = n /\ code.marks = mc
    OBVIOUS
  <1>6. leaf \in {"text", "html"} => LeafNode(b, leaf, n) = MakeTextNode(b, n, <<>>)
    BY DEF LeafNode
  <1>7. leaf = "code" => LeafNode(b, leaf, n) = MakeTextNode(b, n, <<"code">>)
    BY DEF LeafNode
  <1>8. leaf \in {"hard_break", "horizontal_rule"} => LeafNode(b, leaf, n) = Frame(leaf)
    BY DEF LeafNode
  <1> HIDE DEF plain, code
  <1>9. leaf \in {"text", "html"} => LeafNode(b, leaf, n) = plain
    BY <1>3, <1>6
  <1>10. leaf = "code" => LeafNode(b, leaf, n) = code
    BY <1>3, <1>7
  <1> QED BY <1>4, <1>5, <1>8, <1>9, <1>10 DEF m, mc

\* What a text event is remembered by.
GivenBy(leaf) ==
    [text |-> count + 1,
     marks |-> IF selfNested THEN <<"any">>
               ELSE IF leaf = "code" THEN Append(Around, "code") ELSE Around]

(* A leaf is pushed to the innermost block. *)
LEMMA LeafInv == MdInv /\ HandleLeaf => MdInv'
PROOF
  <1> SUFFICES ASSUME MdInv, HandleLeaf PROVE MdInv'
    OBVIOUS
  <1> DEFINE s == builder.stack
             m == builder.marks
             n == count + 1
             k == Kept(open, Blocks)
  <1>1. PICK leaf \in {"text", "html", "code", "hard_break", "horizontal_rule"} :
           /\ CASE leaf = "horizontal_rule" -> Context \in Flow
                [] leaf = "html"            -> Context \in Flow
                [] leaf = "text"            -> Context \in Inline \cup {"code_block"}
                [] OTHER                    -> Context \in Inline
           /\ builder' = PushToParent(builder, LeafNode(builder, leaf, n))
           /\ given' = IF leaf \in {"hard_break", "horizontal_rule"} THEN given
                       ELSE Append(given, GivenBy(leaf))
    BY DEF HandleLeaf, GivenBy
  <1>2. tree = <<>> /\ tree' = <<>> /\ count' = n /\ open' = open /\ selfNested' = selfNested
    BY DEF HandleLeaf, InText
  <1>3. /\ builder = [stack |-> s, marks |-> m] /\ count \in Nat
        /\ open \in Seq(Tags) /\ StackFits(s, k) /\ m \in Seq(MarkTags) /\ selfNested \in BOOLEAN
        /\ (~selfNested => m = Around)
        /\ Matches(Joined(HeldTexts(s), <<>>), given) /\ OpenInv
    BY DEF MdInv, OpenInv, StackInv, MarksInv, TextsInv, Around
  <1> DEFINE node == LeafNode(builder, leaf, n)
             ev == GivenBy(leaf)
  <1>4. s[Len(s)].type \notin Lists
    <2>1. Context \notin Lists
      BY <1>1 DEF Lists, Flow, Inline, MarkTags
    <2> QED BY <2>1, TopNoList
  <1>5. n \in Nat /\ s # <<>>
    BY <1>3 DEF StackFits
  <1> HIDE DEF s, m, n, k
  <1>6. builder' = [stack |-> Pushed(s, node), marks |-> m]
    <2>1. builder.stack # <<>> /\ builder = [stack |-> builder.stack, marks |-> builder.marks]
      BY <1>3, <1>5 DEF s, m
    <2> HIDE DEF node
    <2>2. PushToParent(builder, node) = [stack |-> Pushed(builder.stack, node), marks |-> builder.marks]
      BY <2>1, PushIs
    <2> QED BY <1>1, <2>2 DEF s, m, node
  <1>7. builder'.stack = Pushed(s, node) /\ builder'.marks = m
    BY <1>6
  <1>8. MarksInv' /\ OpenInv' /\ TreeInv' /\ count' \in Nat
    <2>1. OpenInv'
      BY <1>2, <1>3 DEF OpenInv
    <2>2. MarksInv'
      BY <1>2, <1>3, <1>7 DEF MarksInv, Around
    <2> QED BY <1>2, <1>5, <2>1, <2>2 DEF TreeInv
  <1>9. StackFits(Pushed(s, node), k) => StackInv'
    BY <1>2, <1>7 DEF StackInv, k
  <1>10. Matches(Joined(HeldTexts(Pushed(s, node)), <<>>), given') => TextsInv'
    BY <1>7 DEF TextsInv
  <1>11. builder' = [stack |-> builder'.stack, marks |-> builder'.marks]
    BY <1>6, <1>7
  <1>12. CASE leaf \in {"hard_break", "horizontal_rule"}
    <2>1. node \in {Frame("hard_break"), Frame("horizontal_rule")}
      BY <1>3, <1>5, <1>12, LeafIs DEF m
    <2> HIDE DEF node
    <2>2. StackFits(Pushed(s, node), k) /\ Joined(HeldTexts(Pushed(s, node)), <<>>) = Joined(HeldTexts(s), <<>>)
      BY <1>3, <1>4, <2>1, LeafPushed
    <2>3. given' = given
      BY <1>1, <1>12
    <2>4. StackInv' /\ TextsInv'
      BY <1>3, <1>9, <1>10, <2>2, <2>3
    <2> QED BY <1>8, <1>11, <2>4 DEF MdInv
  <1>13. CASE leaf \in {"text", "html", "code"}
    <2>1. /\ node \in TextNodes /\ node.text = n
          /\ node.marks = IF leaf = "code" THEN Append(m, "code") ELSE m
      <3>1. builder.marks \in Seq(MarkTags) /\ builder.marks = m
        BY <1>3 DEF m
      <3>2. leaf \in {"text", "html"} => node \in TextNodes /\ node.text = n /\ node.marks = builder.marks
        BY <1>5, <3>1, LeafIs
      <3>3. leaf = "code" => node \in TextNodes /\ node.text = n /\ node.marks = Append(builder.marks, "code")
        BY <1>5, <3>1, LeafIs
      <3> HIDE DEF node
      <3>4. CASE leaf = "code"
        BY <3>1, <3>3, <3>4
      <3>5. CASE leaf # "code"
        BY <1>13, <3>1, <3>2, <3>5
      <3> QED BY <3>4, <3>5
    <2>2. ev \in Given /\ ev.text = n /\ ev.marks \in {<<"any">>, node.marks}
      <3> DEFINE x == IF selfNested THEN <<"any">>
                      ELSE IF leaf = "code" THEN Append(Around, "code") ELSE Around
                 M == MarkTags \cup {"code", "any"}
      <3>1. x \in {<<"any">>, node.marks}
        BY <1>3, <2>1
      <3>2. <<"any">> \in Seq(M) /\ m \in Seq(M) /\ Append(m, "code") \in Seq(M)
        <4>1. "any" \in M /\ "code" \in M
          OBVIOUS
        <4>2. MarkTags \subseteq M
          OBVIOUS
        <4> HIDE DEF M
        <4>3. m \in Seq(M)
          BY <1>3, <4>2
        <4> QED BY <4>1, <4>3
      <3>3. x \in Seq(M)
        BY <2>1, <3>1, <3>2
      <3>4. ev = [text |-> n, marks |-> x]
        BY DEF GivenBy, n
      <3> HIDE DEF x, ev, M
      <3>5. ev \in [text : Nat, marks : Seq(M)] /\ ev.text = n /\ ev.marks = x
        BY <1>5, <3>3, <3>4
      <3> QED BY <3>1, <3>5 DEF Given, M
    <2> HIDE DEF node, ev
    <2>3. StackFits(Pushed(s, node), k)
      BY <1>3, <1>4, <2>1, LeafPushed
    <2>4. Joined(HeldTexts(Pushed(s, node)), <<>>) = Cat(Joined(HeldTexts(s), <<>>), <<node>>)
      BY <1>3, <1>4, <2>1, LeafPushed
    <2>5. Matches(Cat(Joined(HeldTexts(s), <<>>), <<node>>), Append(given, ev))
      BY <1>3, <2>1, <2>2, MatchesMore
    <2>6. given' = Append(given, ev)
      BY <1>1, <1>13 DEF ev
    <2>7. StackInv' /\ TextsInv'
      BY <1>9, <1>10, <2>3, <2>4, <2>5, <2>6
    <2> QED BY <1>8, <1>11, <2>7 DEF MdInv
  <1> QED BY <1>12, <1>13

(* The document is finished. *)
LEMMA FinishInv == MdInv /\ FinishDoc => MdInv'
PROOF
  <1> SUFFICES ASSUME MdInv, FinishDoc PROVE MdInv'
    OBVIOUS
  <1>1. /\ open = <<>> /\ UNCHANGED <<builder, open, count, given, selfNested>>
        /\ tree' = IF Len(builder.stack) = 1 THEN <<Last(builder.stack)>> ELSE <<[type |-> "panic"]>>
    BY DEF FinishDoc
  <1>2. Len(builder.stack) = 1
    <2>1. Kept(open, Blocks) = <<>>
      BY <1>1, KeptEmpty
    <2> QED BY <2>1 DEF MdInv, StackInv, StackFits
  <1>3. TreeInv'
    BY <1>1, <1>2 DEF TreeInv, Last
  <1> QED BY <1>1, <1>3 DEF MdInv, OpenInv, StackInv, MarksInv, TextsInv

(* What the finished document and its rendering are. *)
LEMMA MdTextKept == MdInv /\ DroppedInv => TextKept
PROOF
  <1> SUFFICES ASSUME MdInv, DroppedInv, tree # <<>> PROVE TextKept
    BY DEF TextKept
  <1> DEFINE s == builder.stack
             doc == tree[1]
             texts == TextsOf(doc)
             shown == Kept(RenderNode(doc), [text : Nat])
             held == HeldTexts(s)
  <1>1. Len(s) = 1 /\ doc = s[1] /\ StackFits(s, Kept(open, Blocks))
    BY DEF MdInv, TreeInv, StackInv
  <1>2. Matches(Joined(held, <<>>), given)
    BY DEF MdInv, TextsInv
  <1>3. doc.type = "doc" /\ 1 \in 1 .. Len(s)
    BY <1>1 DEF StackFits
  <1>4. Height - 1 + 1 = Height /\ Height \in 0 .. Height
    BY DepthAssumption DEF Height
  <1>5. doc \in Nodes[Height]
    BY <1>1, <1>3, <1>4, FrameLevel
  <1>6. Joined(held, <<>>) = texts
    <2>1. held \in Seq(Seq(TextNodes)) /\ Len(held) = 1 /\ held[1] = texts
      <3>1. held \in Seq(Seq(TextNodes)) /\ Len(held) = 1 /\ held[1] = Texts[Height - 1 + 1][s[1]]
        BY <1>1, <1>3, HeldType
      <3> QED BY <1>1, <1>4, <3>1 DEF TextsOf
    <2> HIDE DEF held, texts
    <2>2. texts \in Seq(TextNodes) /\ held = Append(<<>>, texts)
      BY <2>1
    <2>3. Joined(Append(<<>>, texts), <<>>) = texts
      <3>1. <<>> \in Seq(Seq(TextNodes)) /\ <<>> \in Seq(TextNodes)
        OBVIOUS
      <3> QED BY <2>2, <3>1, JoinedAppend
    <2> QED BY <2>2, <2>3
  <1>7. Shows(RenderNode(doc), texts)
    <2>1. \A node \in Nodes[Height] : Shows(Rendered[Height][node], Texts[Height][node])
      BY <1>4, RenderShows
    <2> QED BY <1>5, <2>1 DEF RenderNode, TextsOf
  <1>8. Len(shown) = Len(texts) /\ \A i \in 1 .. Len(texts) : shown[i].text = texts[i].text
    BY <1>7 DEF Shows
  <1> HIDE DEF held
  <1>9. Matches(texts, given)
    BY <1>2, <1>6
  <1> HIDE DEF texts, shown, doc
  <1>10. /\ Len(texts) = Len(given) /\ given \in Seq(Given)
         /\ \A i \in 1 .. Len(given) :
               texts[i].text = given[i].text /\ given[i].marks \in {<<"any">>, texts[i].marks}
    BY <1>9 DEF Matches
  <1>11. /\ doc.type = "doc"
         /\ Len(texts) = Len(given) /\ Len(shown) = Len(given)
         /\ \A i \in DOMAIN given :
              /\ texts[i].text = given[i].text /\ shown[i].text = given[i].text
              /\ given[i].marks \in {<<"any">>, texts[i].marks}
         /\ \A i \in DOMAIN texts : texts[i].text \notin dropped
    <2>1. DOMAIN given = 1 .. Len(given) /\ DOMAIN texts = 1 .. Len(texts)
      BY <1>9, <1>10 DEF Matches
    <2>2. \A i \in DOMAIN texts : texts[i].text \notin dropped
      BY <1>10, <2>1 DEF DroppedInv
    <2> QED BY <1>3, <1>8, <1>10, <2>1, <2>2
  <1> QED BY <1>11 DEF TextKept, doc, texts, shown

(* An event with an arm and one without are two events. *)
LEMMA DroppedStep == MdInv /\ DroppedInv /\ [MdNext]_mdVars => DroppedInv'
PROOF
  <1> SUFFICES ASSUME MdInv, DroppedInv, [MdNext]_mdVars PROVE DroppedInv'
    OBVIOUS
  <1>1. count \in Nat /\ given \in Seq(Given)
    BY DEF MdInv, TextsInv, Matches
  <1>2. CASE HandleStart \/ HandleEnd \/ FinishDoc \/ UNCHANGED mdVars
    <2>1. UNCHANGED <<given, dropped>> /\ count' \in {count, count + 1}
      BY <1>2 DEF HandleStart, HandleEnd, FinishDoc, mdVars
    <2> QED BY <1>1, <2>1 DEF DroppedInv
  <1>3. CASE HandleLeaf
    <2>1. count' = count + 1 /\ dropped' = dropped
      BY <1>3 DEF HandleLeaf
    <2>2. given' = given \/ \E e : given' = Append(given, e) /\ e.text = count + 1
      BY <1>3 DEF HandleLeaf
    <2>3. ASSUME NEW i \in DOMAIN given' PROVE given'[i].text \in (1 .. count + 1) \ dropped
      <3>1. (i \in DOMAIN given /\ given'[i] = given[i]) \/ given'[i].text = count + 1
        <4>1. CASE given' = given
          BY <2>3, <4>1
        <4>2. ASSUME NEW e, given' = Append(given, e), e.text = count + 1
              PROVE  (i \in DOMAIN given /\ given'[i] = given[i]) \/ given'[i].text = count + 1
          <5>1. Len(given) \in Nat /\ DOMAIN given = 1 .. Len(given)
                /\ DOMAIN given' = 1 .. Len(given) + 1
            BY <1>1, <4>2
          <5>2. CASE i = Len(given) + 1
            <6>1. given'[i] = e
              BY <1>1, <4>2, <5>1, <5>2
            <6> QED BY <4>2, <6>1
          <5>3. CASE i # Len(given) + 1
            BY <1>1, <2>3, <4>2, <5>1, <5>3
          <5> QED BY <5>2, <5>3
        <4> QED BY <2>2, <4>1, <4>2
      <3> QED BY <1>1, <3>1 DEF DroppedInv
    <2> QED BY <1>1, <2>1, <2>3 DEF DroppedInv
  <1>4. CASE HandleUnknown
    BY <1>1, <1>4 DEF HandleUnknown, DroppedInv
  <1> QED BY <1>2, <1>3, <1>4 DEF MdNext

(* TextKept, for documents of every size: the text of the events that handle_event has an arm for *)
(* is not lost, repeated or moved between the events and the rendering, and the emphasis stays on *)
(* it; the text of the others is not in the document.                                             *)
THEOREM TextKeptCorrect == MdSpec => []TextKept
PROOF
  <1>1. MdInv /\ DroppedInv /\ [MdNext]_mdVars => (MdInv /\ DroppedInv)'
    <2> SUFFICES ASSUME MdInv, DroppedInv, [MdNext]_mdVars PROVE MdInv'
      BY DroppedStep
    <2>1. CASE HandleStart
      BY <2>1, StartInv
    <2>2. CASE HandleEnd
      BY <2>2, EndInv
    <2>3. CASE HandleLeaf
      BY <2>3, LeafInv
    <2>4. CASE FinishDoc
      BY <2>4, FinishInv
    <2>5. CASE HandleUnknown
      <3>1. UNCHANGED <<builder, open, given, selfNested, tree>> /\ count' = count + 1
        BY <2>5 DEF HandleUnknown
      <3> QED BY <3>1 DEF MdInv, OpenInv, StackInv, MarksInv, TextsInv, TreeInv
    <2>6. CASE UNCHANGED mdVars
      BY <2>6 DEF mdVars, MdInv, OpenInv, StackInv, MarksInv, TextsInv, TreeInv
    <2> QED BY <2>1, <2>2, <2>3, <2>4, <2>5, <2>6 DEF MdNext
  <1>2. MdInit => MdInv /\ DroppedInv
    <2>1. MdInit => DroppedInv
      BY DEF MdInit, DroppedInv
    <2> QED BY <2>1, InitInv
  <1> QED BY <1>1, <1>2, MdTextKept, PTL DEF MdSpec

=============================================================================
