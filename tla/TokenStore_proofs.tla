------------------------- MODULE TokenStore_proofs --------------------------
(***************************************************************************)
(* Proofs about TokenStore for every set of codes, pairs and concurrent    *)
(* requests, every lifetime and every cap.                                 *)
(***************************************************************************)
EXTENDS TokenStore, FiniteSetTheorems, TLAPS

-----------------------------------------------------------------------------
(* The books.                                                              *)

(* Dropping tokens keeps a book a book and only loses what was dropped. *)
LEMMA WithoutBook ==
    ASSUME NEW T, NEW b \in [T -> Expiry], NEW S
    PROVE  /\ Without(b, S) \in [T -> Expiry]
           /\ \A t \in T : Without(b, S)[t] = IF t \in S THEN Absent ELSE b[t]
           /\ Held(Without(b, S)) \subseteq Held(b)
BY DEF Without, Held, Expiry

(* The room made at the cap: some tokens are dropped, none appears. *)
LEMMA TrimmedBook ==
    ASSUME NEW a \in [Pairs -> Expiry]
    PROVE  /\ Trimmed(a) \in [Pairs -> Expiry]
           /\ \A n \in Pairs : Trimmed(a)[n] = a[n] \/ Trimmed(a)[n] = Absent
           /\ \A n \in Pairs : n \notin Stale(a) => Trimmed(a)[n] = a[n]
           /\ Held(Trimmed(a)) \subseteq Held(a)
<1>1. CASE Trimmed(a) = a
  BY <1>1
<1>2. CASE Trimmed(a) = Without(a, Stale(a))
  <2>1. /\ Without(a, Stale(a)) \in [Pairs -> Expiry]
        /\ \A n \in Pairs : Without(a, Stale(a))[n] = IF n \in Stale(a) THEN Absent ELSE a[n]
        /\ Held(Without(a, Stale(a))) \subseteq Held(a)
    BY WithoutBook
  <2>2. QED
    BY <1>2, <2>1
<1>3. QED
  BY <1>1, <1>2 DEF Trimmed

(* A book that holds fewer tokens counts fewer. *)
LEMMA HeldMonotone ==
    ASSUME NEW T, IsFiniteSet(T), NEW b \in [T -> Expiry], NEW d \in [T -> Expiry],
           Held(d) \subseteq Held(b)
    PROVE  /\ Cardinality(Held(b)) \in Nat
           /\ Cardinality(Held(d)) \in Nat
           /\ Cardinality(Held(d)) <= Cardinality(Held(b))
<1>1. Held(b) \subseteq T
  BY DEF Held
<1>2. IsFiniteSet(Held(b))
  BY <1>1, FS_Subset
<1>3. IsFiniteSet(Held(d)) /\ Cardinality(Held(d)) <= Cardinality(Held(b))
  BY <1>2, FS_Subset
<1>4. QED
  BY <1>2, <1>3, FS_CardinalityType

(* Adding a token where there is room keeps the cap. *)
LEMMA HeldWithOneMore ==
    ASSUME NEW T, IsFiniteSet(T), NEW b \in [T -> Expiry], NEW t \in T, NEW e,
           NEW cap \in Nat, Cardinality(Held(b)) < cap
    PROVE  Cardinality(Held([b EXCEPT ![t] = e])) <= cap
<1> DEFINE d == [b EXCEPT ![t] = e]
           more == Held(b) \union {t}
<1>1. Held(b) \subseteq T
  BY DEF Held
<1>2. IsFiniteSet(Held(b)) /\ Cardinality(Held(b)) \in Nat
  BY <1>1, FS_Subset, FS_CardinalityType
<1>3. Held(d) \subseteq more
  BY DEF Held
<1> HIDE DEF d
<1>4. /\ IsFiniteSet(more)
      /\ Cardinality(more) = IF t \in Held(b) THEN Cardinality(Held(b))
                             ELSE Cardinality(Held(b)) + 1
  BY <1>2, FS_AddElement
<1> HIDE DEF more
<1>5. /\ IsFiniteSet(Held(d))
      /\ Cardinality(Held(d)) <= Cardinality(more)
  BY <1>3, <1>4, FS_Subset
<1>6. Cardinality(Held(d)) \in Nat /\ Cardinality(more) \in Nat
  BY <1>4, <1>5, FS_CardinalityType
<1>7. Cardinality(Held(d)) <= cap
  BY <1>2, <1>4, <1>5, <1>6
<1>8. QED
  BY <1>7 DEF d

-----------------------------------------------------------------------------
(* The two outcomes of _mint_token_pair.                                   *)

(* A mint keeps the types of the books. *)
LEMMA MintType ==
    ASSUME TypeOK, NEW a \in [Pairs -> Expiry], NEW r \in [Pairs -> Expiry],
           NEW l \in SUBSET Pairs, NEW c \in Codes \union {None},
           Mints(a, r, l, c) \/ MintRefused(a, r, l)
    PROVE  /\ access' \in [Pairs -> Expiry]
           /\ refresh' \in [Pairs -> Expiry]
           /\ linked' \in SUBSET Pairs
           /\ origin' \in [Pairs -> Codes \union {None}]
<1>1. Trimmed(a) \in [Pairs -> Expiry]
  BY TrimmedBook
<1>2. clock + AccessTtl \in Expiry /\ clock + RefreshTtl \in Expiry
  BY TtlsAreNat DEF TypeOK, Expiry
<1>3. QED
  BY <1>1, <1>2 DEF Mints, MintRefused, TypeOK

\* The books after a mint: the pairs in new are added for the grant c to
\* what a, r and l held, and only expired access tokens are dropped.
MintAdds(new, a, r, l, c) ==
    /\ \A n, m \in new : n = m
    /\ \A n \in new : origin[n] = None /\ n \in linked'
    /\ \A n \in new : access'[n] # Absent /\ refresh'[n] # Absent
    /\ \A n \in Pairs : origin'[n] = IF n \in new THEN c ELSE origin[n]
    /\ \A n \in Pairs \ new :
          /\ access'[n] = a[n] \/ access'[n] = Absent
          /\ n \notin Stale(a) => access'[n] = a[n]
          /\ refresh'[n] = r[n]
    /\ l \subseteq linked'

(* A mint adds one fresh pair of the grant, or nothing. *)
LEMMA MintEffect ==
    ASSUME TypeOK, NEW a \in [Pairs -> Expiry], NEW r \in [Pairs -> Expiry],
           NEW l \in SUBSET Pairs, NEW c \in Codes,
           Mints(a, r, l, c) \/ MintRefused(a, r, l)
    PROVE  \E new \in SUBSET Pairs : MintAdds(new, a, r, l, c)
<1>1. /\ \A n \in Pairs : Trimmed(a)[n] = a[n] \/ Trimmed(a)[n] = Absent
      /\ \A n \in Pairs : n \notin Stale(a) => Trimmed(a)[n] = a[n]
      /\ Trimmed(a) \in [Pairs -> Expiry]
  BY TrimmedBook
<1>2. CASE Mints(a, r, l, c)
  <2>1. clock + AccessTtl # Absent /\ clock + RefreshTtl # Absent
    BY TtlsAreNat DEF TypeOK, Absent
  <2>2. PICK n \in Pairs :
          /\ origin[n] = None
          /\ access' = [Trimmed(a) EXCEPT ![n] = clock + AccessTtl]
          /\ refresh' = [r EXCEPT ![n] = clock + RefreshTtl]
          /\ linked' = l \union {n}
          /\ origin' = [origin EXCEPT ![n] = c]
    BY <1>2 DEF Mints
  <2>3. MintAdds({n}, a, r, l, c)
    BY <1>1, <2>1, <2>2 DEF TypeOK, MintAdds
  <2>4. QED
    BY <2>3
<1>3. CASE MintRefused(a, r, l)
  <2>1. MintAdds({}, a, r, l, c)
    BY <1>1, <1>3 DEF MintRefused, MintAdds
  <2>2. QED
    BY <2>1
<1>4. QED
  BY <1>2, <1>3

(* A mint respects the cap on access tokens. *)
LEMMA MintBounded ==
    ASSUME TypeOK, NEW a \in [Pairs -> Expiry], NEW r, NEW l, NEW c,
           Held(a) \subseteq Held(access), Cardinality(Held(access)) <= MaxAccess,
           Mints(a, r, l, c) \/ MintRefused(a, r, l)
    PROVE  Cardinality(Held(access')) <= MaxAccess
<1>1. /\ Trimmed(a) \in [Pairs -> Expiry]
      /\ Held(Trimmed(a)) \subseteq Held(access)
  BY TrimmedBook
<1>2. CASE Mints(a, r, l, c)
  <2>1. PICK n \in Pairs : access' = [Trimmed(a) EXCEPT ![n] = clock + AccessTtl]
    BY <1>2 DEF Mints
  <2>2. Cardinality(Held(Trimmed(a))) < MaxAccess
    BY <1>2 DEF Mints
  <2>3. QED
    BY <1>1, <2>1, <2>2, HeldWithOneMore, TokensFinite, CapsAreNat
<1>3. CASE MintRefused(a, r, l)
  <2>1. access' = Trimmed(a)
    BY <1>3 DEF MintRefused
  <2>2. /\ Cardinality(Held(access)) \in Nat
        /\ Cardinality(Held(Trimmed(a))) \in Nat
        /\ Cardinality(Held(Trimmed(a))) <= Cardinality(Held(access))
    BY <1>1, HeldMonotone, TokensFinite DEF TypeOK
  <2>3. QED
    BY <2>1, <2>2, CapsAreNat
<1>4. QED
  BY <1>2, <1>3

-----------------------------------------------------------------------------
(* Every book, request and history keeps its type.                         *)
THEOREM TokenTypes == Spec => []TypeOK
<1>1. Init => TypeOK
  BY DEF Init, TypeOK, Expiry, Absent, RequestState
<1>2. TypeOK /\ [Next]_vars => TypeOK'
  <2> SUFFICES ASSUME TypeOK, [Next]_vars
               PROVE  TypeOK'
    OBVIOUS
  <2> USE DEF TypeOK, books
  <2>1. CASE Tick \/ ClockIsSet
    BY <2>1, CapsAreNat DEF Tick, ClockIsSet
  <2>2. CASE Restart
    BY <2>2, WithoutBook DEF Restart, RequestState
  <2>3. CASE AuthorizeRefused
    BY <2>3, WithoutBook DEF AuthorizeRefused
  <2>4. ASSUME NEW c \in Codes, Authorize(c)
        PROVE  TypeOK'
    <3>1. Without(codes, Stale(codes)) \in [Codes -> Expiry]
      BY WithoutBook
    <3>2. clock + CodeTtl \in Expiry
      BY TtlsAreNat DEF Expiry
    <3>3. QED
      BY <2>4, <3>1, <3>2 DEF Authorize
  <2>5. ASSUME NEW n \in Pairs, DropExpiredRefreshToken(n) \/ DropExpiredAccessToken(n)
        PROVE  TypeOK'
    BY <2>5, WithoutBook DEF DropExpiredRefreshToken, DropExpiredAccessToken
  <2>6. ASSUME NEW q \in Requests, NEW c \in Codes, LoadAuthorizationCode(q, c)
        PROVE  TypeOK'
    BY <2>6 DEF LoadAuthorizationCode, RequestState
  <2>7. ASSUME NEW q \in Requests, NEW n \in Pairs, LoadRefreshToken(q, n)
        PROVE  TypeOK'
    BY <2>7 DEF LoadRefreshToken, RequestState
  <2>8. ASSUME NEW q \in Requests, ExchangeAuthorizationCode(q)
        PROVE  TypeOK'
    <3>1. request[q].of \in Codes
      BY <2>8 DEF ExchangeAuthorizationCode, RequestState, Idle
    <3>2. /\ access' \in [Pairs -> Expiry]
          /\ refresh' \in [Pairs -> Expiry]
          /\ linked' \in SUBSET Pairs
          /\ origin' \in [Pairs -> Codes \union {None}]
      BY <2>8, <3>1, MintType DEF ExchangeAuthorizationCode
    <3>3. codes' \in [Codes -> Expiry]
      BY <2>8, WithoutBook DEF ExchangeAuthorizationCode
    <3>4. QED
      BY <2>8, <3>2, <3>3 DEF ExchangeAuthorizationCode, RequestState
  <2>9. ASSUME NEW q \in Requests, ExchangeRefreshToken(q)
        PROVE  TypeOK'
    <3> DEFINE n == request[q].of
               a == IF n \in linked THEN Without(access, {n}) ELSE access
               r == Without(refresh, {n})
               l == linked \ {n}
    <3>1. n \in Pairs
      BY <2>9 DEF ExchangeRefreshToken, RequestState, Idle
    <3>2. a \in [Pairs -> Expiry] /\ r \in [Pairs -> Expiry] /\ l \in SUBSET Pairs
      BY WithoutBook
    <3>3. Mints(a, r, l, origin[n]) \/ MintRefused(a, r, l)
      BY <2>9 DEF ExchangeRefreshToken
    <3>4. origin[n] \in Codes \union {None}
      BY <3>1
    <3> HIDE DEF a, r, l
    <3>5. /\ access' \in [Pairs -> Expiry]
          /\ refresh' \in [Pairs -> Expiry]
          /\ linked' \in SUBSET Pairs
          /\ origin' \in [Pairs -> Codes \union {None}]
      BY <3>2, <3>3, <3>4, MintType
    <3>6. QED
      BY <2>9, <3>5 DEF ExchangeRefreshToken, RequestState
  <2>10. ASSUME NEW q \in Requests, ExchangeRejected(q)
         PROVE  TypeOK'
    BY <2>10 DEF ExchangeRejected, RequestState
  <2>11. CASE UNCHANGED vars
    BY <2>11 DEF vars
  <2>12. QED
    BY <2>1, <2>2, <2>3, <2>4, <2>5, <2>6, <2>7, <2>8, <2>9, <2>10, <2>11 DEF Next
<1>3. QED
  BY <1>1, <1>2, PTL DEF Spec

-----------------------------------------------------------------------------
(* One pair per grant.                                                     *)

(* A step that only drops tokens, or issues a fresh code, keeps the grants *)
(* apart.                                                                  *)
LEMMA DropKeepsGrants ==
    ASSUME TypeOK, BooksCoherent, OnePairPerGrant,
           UNCHANGED origin, issued \subseteq issued',
           \A c \in Codes : codes'[c] # Absent =>
              c \in issued' /\ (codes[c] # Absent \/ c \notin issued),
           \A n \in Pairs : access'[n] = access[n] \/ access'[n] = Absent,
           \A n \in Pairs : refresh'[n] = refresh[n] \/ refresh'[n] = Absent,
           \A n \in Pairs : refresh'[n] # Absent => n \in linked'
    PROVE  BooksCoherent' /\ OnePairPerGrant'
<1>1. \A n \in Pairs : Live(n)' => Live(n)
  BY DEF Live
<1>2. \A c \in Codes : codes'[c] # Absent => \A n \in Pairs : origin[n] # c
  BY NoneIsNoToken DEF BooksCoherent, None
<1>3. BooksCoherent'
  BY <1>1, <1>2 DEF BooksCoherent
<1>4. OnePairPerGrant'
  BY <1>1, <1>2 DEF OnePairPerGrant
<1>5. QED
  BY <1>3, <1>4

(* A mint for a grant of which nothing is left keeps the grants apart. *)
LEMMA MintKeepsGrants ==
    ASSUME TypeOK, BooksCoherent, OnePairPerGrant,
           NEW a \in [Pairs -> Expiry], NEW r \in [Pairs -> Expiry],
           NEW l \in SUBSET Pairs, NEW c \in Codes,
           Mints(a, r, l, c) \/ MintRefused(a, r, l),
           c \in issued, UNCHANGED issued, codes'[c] = Absent,
           \A d \in Codes : codes'[d] = codes[d] \/ codes'[d] = Absent,
           \A n \in Pairs : a[n] = access[n] \/ a[n] = Absent,
           \A n \in Pairs : r[n] = refresh[n] \/ r[n] = Absent,
           \A n \in Pairs : r[n] # Absent => n \in l,
           \A n \in Pairs : origin[n] = c => a[n] = Absent /\ r[n] = Absent
    PROVE  BooksCoherent' /\ OnePairPerGrant'
<1>1. PICK new \in SUBSET Pairs : MintAdds(new, a, r, l, c)
  BY MintEffect
<1>2. \A n \in Pairs \ new : Live(n)' => Live(n) /\ origin[n] # c /\ origin'[n] = origin[n]
  BY <1>1 DEF Live, MintAdds
<1>3. c # None
  BY NoneIsNoToken DEF None
<1>4. \A d \in Codes : codes'[d] # Absent =>
        d # c /\ codes[d] # Absent /\ d \in issued /\ \A n \in Pairs : origin[n] # d
  BY DEF BooksCoherent
<1>5. BooksCoherent'
  <2>1. \A d \in Codes : codes'[d] # Absent => d \in issued' /\ \A n \in Pairs : origin'[n] # d
    BY <1>1, <1>4 DEF MintAdds
  <2>2. \A n \in Pairs : Live(n)' => origin'[n] # None
    BY <1>1, <1>2, <1>3 DEF BooksCoherent, MintAdds
  <2>3. \A n \in Pairs : origin'[n] # None => origin'[n] \in issued'
    BY <1>1 DEF BooksCoherent, MintAdds
  <2>4. \A n \in Pairs : refresh'[n] # Absent => n \in linked'
    BY <1>1 DEF MintAdds
  <2>5. QED
    BY <2>1, <2>2, <2>3, <2>4 DEF BooksCoherent
<1>6. OnePairPerGrant'
  <2>1. ASSUME NEW n \in Pairs, NEW m \in Pairs, Live(n)', Live(m)', origin'[n] = origin'[m]
        PROVE  n = m
    BY <1>1, <1>2, <2>1 DEF OnePairPerGrant, MintAdds
  <2>2. \A n \in Pairs, d \in Codes : Live(n)' /\ origin'[n] = d => codes'[d] = Absent
    BY <1>1, <1>4 DEF MintAdds
  <2>3. QED
    BY <2>1, <2>2 DEF OnePairPerGrant
<1>7. QED
  BY <1>5, <1>6

(* Every step keeps the grants apart. *)
LEMMA GrantStep ==
    ASSUME TypeOK, BooksCoherent, OnePairPerGrant, [Next]_vars
    PROVE  BooksCoherent' /\ OnePairPerGrant'
<1> USE DEF TypeOK, books
<1>0. /\ \A n \in Pairs : refresh[n] # Absent => n \in linked
      /\ \A c \in Codes : codes[c] # Absent => c \in issued
  BY DEF BooksCoherent
<1>1. CASE UNCHANGED <<books, issued, origin>>
  BY <1>0, <1>1, DropKeepsGrants
<1>2. CASE Restart
  <2>1. /\ \A c \in Codes : codes'[c] = Absent
        /\ \A n \in Pairs : access'[n] = Absent /\ refresh'[n] = Absent
    BY <1>2, WithoutBook DEF Restart
  <2>2. QED
    BY <1>2, <2>1, DropKeepsGrants DEF Restart
<1>3. CASE AuthorizeRefused
  <2>1. \A c \in Codes : codes'[c] = codes[c] \/ codes'[c] = Absent
    BY <1>3, WithoutBook DEF AuthorizeRefused
  <2>2. QED
    BY <1>0, <1>3, <2>1, DropKeepsGrants DEF AuthorizeRefused
<1>4. ASSUME NEW c \in Codes, Authorize(c)
      PROVE  BooksCoherent' /\ OnePairPerGrant'
  <2> DEFINE kept == Without(codes, Stale(codes))
  <2>1. /\ kept \in [Codes -> Expiry]
        /\ \A d \in Codes : kept[d] = codes[d] \/ kept[d] = Absent
    BY WithoutBook
  <2>2. /\ codes' = [kept EXCEPT ![c] = clock + CodeTtl]
        /\ c \notin issued /\ issued' = issued \union {c}
        /\ UNCHANGED <<access, refresh, linked, origin>>
    BY <1>4 DEF Authorize
  <2> HIDE DEF kept
  <2>3. \A d \in Codes : d # c => codes'[d] = codes[d] \/ codes'[d] = Absent
    BY <2>1, <2>2
  <2>4. \A d \in Codes : codes'[d] # Absent =>
           d \in issued' /\ (codes[d] # Absent \/ d \notin issued)
    <3>1. SUFFICES ASSUME NEW d \in Codes, codes'[d] # Absent
                   PROVE  d \in issued' /\ (codes[d] # Absent \/ d \notin issued)
      OBVIOUS
    <3>2. CASE d = c
      BY <2>2, <3>2
    <3>3. CASE d # c
      BY <1>0, <2>2, <2>3, <3>1, <3>3
    <3>4. QED
      BY <3>2, <3>3
  <2>5. /\ \A n \in Pairs : access'[n] = access[n]
        /\ \A n \in Pairs : refresh'[n] = refresh[n]
        /\ linked' = linked /\ origin' = origin /\ issued \subseteq issued'
    BY <2>2
  <2>6. \A n \in Pairs : refresh'[n] # Absent => n \in linked'
    BY <1>0, <2>5
  <2>7. QED
    BY <2>4, <2>5, <2>6, DropKeepsGrants
<1>5. ASSUME NEW n \in Pairs, DropExpiredRefreshToken(n) \/ DropExpiredAccessToken(n)
      PROVE  BooksCoherent' /\ OnePairPerGrant'
  <2>1. \A m \in Pairs : access'[m] = access[m] \/ access'[m] = Absent
    BY <1>5, WithoutBook DEF DropExpiredRefreshToken, DropExpiredAccessToken
  <2>2. UNCHANGED <<codes, linked, issued, origin>>
    BY <1>5 DEF DropExpiredRefreshToken, DropExpiredAccessToken
  <2>3. \A d \in Codes : codes'[d] # Absent =>
           d \in issued' /\ (codes[d] # Absent \/ d \notin issued)
    BY <1>0, <2>2
  <2>4. \A m \in Pairs : refresh'[m] = refresh[m] \/ refresh'[m] = Absent
    BY <1>5, WithoutBook DEF DropExpiredRefreshToken, DropExpiredAccessToken
  <2>5. \A m \in Pairs : refresh'[m] # Absent => m \in linked'
    BY <1>0, <2>2, <2>4
  <2>6. QED
    BY <2>1, <2>2, <2>3, <2>4, <2>5, DropKeepsGrants
<1>6. ASSUME NEW q \in Requests, ExchangeAuthorizationCode(q)
      PROVE  BooksCoherent' /\ OnePairPerGrant'
  <2> DEFINE c == request[q].of
  <2>1. c \in Codes
    BY <1>6 DEF ExchangeAuthorizationCode, RequestState, Idle
  <2>2. codes[c] # Absent /\ c \in issued /\ \A n \in Pairs : origin[n] # c
    BY <1>6, <2>1 DEF ExchangeAuthorizationCode, BooksCoherent
  <2>3. /\ codes'[c] = Absent
        /\ \A d \in Codes : codes'[d] = codes[d] \/ codes'[d] = Absent
    BY <1>6, <2>1, WithoutBook DEF ExchangeAuthorizationCode
  <2>4. /\ Mints(access, refresh, linked, c) \/ MintRefused(access, refresh, linked)
        /\ UNCHANGED issued
    BY <1>6 DEF ExchangeAuthorizationCode
  <2> HIDE DEF c
  <2>5. QED
    BY <1>0, <2>1, <2>2, <2>3, <2>4, MintKeepsGrants
<1>7. ASSUME NEW q \in Requests, ExchangeRefreshToken(q)
      PROVE  BooksCoherent' /\ OnePairPerGrant'
  <2> DEFINE n == request[q].of
             a == IF n \in linked THEN Without(access, {n}) ELSE access
             r == Without(refresh, {n})
             l == linked \ {n}
  <2>1. n \in Pairs /\ refresh[n] # Absent /\ n \in linked
    BY <1>0, <1>7 DEF ExchangeRefreshToken, RequestState, Idle
  <2>2. origin[n] \in Codes /\ origin[n] \in issued /\ codes[origin[n]] = Absent
    BY <2>1 DEF BooksCoherent, OnePairPerGrant, Live
  <2>3. /\ a \in [Pairs -> Expiry] /\ r \in [Pairs -> Expiry] /\ l \in SUBSET Pairs
        /\ \A m \in Pairs : a[m] = IF m = n THEN Absent ELSE access[m]
        /\ \A m \in Pairs : r[m] = IF m = n THEN Absent ELSE refresh[m]
    BY <2>1, WithoutBook
  <2>4. /\ Mints(a, r, l, origin[n]) \/ MintRefused(a, r, l)
        /\ UNCHANGED <<codes, issued>>
    BY <1>7 DEF ExchangeRefreshToken
  <2>5. \A m \in Pairs : r[m] # Absent => m \in l
    BY <1>0, <2>3
  <2> HIDE DEF a, r, l
  <2>6. \A m \in Pairs : origin[m] = origin[n] => a[m] = Absent /\ r[m] = Absent
    BY <2>1, <2>3 DEF OnePairPerGrant, Live
  <2> HIDE DEF n
  <2>7. /\ \A m \in Pairs : a[m] = access[m] \/ a[m] = Absent
        /\ \A m \in Pairs : r[m] = refresh[m] \/ r[m] = Absent
    BY <2>3
  <2> DEFINE c == origin[n]
  <2>8. /\ c \in Codes /\ c \in issued
        /\ codes'[c] = Absent /\ issued' = issued
        /\ \A d \in Codes : codes'[d] = codes[d] \/ codes'[d] = Absent
    BY <2>2, <2>4
  <2>9. Mints(a, r, l, c) \/ MintRefused(a, r, l)
    BY <2>4
  <2>10. \A m \in Pairs : origin[m] = c => a[m] = Absent /\ r[m] = Absent
    BY <2>6
  <2> HIDE DEF c
  <2>11. QED
    BY <2>3, <2>5, <2>7, <2>8, <2>9, <2>10, MintKeepsGrants
<1>8. QED
  BY <1>1, <1>2, <1>3, <1>4, <1>5, <1>6, <1>7
  DEF Next, Tick, ClockIsSet, LoadAuthorizationCode, LoadRefreshToken, ExchangeRejected, vars

-----------------------------------------------------------------------------
(* The caps.                                                               *)

(* Every step respects both caps. *)
LEMMA BoundStep ==
    ASSUME TypeOK, TypeOK', BooksBounded, [Next]_vars
    PROVE  BooksBounded'
<1> USE DEF TypeOK, books
<1>1. ASSUME Held(codes') \subseteq Held(codes), Held(access') \subseteq Held(access)
      PROVE  BooksBounded'
  <2>1. /\ Cardinality(Held(codes)) \in Nat /\ Cardinality(Held(codes')) \in Nat
        /\ Cardinality(Held(codes')) <= Cardinality(Held(codes))
    BY <1>1, HeldMonotone, TokensFinite
  <2>2. /\ Cardinality(Held(access)) \in Nat /\ Cardinality(Held(access')) \in Nat
        /\ Cardinality(Held(access')) <= Cardinality(Held(access))
    BY <1>1, HeldMonotone, TokensFinite
  <2>3. QED
    BY <2>1, <2>2, CapsAreNat DEF BooksBounded
<1>2. CASE UNCHANGED <<codes, access>>
  BY <1>1, <1>2
<1>3. CASE Restart \/ AuthorizeRefused
  BY <1>1, <1>3, WithoutBook DEF Restart, AuthorizeRefused
<1>4. ASSUME NEW c \in Codes, Authorize(c)
      PROVE  BooksBounded'
  <2>1. Without(codes, Stale(codes)) \in [Codes -> Expiry]
    BY WithoutBook
  <2>2. Cardinality(Held(codes')) <= MaxCodes
    BY <1>4, <2>1, HeldWithOneMore, TokensFinite, CapsAreNat DEF Authorize
  <2>3. QED
    BY <1>4, <2>2 DEF Authorize, BooksBounded
<1>5. ASSUME NEW n \in Pairs, DropExpiredRefreshToken(n) \/ DropExpiredAccessToken(n)
      PROVE  BooksBounded'
  BY <1>1, <1>5, WithoutBook DEF DropExpiredRefreshToken, DropExpiredAccessToken
<1>6. ASSUME NEW q \in Requests, ExchangeAuthorizationCode(q)
      PROVE  BooksBounded'
  <2>1. Cardinality(Held(access')) <= MaxAccess
    BY <1>6, MintBounded DEF ExchangeAuthorizationCode, BooksBounded
  <2>2. Held(codes') \subseteq Held(codes)
    BY <1>6, WithoutBook DEF ExchangeAuthorizationCode
  <2>3. /\ Cardinality(Held(codes)) \in Nat /\ Cardinality(Held(codes')) \in Nat
        /\ Cardinality(Held(codes')) <= Cardinality(Held(codes))
    BY <2>2, HeldMonotone, TokensFinite
  <2>4. QED
    BY <2>1, <2>3, CapsAreNat DEF BooksBounded
<1>7. ASSUME NEW q \in Requests, ExchangeRefreshToken(q)
      PROVE  BooksBounded'
  <2> DEFINE n == request[q].of
             a == IF n \in linked THEN Without(access, {n}) ELSE access
  <2>1. a \in [Pairs -> Expiry] /\ Held(a) \subseteq Held(access)
    BY WithoutBook
  <2>2. \E r, l : Mints(a, r, l, origin[n]) \/ MintRefused(a, r, l)
    BY <1>7 DEF ExchangeRefreshToken
  <2> HIDE DEF a
  <2>3. Cardinality(Held(access')) <= MaxAccess
    BY <2>1, <2>2, MintBounded DEF BooksBounded
  <2>4. QED
    BY <1>7, <2>3 DEF ExchangeRefreshToken, BooksBounded
<1>8. QED
  BY <1>2, <1>3, <1>4, <1>5, <1>6, <1>7
  DEF Next, Tick, ClockIsSet, LoadAuthorizationCode, LoadRefreshToken, ExchangeRejected, vars

(* The inductive invariant holds in every state. *)
THEOREM TokenInvariant == Spec => []IInv
<1>1. Init => IInv
  <2> SUFFICES ASSUME Init PROVE IInv
    OBVIOUS
  <2>1. TypeOK
    BY DEF Init, TypeOK, Expiry, Absent, RequestState
  <2>2. Held(codes) = {} /\ Held(access) = {}
    BY DEF Init, Held
  <2>3. BooksBounded
    BY <2>2, FS_EmptySet, CapsAreNat DEF BooksBounded
  <2>4. BooksCoherent /\ OnePairPerGrant
    BY DEF Init, BooksCoherent, OnePairPerGrant, Live
  <2>5. QED
    BY <2>1, <2>3, <2>4 DEF IInv
<1>2. TypeOK' /\ IInv /\ [Next]_vars => IInv'
  BY GrantStep, BoundStep DEF IInv
<1>3. QED
  BY <1>1, <1>2, TokenTypes, PTL DEF Spec

(* A grant holds its unused code or the tokens of one pair, never two. *)
THEOREM GrantsHoldOnePair == Spec => []OnePairPerGrant
<1>1. IInv => OnePairPerGrant
  BY DEF IInv
<1>2. QED
  BY <1>1, TokenInvariant, PTL

(* The books never outgrow their caps. *)
THEOREM BooksStayBounded == Spec => []BooksBounded
<1>1. IInv => BooksBounded
  BY DEF IInv
<1>2. QED
  BY <1>1, TokenInvariant, PTL
-----------------------------------------------------------------------------
(* What an exchange uses, and what it leaves alone.                        *)

(* An exchange of a code mints for that code, and only its code is used.   *)
LEMMA CodeExchange ==
    ASSUME TypeOK, NEW q \in Requests, ExchangeAuthorizationCode(q)
    PROVE  \E c \in Codes, new \in SUBSET Pairs :
             /\ request[q] = [kind |-> "code", of |-> c]
             /\ codes[c] # Absent
             /\ \A d \in Codes : codes'[d] = IF d = c THEN Absent ELSE codes[d]
             /\ MintAdds(new, access, refresh, linked, c)
             /\ UNCHANGED <<clock, issued>>
<1> DEFINE c == request[q].of
<1>1. request[q] = [kind |-> "code", of |-> c] /\ c \in Codes
  BY DEF ExchangeAuthorizationCode, TypeOK, RequestState, Idle
<1>2. /\ codes[c] # Absent
      /\ codes' = Without(codes, {c})
      /\ Mints(access, refresh, linked, c) \/ MintRefused(access, refresh, linked)
      /\ UNCHANGED <<clock, issued>>
  BY DEF ExchangeAuthorizationCode
<1> HIDE DEF c
<1>3. \A d \in Codes : codes'[d] = IF d = c THEN Absent ELSE codes[d]
  BY <1>2, WithoutBook DEF TypeOK
<1>4. \E new \in SUBSET Pairs : MintAdds(new, access, refresh, linked, c)
  BY <1>1, <1>2, MintEffect DEF TypeOK
<1>5. QED
  BY <1>1, <1>2, <1>3, <1>4

(* An exchange of a refresh token mints for the grant of its pair, once    *)
(* both tokens of that pair are gone.                                      *)
LEMMA RefreshExchange ==
    ASSUME TypeOK, BooksCoherent, NEW q \in Requests, ExchangeRefreshToken(q)
    PROVE  \E n \in Pairs, new \in SUBSET Pairs,
              a \in [Pairs -> Expiry], r \in [Pairs -> Expiry], l \in SUBSET Pairs :
             /\ request[q] = [kind |-> "refresh", of |-> n]
             /\ refresh[n] # Absent
             /\ origin[n] \in Codes
             /\ \A m \in Pairs : a[m] = IF m = n THEN Absent ELSE access[m]
             /\ \A m \in Pairs : r[m] = IF m = n THEN Absent ELSE refresh[m]
             /\ MintAdds(new, a, r, l, origin[n])
             /\ UNCHANGED <<clock, codes, issued>>
<1> DEFINE n == request[q].of
           a == IF n \in linked THEN Without(access, {n}) ELSE access
           r == Without(refresh, {n})
           l == linked \ {n}
<1>1. request[q] = [kind |-> "refresh", of |-> n] /\ n \in Pairs
  BY DEF ExchangeRefreshToken, TypeOK, RequestState, Idle
<1>2. /\ refresh[n] # Absent
      /\ Mints(a, r, l, origin[n]) \/ MintRefused(a, r, l)
      /\ UNCHANGED <<clock, codes, issued>>
  BY DEF ExchangeRefreshToken
<1>3. n \in linked /\ origin[n] \in Codes
  BY <1>1, <1>2 DEF BooksCoherent, Live, TypeOK
<1>4. /\ a \in [Pairs -> Expiry] /\ r \in [Pairs -> Expiry] /\ l \in SUBSET Pairs
      /\ \A m \in Pairs : a[m] = IF m = n THEN Absent ELSE access[m]
      /\ \A m \in Pairs : r[m] = IF m = n THEN Absent ELSE refresh[m]
  BY <1>3, WithoutBook DEF TypeOK
<1> HIDE DEF a, r, l, n
<1>5. PICK new \in SUBSET Pairs : MintAdds(new, a, r, l, origin[n])
  BY <1>2, <1>3, <1>4, MintEffect
<1>6. QED
  BY <1>1, <1>2, <1>3, <1>4, <1>5

(* No step but the two exchanges mints. *)
LEMMA OnlyExchangesMint ==
    ASSUME [Next]_vars
    PROVE  \/ UNCHANGED origin
           \/ \E q \in Requests : ExchangeAuthorizationCode(q) \/ ExchangeRefreshToken(q)
BY DEF Next, vars, Tick, ClockIsSet, Restart, AuthorizeRefused, Authorize,
       LoadAuthorizationCode, LoadRefreshToken, ExchangeRejected,
       DropExpiredRefreshToken, DropExpiredAccessToken

(* A grant of which nothing usable is left never yields another pair. *)
THEOREM EndedGrantsStayEnded == Spec => EndedGrantMintsNothing
<1>1. IInv /\ [Next]_vars =>
        [\A n \in Pairs : origin[n] = None /\ origin'[n] # None => ~Ended(origin'[n])]_vars
  <2> SUFFICES ASSUME IInv, [Next]_vars, NEW n \in Pairs, origin[n] = None, origin'[n] # None
               PROVE  ~Ended(origin'[n])
    OBVIOUS
  <2>1. TypeOK /\ BooksCoherent
    BY DEF IInv
  <2>2. ASSUME NEW q \in Requests, ExchangeAuthorizationCode(q)
        PROVE  ~Ended(origin'[n])
    <3>1. PICK c \in Codes, new \in SUBSET Pairs :
             /\ codes[c] # Absent
             /\ MintAdds(new, access, refresh, linked, c)
      BY <2>1, <2>2, CodeExchange
    <3>2. origin'[n] = c
      BY <3>1 DEF MintAdds
    <3>3. QED
      BY <3>1, <3>2 DEF Ended
  <2>3. ASSUME NEW q \in Requests, ExchangeRefreshToken(q)
        PROVE  ~Ended(origin'[n])
    <3>1. PICK m \in Pairs, new \in SUBSET Pairs,
               a \in [Pairs -> Expiry], r \in [Pairs -> Expiry], l \in SUBSET Pairs :
             /\ refresh[m] # Absent
             /\ MintAdds(new, a, r, l, origin[m])
      BY <2>1, <2>3, RefreshExchange
    <3>2. origin'[n] = origin[m]
      BY <3>1 DEF MintAdds
    <3>3. QED
      BY <3>1, <3>2 DEF Ended
  <2>4. QED
    BY <2>2, <2>3, OnlyExchangesMint
<1>2. QED
  BY <1>1, TokenInvariant, PTL DEF Spec, EndedGrantMintsNothing
-----------------------------------------------------------------------------
(* Who may take a token that has not expired.                              *)

(* Reaping a book leaves every fresh token, and a fresh token is held. *)
LEMMA FreshIsNotStale ==
    ASSUME TypeOK, NEW T, NEW b \in [T -> Expiry], NEW t \in T, b[t] >= clock
    PROVE  b[t] # Absent /\ t \notin Stale(b) /\ Without(b, Stale(b))[t] = b[t]
BY DEF TypeOK, Expiry, Absent, Stale, Held, Without

(* A fresh code is taken only by its exchange. *)
LEMMA FreshCodeStep ==
    ASSUME TypeOK, BooksCoherent, [Next]_vars, ~Restart, NEW c \in Codes, codes[c] >= clock, codes'[c] = Absent
    PROVE  \E q \in Requests :
              request[q] = [kind |-> "code", of |-> c] /\ ExchangeAuthorizationCode(q)
<1>1. codes[c] # Absent /\ Without(codes, Stale(codes))[c] = codes[c]
  BY FreshIsNotStale DEF TypeOK
<1>2. ~(UNCHANGED codes) /\ ~AuthorizeRefused
  BY <1>1 DEF AuthorizeRefused
<1>3. ASSUME NEW d \in Codes, Authorize(d)
      PROVE  FALSE
  <2>1. Without(codes, Stale(codes)) \in [Codes -> Expiry]
    BY WithoutBook DEF TypeOK
  <2>2. d # c
    BY <1>1, <1>3 DEF Authorize, BooksCoherent
  <2>3. QED
    BY <1>1, <1>3, <2>1, <2>2 DEF Authorize
<1>4. \E q \in Requests : ExchangeAuthorizationCode(q)
  BY <1>2, <1>3
  DEF Next, vars, books, Tick, ClockIsSet, LoadAuthorizationCode, LoadRefreshToken, ExchangeRejected,
      DropExpiredRefreshToken, DropExpiredAccessToken, ExchangeRefreshToken
<1>5. QED
  BY <1>1, <1>4, CodeExchange

(* A fresh token of a pair is taken only by the exchange of the pair. *)
LEMMA FreshPairStep ==
    ASSUME TypeOK, BooksCoherent, [Next]_vars, ~Restart, NEW n \in Pairs,
           \/ access[n] >= clock /\ access'[n] = Absent
           \/ refresh[n] >= clock /\ refresh'[n] = Absent
    PROVE  \E q \in Requests :
              request[q] = [kind |-> "refresh", of |-> n] /\ ExchangeRefreshToken(q)
<1>1. /\ access[n] >= clock => access[n] # Absent /\ n \notin Stale(access)
      /\ refresh[n] >= clock => refresh[n] # Absent /\ n \notin Stale(refresh)
  BY FreshIsNotStale DEF TypeOK
<1>2. ~(UNCHANGED <<access, refresh>>)
  BY <1>1
<1>3. ASSUME NEW m \in Pairs, DropExpiredRefreshToken(m) \/ DropExpiredAccessToken(m)
      PROVE  FALSE
  BY <1>1, <1>3, WithoutBook DEF TypeOK, DropExpiredRefreshToken, DropExpiredAccessToken
<1>4. ASSUME NEW q \in Requests, ExchangeAuthorizationCode(q)
      PROVE  FALSE
  <2>1. PICK c \in Codes, new \in SUBSET Pairs : MintAdds(new, access, refresh, linked, c)
    BY <1>4, CodeExchange
  <2>2. QED
    BY <1>1, <2>1 DEF MintAdds
<1>5. ASSUME NEW q \in Requests, ExchangeRefreshToken(q), request[q] # [kind |-> "refresh", of |-> n]
      PROVE  FALSE
  <2>1. PICK m \in Pairs, new \in SUBSET Pairs,
             a \in [Pairs -> Expiry], r \in [Pairs -> Expiry], l \in SUBSET Pairs :
           /\ request[q] = [kind |-> "refresh", of |-> m]
           /\ \A k \in Pairs : a[k] = IF k = m THEN Absent ELSE access[k]
           /\ \A k \in Pairs : r[k] = IF k = m THEN Absent ELSE refresh[k]
           /\ MintAdds(new, a, r, l, origin[m])
    BY <1>5, RefreshExchange
  <2>2. n # m /\ a[n] = access[n] /\ r[n] = refresh[n]
    BY <1>5, <2>1
  <2>3. a[n] >= clock => a[n] # Absent /\ n \notin Stale(a)
    BY FreshIsNotStale
  <2>4. QED
    BY <1>1, <2>1, <2>2, <2>3 DEF MintAdds
<1>6. \E q \in Requests : ExchangeRefreshToken(q)
  BY <1>2, <1>3, <1>4
  DEF Next, vars, books, Tick, ClockIsSet, AuthorizeRefused, Authorize, LoadAuthorizationCode,
      LoadRefreshToken, ExchangeRejected
<1>7. QED
  BY <1>5, <1>6

(* Whatever the clock does, no reap and no refused request takes a token   *)
(* that has not expired.                                                   *)
THEOREM FreshTokensStay == Spec => FreshTokensAreKept
<1> DEFINE Kept ==
       \/ Restart
       \/ /\ \A c \in Codes : codes[c] >= clock /\ codes'[c] = Absent =>
                \E q \in Requests :
                    request[q] = [kind |-> "code", of |-> c] /\ ExchangeAuthorizationCode(q)
          /\ \A n \in Pairs :
                \/ access[n] >= clock /\ access'[n] = Absent
                \/ refresh[n] >= clock /\ refresh'[n] = Absent
                => \E q \in Requests :
                    request[q] = [kind |-> "refresh", of |-> n] /\ ExchangeRefreshToken(q)
<1>1. IInv /\ [Next]_vars => Kept
  BY FreshCodeStep, FreshPairStep DEF IInv
<1>2. QED
  BY <1>1, TokenInvariant, PTL DEF Spec, FreshTokensAreKept
-----------------------------------------------------------------------------
(* The provider implements Grant.                                          *)

(* A grant whose code and tokens were only kept or dropped has decayed. *)
LEMMA DropIsDecay ==
    ASSUME IInv, NEW c \in Codes, c \in issued' <=> c \in issued,
           codes'[c] = codes[c] \/ codes'[c] = Absent,
           PairsOf(c)' = PairsOf(c),
           \A n \in PairsOf(c) : access'[n] = access[n] \/ access'[n] = Absent,
           \A n \in PairsOf(c) : refresh'[n] = refresh[n] \/ refresh'[n] = Absent
    PROVE  Grants!Decays(c)
<1> DEFINE held == {n \in PairsOf(c) : Live(n)}
<1>1. /\ PhaseOf(c)' \in Grants!Remains(PhaseOf(c))
      /\ held' = IF PhaseOf(c)' \in {"renewable", "accessOnly"} THEN held ELSE {}
  <2>1. \A n \in PairsOf(c) : Live(n)' => Live(n)
    BY DEF Live
  <2>2. \A n, m \in held : n = m
    BY DEF held, PairsOf, IInv, OnePairPerGrant
  <2>3. codes[c] # Absent => PairsOf(c) = {} /\ c \in issued
    BY DEF PairsOf, IInv, BooksCoherent
  <2>4. c \notin issued => PairsOf(c) = {}
    BY NoneIsNoToken DEF PairsOf, IInv, BooksCoherent, None
  <2>5. PhaseOf(c)' \in {"renewable", "accessOnly"} => \E n \in PairsOf(c) : Live(n)'
    BY DEF PhaseOf, Live
  <2>6. PhaseOf(c)' \notin {"renewable", "accessOnly"} => held' = {}
    BY <2>3, <2>4 DEF PhaseOf, Live, held
  <2>7. PhaseOf(c)' \in {"renewable", "accessOnly"} => held' = held
    BY <2>1, <2>2, <2>5 DEF held
  <2>8. PhaseOf(c)' \in Grants!Remains(PhaseOf(c))
    BY <2>3, <2>4 DEF PhaseOf, Live, Grants!Remains
  <2>9. QED
    BY <2>6, <2>7, <2>8
<1>2. QED
  BY <1>1 DEF Grants!Decays, held

(* A step that mints nothing and issues nothing is a decay. *)
LEMMA DropStep ==
    ASSUME IInv, UNCHANGED <<issued, origin>>,
           \A c \in Codes : codes'[c] = codes[c] \/ codes'[c] = Absent,
           \A n \in Pairs : access'[n] = access[n] \/ access'[n] = Absent,
           \A n \in Pairs : refresh'[n] = refresh[n] \/ refresh'[n] = Absent
    PROVE  Grants!Next
<1>1. \A c \in Codes : PairsOf(c)' = PairsOf(c)
  BY DEF PairsOf
<1>2. \A c \in Codes : Grants!Decays(c)
  BY <1>1, DropIsDecay DEF PairsOf
<1>3. QED
  BY <1>2 DEF Grants!Next, Grants!Decay

(* An issued code is a grant of its own. *)
LEMMA IssueStep ==
    ASSUME IInv, NEW c \in Codes, Authorize(c)
    PROVE  Grants!Issue(c)
<1>1. /\ c \notin issued /\ issued' = issued \union {c}
      /\ UNCHANGED <<access, refresh, origin>>
      /\ codes' = [Without(codes, Stale(codes)) EXCEPT ![c] = clock + CodeTtl]
  BY DEF Authorize
<1>2. /\ Without(codes, Stale(codes)) \in [Codes -> Expiry]
      /\ \A d \in Codes : \/ Without(codes, Stale(codes))[d] = codes[d]
                          \/ Without(codes, Stale(codes))[d] = Absent
  BY WithoutBook DEF IInv, TypeOK
<1>3. codes'[c] # Absent
  BY <1>1, <1>2, TtlsAreNat DEF IInv, TypeOK, Absent
<1>4. \A d \in Codes \ {c} : codes'[d] = codes[d] \/ codes'[d] = Absent
  BY <1>1, <1>2
<1>5. \A d \in Codes \ {c} : Grants!Decays(d)
  <2>1. \A d \in Codes : PairsOf(d)' = PairsOf(d)
    BY <1>1 DEF PairsOf
  <2>2. QED
    BY <1>1, <1>4, <2>1, DropIsDecay
<1>6. PhaseOf(c) = "unissued" /\ PhaseOf(c)' = "code"
  BY <1>1, <1>3 DEF PhaseOf
<1>7. PairsOf(c)' = {}
  BY <1>1, NoneIsNoToken DEF PairsOf, IInv, BooksCoherent, None
<1>8. QED
  BY <1>1, <1>5, <1>6, <1>7 DEF Grants!Issue

(* The books after an exchange that used up the code or the refresh token  *)
(* of the grant c: that grant is renewed or has ended.                     *)
LEMMA ExchangeStep ==
    ASSUME IInv, IInv', NEW c \in Codes, NEW new \in SUBSET Pairs,
           NEW a \in [Pairs -> Expiry], NEW r \in [Pairs -> Expiry], NEW l,
           MintAdds(new, a, r, l, c), UNCHANGED issued,
           PhaseOf(c) \in {"code", "renewable"}, codes'[c] = Absent,
           \A d \in Codes : codes'[d] = codes[d] \/ codes'[d] = Absent,
           \A m \in Pairs : a[m] = access[m] \/ a[m] = Absent,
           \A m \in Pairs : r[m] = refresh[m] \/ r[m] = Absent
    PROVE  Grants!Next
<1>1. /\ \A n \in new : origin[n] = None /\ refresh'[n] # Absent
      /\ \A n, m \in new : n = m
      /\ \A n \in Pairs : origin'[n] = IF n \in new THEN c ELSE origin[n]
      /\ \A n \in Pairs \ new : access'[n] = access[n] \/ access'[n] = Absent
      /\ \A n \in Pairs \ new : refresh'[n] = refresh[n] \/ refresh'[n] = Absent
  BY DEF MintAdds
<1>2. \A d \in Codes : d # None
  BY NoneIsNoToken DEF None
<1>3. CASE new = {}
  <2>1. \A n \in Pairs : origin'[n] = origin[n]
    BY <1>1, <1>3
  <2>2. origin' = origin
    BY <2>1 DEF IInv, TypeOK
  <2>3. QED
    BY <1>1, <1>3, <2>2, DropStep
<1>4. ASSUME NEW n \in new
      PROVE  Grants!Mint(c, n)
  <2>1. new = {n} /\ n \in Pairs
    BY <1>1, <1>4
  <2>2. ASSUME NEW d \in Codes \ {c}
        PROVE  Grants!Decays(d)
    <3>1. PairsOf(d)' = PairsOf(d) /\ PairsOf(d) \subseteq Pairs \ new
      BY <1>1, <1>2, <2>2 DEF PairsOf
    <3>2. QED
      BY <1>1, <2>2, <3>1, DropIsDecay
  <2>3. c \in issued'
    BY DEF PhaseOf
  <2>4. origin'[n] = c /\ refresh'[n] # Absent
    BY <1>1, <1>4, <2>1
  <2>5. PhaseOf(c)' = "renewable"
    BY <2>1, <2>3, <2>4 DEF PhaseOf, PairsOf
  <2>6. {m \in PairsOf(c) : Live(m)}' = {n}
    BY <2>1, <2>4 DEF PairsOf, Live, IInv, OnePairPerGrant
  <2>7. {m \in Pairs : origin'[m] # None} = {m \in Pairs : origin[m] # None} \union {n}
    BY <1>1, <1>2, <2>1
  <2>8. n \notin {m \in Pairs : origin[m] # None}
    BY <1>1, <1>4
  <2>9. QED
    BY <2>2, <2>5, <2>6, <2>7, <2>8 DEF Grants!Mint
<1>5. QED
  BY <1>3, <1>4 DEF Grants!Next

(* An exchanged refresh token belonged to a grant that could be renewed. *)
LEMMA RenewalStep ==
    ASSUME IInv, IInv', NEW q \in Requests, ExchangeRefreshToken(q)
    PROVE  Grants!Next
<1>1. PICK n \in Pairs, new \in SUBSET Pairs,
           a \in [Pairs -> Expiry], r \in [Pairs -> Expiry], l \in SUBSET Pairs :
         /\ request[q] = [kind |-> "refresh", of |-> n]
         /\ refresh[n] # Absent
         /\ origin[n] \in Codes
         /\ \A m \in Pairs : a[m] = IF m = n THEN Absent ELSE access[m]
         /\ \A m \in Pairs : r[m] = IF m = n THEN Absent ELSE refresh[m]
         /\ MintAdds(new, a, r, l, origin[n])
         /\ UNCHANGED <<clock, codes, issued>>
  BY RefreshExchange DEF IInv
<1> DEFINE c == origin[n]
<1>2. codes[c] = Absent /\ c \in issued
  BY <1>1 DEF IInv, BooksCoherent, OnePairPerGrant, Live
<1>3. PhaseOf(c) = "renewable"
  BY <1>1, <1>2 DEF PhaseOf, PairsOf
<1>4. /\ codes'[c] = Absent
      /\ \A d \in Codes : codes'[d] = codes[d] \/ codes'[d] = Absent
      /\ \A m \in Pairs : a[m] = access[m] \/ a[m] = Absent
      /\ \A m \in Pairs : r[m] = refresh[m] \/ r[m] = Absent
  BY <1>1, <1>2
<1>5. c \in Codes /\ MintAdds(new, a, r, l, c) /\ UNCHANGED issued
  BY <1>1
<1> HIDE DEF c
<1>6. QED
  BY <1>3, <1>4, <1>5, ExchangeStep

(* Every step of the provider is one that Grant allows. *)
LEMMA GrantsStep ==
    ASSUME IInv, IInv', [Next]_vars
    PROVE  [Grants!Next]_(Grants!vars)
<1> USE DEF IInv, TypeOK, books
<1>1. CASE UNCHANGED <<codes, access, refresh, issued, origin>>
  BY <1>1, DropStep
<1>2. CASE Restart
  BY <1>2, WithoutBook, DropStep DEF Restart
<1>3. CASE AuthorizeRefused
  BY <1>3, WithoutBook, DropStep DEF AuthorizeRefused
<1>4. ASSUME NEW n \in Pairs, DropExpiredRefreshToken(n) \/ DropExpiredAccessToken(n)
      PROVE  Grants!Next
  <2>1. /\ \A m \in Pairs : access'[m] = access[m] \/ access'[m] = Absent
        /\ \A m \in Pairs : refresh'[m] = refresh[m] \/ refresh'[m] = Absent
    BY <1>4, WithoutBook DEF DropExpiredRefreshToken, DropExpiredAccessToken
  <2>2. UNCHANGED <<codes, issued, origin>>
    BY <1>4 DEF DropExpiredRefreshToken, DropExpiredAccessToken
  <2>3. QED
    BY <2>1, <2>2, DropStep
<1>5. ASSUME NEW q \in Requests, ExchangeAuthorizationCode(q)
      PROVE  Grants!Next
  <2>1. PICK c \in Codes, new \in SUBSET Pairs :
           /\ codes[c] # Absent
           /\ \A d \in Codes : codes'[d] = IF d = c THEN Absent ELSE codes[d]
           /\ MintAdds(new, access, refresh, linked, c)
           /\ UNCHANGED <<clock, issued>>
    BY <1>5, CodeExchange
  <2>2. PhaseOf(c) = "code"
    BY <2>1 DEF PhaseOf, BooksCoherent
  <2>3. /\ codes'[c] = Absent
        /\ \A d \in Codes : codes'[d] = codes[d] \/ codes'[d] = Absent
    BY <2>1
  <2>4. QED
    BY <2>1, <2>2, <2>3, ExchangeStep
<1>6. ASSUME NEW q \in Requests, ExchangeRefreshToken(q)
      PROVE  Grants!Next
  BY <1>6, RenewalStep
<1>7. QED
  BY <1>1, <1>2, <1>3, <1>4, <1>5, <1>6, IssueStep
  DEF Next, Tick, ClockIsSet, LoadAuthorizationCode, LoadRefreshToken, ExchangeRejected,
      vars, Grants!Next

(* Every behaviour of the provider is one that Grant allows. *)
THEOREM ProviderImplementsGrant == Spec => ImplementsGrant
<1>1. Init => Grants!Init
  BY DEF Init, Grants!Init, PhaseOf, PairsOf, Live
<1>2. IInv /\ IInv' /\ [Next]_vars => [Grants!Next]_(Grants!vars)
  BY GrantsStep
<1>3. QED
  BY <1>1, <1>2, TokenInvariant, PTL DEF Spec, ImplementsGrant, Grants!Spec
=============================================================================
