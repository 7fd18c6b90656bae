----------------------------- MODULE TokenStore -----------------------------
(***************************************************************************)
(* The in-memory books of StaticClientProvider: authorization codes, the   *)
(* access and refresh tokens minted in pairs, the link from a refresh      *)
(* token to the access token of its pair, and the /token requests of the   *)
(* SDK, which first load a grant and later exchange it.                    *)
(*                                                                         *)
(* The provider's coroutines never await, so each is one step; the SDK     *)
(* that calls them may run other requests between a load and the exchange. *)
(* A pair stands for the access token and the refresh token minted         *)
(* together.  A token that is not held has the expiry Absent.              *)
(***************************************************************************)
EXTENDS Integers, FiniteSets

CONSTANTS
    Codes,      \* every authorization code token_urlsafe may return
    Pairs,      \* every access/refresh pair it may return
    Requests,   \* concurrent /token requests
    CodeTtl, AccessTtl, RefreshTtl,
    MaxCodes,   \* MAX_OUTSTANDING_AUTH_CODES
    MaxAccess,  \* MAX_OUTSTANDING_ACCESS_TOKENS
    MaxTime     \* bound on the clock

ASSUME TokensFinite == IsFiniteSet(Codes) /\ IsFiniteSet(Pairs)
ASSUME TtlsAreNat == CodeTtl \in Nat /\ AccessTtl \in Nat /\ RefreshTtl \in Nat
ASSUME CapsAreNat == MaxCodes \in Nat /\ MaxAccess \in Nat /\ MaxTime \in Nat
ASSUME NoneIsNoToken == "none" \notin Codes \union Pairs

VARIABLES
    clock,      \* time.time() in seconds
    codes,      \* _auth_codes: expires_at per code
    access,     \* _access_tokens: expires_at per pair
    refresh,    \* _refresh_tokens: expires_at per pair
    linked,     \* the keys of _refresh_to_access
    request,    \* what each /token request has loaded
    issued,     \* history: codes ever issued
    origin      \* history: the code each pair descends from

books == <<codes, access, refresh, linked>>
vars == <<clock, books, request, issued, origin>>

Absent == -1
None == "none"

Expiry == Nat \union {Absent}
Idle == [kind |-> "idle", of |-> None]
RequestState ==
    {Idle} \union [kind : {"code"}, of : Codes] \union [kind : {"refresh"}, of : Pairs]

TypeOK ==
    /\ clock \in Nat
    /\ codes \in [Codes -> Expiry]
    /\ access \in [Pairs -> Expiry]
    /\ refresh \in [Pairs -> Expiry]
    /\ linked \in SUBSET Pairs
    /\ request \in [Requests -> RequestState]
    /\ issued \in SUBSET Codes
    /\ origin \in [Pairs -> Codes \union {None}]

\* What a book holds, and what of it has expired (expires_at < now).
Held(book) == {t \in DOMAIN book : book[t] # Absent}
Stale(book) == {t \in Held(book) : book[t] < clock}
Without(book, S) == [t \in DOMAIN book |-> IF t \in S THEN Absent ELSE book[t]]

Init ==
    /\ clock = 0
    /\ codes = [c \in Codes |-> Absent]
    /\ access = [n \in Pairs |-> Absent]
    /\ refresh = [n \in Pairs |-> Absent]
    /\ linked = {}
    /\ request = [r \in Requests |-> Idle]
    /\ issued = {}
    /\ origin = [n \in Pairs |-> None]

-----------------------------------------------------------------------------
(* /authorize                                                              *)

Authorize(c) ==
    LET kept == Without(codes, Stale(codes))
    IN /\ c \notin issued
       /\ Cardinality(Held(kept)) < MaxCodes
       /\ codes' = [kept EXCEPT ![c] = clock + CodeTtl]
       /\ issued' = issued \union {c}
       /\ UNCHANGED <<clock, access, refresh, linked, request, origin>>

\* At the cap the request is refused; the expired codes stay reaped.
AuthorizeRefused ==
    LET kept == Without(codes, Stale(codes))
    IN /\ Cardinality(Held(kept)) >= MaxCodes
       /\ codes' = kept
       /\ UNCHANGED <<clock, access, refresh, linked, request, issued, origin>>

-----------------------------------------------------------------------------
(* _mint_token_pair, given the access tokens a that are held when it runs. *)

\* Wrong on purpose: the cap makes room by dropping what it finds.
Mut_TrimmedOfAll(a) == IF Cardinality(Held(a)) >= MaxAccess THEN Without(a, Held(a)) ELSE a

\* At the cap the expired access tokens are reaped, below it they stay.
Trimmed(a) == IF Cardinality(Held(a)) >= MaxAccess THEN Without(a, Stale(a)) ELSE a

\* Wrong on purpose: the cap is checked only before the expired are reaped.
Mut_MintsAtCap(a, r, l, c) ==
    \E n \in Pairs :
        /\ origin[n] = None
        /\ access' = [Trimmed(a) EXCEPT ![n] = clock + AccessTtl]
        /\ refresh' = [r EXCEPT ![n] = clock + RefreshTtl]
        /\ linked' = l \union {n}
        /\ origin' = [origin EXCEPT ![n] = c]

\* Wrong on purpose: the link is filed under the code.
Mut_MintsLinksCode(a, r, l, c) ==
    /\ Cardinality(Held(Trimmed(a))) < MaxAccess
    /\ \E n \in Pairs :
        /\ origin[n] = None
        /\ access' = [Trimmed(a) EXCEPT ![n] = clock + AccessTtl]
        /\ refresh' = [r EXCEPT ![n] = clock + RefreshTtl]
        /\ linked' = l \union {c}
        /\ origin' = [origin EXCEPT ![n] = c]

\* A fresh pair for the grant that began with code c.
Mints(a, r, l, c) ==
    /\ Cardinality(Held(Trimmed(a))) < MaxAccess
    /\ \E n \in Pairs :
        /\ origin[n] = None
        /\ access' = [Trimmed(a) EXCEPT ![n] = clock + AccessTtl]
        /\ refresh' = [r EXCEPT ![n] = clock + RefreshTtl]
        /\ linked' = l \union {n}
        /\ origin' = [origin EXCEPT ![n] = c]

\* TokenError: the grant that was popped before the mint stays popped.
MintRefused(a, r, l) ==
    /\ Cardinality(Held(Trimmed(a))) >= MaxAccess
    /\ access' = Trimmed(a)
    /\ refresh' = r
    /\ linked' = l
    /\ UNCHANGED origin

-----------------------------------------------------------------------------
(* /token with grant_type authorization_code                               *)

\* The SDK refuses a code that is unknown or expired.
LoadAuthorizationCode(q, c) ==
    /\ request[q] = Idle
    /\ codes[c] # Absent
    /\ codes[c] >= clock
    /\ request' = [request EXCEPT ![q] = [kind |-> "code", of |-> c]]
    /\ UNCHANGED <<clock, books, issued, origin>>

\* Wrong on purpose: mint first, and pop whatever is still there.
Mut_ExchangeWithoutPop(q) ==
    LET c == request[q].of
    IN /\ request[q].kind = "code"
       /\ request' = [request EXCEPT ![q] = Idle]
       /\ codes' = Without(codes, {c})
       /\ Mints(access, refresh, linked, c) \/ MintRefused(access, refresh, linked)
       /\ UNCHANGED <<clock, issued>>

ExchangeAuthorizationCode(q) ==
    LET c == request[q].of
    IN /\ request[q].kind = "code"
       /\ request' = [request EXCEPT ![q] = Idle]
       /\ codes[c] # Absent
       /\ codes' = Without(codes, {c})
       /\ Mints(access, refresh, linked, c) \/ MintRefused(access, refresh, linked)
       /\ UNCHANGED <<clock, issued>>

-----------------------------------------------------------------------------
(* /token with grant_type refresh_token                                    *)

LoadRefreshToken(q, n) ==
    /\ request[q] = Idle
    /\ refresh[n] # Absent
    /\ refresh[n] >= clock
    /\ request' = [request EXCEPT ![q] = [kind |-> "refresh", of |-> n]]
    /\ UNCHANGED <<clock, books, issued, origin>>

\* An expired refresh token is dropped; its link and its access token stay.
DropExpiredRefreshToken(n) ==
    /\ n \in Stale(refresh)
    /\ refresh' = Without(refresh, {n})
    /\ UNCHANGED <<clock, codes, access, linked, request, issued, origin>>

\* Wrong on purpose: the old access token is not withdrawn.
Mut_RefreshKeepsAccess(q) ==
    LET n == request[q].of
        r == Without(refresh, {n})
        l == linked \ {n}
    IN /\ request[q].kind = "refresh"
       /\ request' = [request EXCEPT ![q] = Idle]
       /\ refresh[n] # Absent
       /\ Mints(access, r, l, origin[n]) \/ MintRefused(access, r, l)
       /\ UNCHANGED <<clock, codes, issued>>

\* Wrong on purpose: the exchange does not look whether the token is still
\* there.
Mut_RefreshWithoutPop(q) ==
    LET n == request[q].of
        a == IF n \in linked THEN Without(access, {n}) ELSE access
        r == Without(refresh, {n})
        l == linked \ {n}
    IN /\ request[q].kind = "refresh"
       /\ request' = [request EXCEPT ![q] = Idle]
       /\ Mints(a, r, l, origin[n]) \/ MintRefused(a, r, l)
       /\ UNCHANGED <<clock, codes, issued>>

ExchangeRefreshToken(q) ==
    LET n == request[q].of
        a == IF n \in linked THEN Without(access, {n}) ELSE access
        r == Without(refresh, {n})
        l == linked \ {n}
    IN /\ request[q].kind = "refresh"
       /\ request' = [request EXCEPT ![q] = Idle]
       /\ refresh[n] # Absent
       /\ Mints(a, r, l, origin[n]) \/ MintRefused(a, r, l)
       /\ UNCHANGED <<clock, codes, issued>>

\* The exchange finds the grant gone: TokenError invalid_grant.
ExchangeRejected(q) ==
    /\ \/ request[q].kind = "code" /\ codes[request[q].of] = Absent
       \/ request[q].kind = "refresh" /\ refresh[request[q].of] = Absent
    /\ request' = [request EXCEPT ![q] = Idle]
    /\ UNCHANGED <<clock, books, issued, origin>>

-----------------------------------------------------------------------------
(* /mcp, restart, time                                                     *)

\* load_access_token of an expired token drops it; of another it changes
\* nothing.
DropExpiredAccessToken(n) ==
    /\ n \in Stale(access)
    /\ access' = Without(access, {n})
    /\ UNCHANGED <<clock, codes, refresh, linked, request, issued, origin>>

\* The books live in memory only: a restart empties them.
Restart ==
    /\ codes' = Without(codes, Codes)
    /\ access' = Without(access, Pairs)
    /\ refresh' = Without(refresh, Pairs)
    /\ linked' = {}
    /\ request' = [q \in Requests |-> Idle]
    /\ UNCHANGED <<clock, issued, origin>>

Tick ==
    /\ clock < MaxTime
    /\ clock' = clock + 1
    /\ UNCHANGED <<books, request, issued, origin>>

\* time.time() is the wall clock of the host: it may be set.
ClockIsSet ==
    /\ \E t \in 0..MaxTime : clock' = t
    /\ UNCHANGED <<books, request, issued, origin>>

Next ==
    \/ Tick
    \/ ClockIsSet
    \/ Restart
    \/ AuthorizeRefused
    \/ \E c \in Codes : Authorize(c)
    \/ \E n \in Pairs : DropExpiredRefreshToken(n) \/ DropExpiredAccessToken(n)
    \/ \E q \in Requests :
        \/ \E c \in Codes : LoadAuthorizationCode(q, c)
        \/ \E n \in Pairs : LoadRefreshToken(q, n)
        \/ ExchangeAuthorizationCode(q)
        \/ ExchangeRefreshToken(q)
        \/ ExchangeRejected(q)

Spec == Init /\ [][Next]_vars

-----------------------------------------------------------------------------
(* Properties.                                                             *)

\* A pair of which a token is still held.
Live(n) == access[n] # Absent \/ refresh[n] # Absent

(* A grant, that is a code and everything minted from it, holds one thing  *)
(* at a time: the unused code, or the tokens of one pair.  Neither two     *)
(* concurrent exchanges nor a rotation leave an older pair usable          *)
(* (oauth.py:264, oauth.py:287).                                           *)
OnePairPerGrant ==
    /\ \A n, m \in Pairs : Live(n) /\ Live(m) /\ origin[n] = origin[m] => n = m
    /\ \A n \in Pairs, c \in Codes : Live(n) /\ origin[n] = c => codes[c] = Absent

(* The books respect their caps after every request, refused ones included.*)
BooksBounded ==
    /\ Cardinality(Held(codes)) <= MaxCodes
    /\ Cardinality(Held(access)) <= MaxAccess

\* What links the books; with OnePairPerGrant it is inductive.
BooksCoherent ==
    /\ \A c \in Codes : codes[c] # Absent =>
          c \in issued /\ \A n \in Pairs : origin[n] # c
    /\ \A n \in Pairs :
          /\ Live(n) => origin[n] # None
          /\ origin[n] # None => origin[n] \in issued
          /\ refresh[n] # Absent => n \in linked

IInv == TypeOK /\ BooksCoherent /\ OnePairPerGrant /\ BooksBounded

\* Nothing is left from which a pair of the grant could be minted.
Ended(c) ==
    /\ c \in issued
    /\ codes[c] = Absent
    /\ \A n \in Pairs : origin[n] = c => refresh[n] = Absent

(* A grant that has been used up, has expired or was lost never yields     *)
(* another pair, whatever its pending /token requests loaded before: "A    *)
(* second concurrent `/token` request with the same refresh token finds it *)
(* gone" (THREAT_MODEL.md:90).                                             *)
EndedGrantMintsNothing ==
    [][\A n \in Pairs :
        origin[n] = None /\ origin'[n] # None => ~Ended(origin'[n])]_vars

(* A token that has not expired is given up only by a restart or by the    *)
(* exchange that uses its grant; no reap and no refused request takes one. *)
FreshTokensAreKept ==
    [][\/ Restart
       \/ /\ \A c \in Codes : codes[c] >= clock /\ codes'[c] = Absent =>
                \E q \in Requests :
                    request[q] = [kind |-> "code", of |-> c] /\ ExchangeAuthorizationCode(q)
          /\ \A n \in Pairs :
                \/ access[n] >= clock /\ access'[n] = Absent
                \/ refresh[n] >= clock /\ refresh'[n] = Absent
                => \E q \in Requests :
                    request[q] = [kind |-> "refresh", of |-> n] /\ ExchangeRefreshToken(q)]_vars
-----------------------------------------------------------------------------
(* The promise implemented: a grant is named by its code.                  *)

PairsOf(c) == {n \in Pairs : origin[n] = c}

PhaseOf(c) ==
    IF c \notin issued THEN "unissued"
    ELSE IF codes[c] # Absent THEN "code"
    ELSE IF \E n \in PairsOf(c) : refresh[n] # Absent THEN "renewable"
    ELSE IF \E n \in PairsOf(c) : access[n] # Absent THEN "accessOnly"
    ELSE "ended"

Grants == INSTANCE Grant WITH
    phase <- [c \in Codes |-> PhaseOf(c)],
    holds <- [c \in Codes |-> {n \in PairsOf(c) : Live(n)}],
    spent <- {n \in Pairs : origin[n] # None}

(* Every behaviour of the provider is one that Grant allows: a request     *)
(* advances one grant at most, a rotation leaves nothing of the old pair,  *)
(* and what reaps, refusals and restarts take never comes back.            *)
ImplementsGrant == Grants!Spec
=============================================================================
