-------------------------------- MODULE Grant --------------------------------
(***************************************************************************)
(* What the OAuth provider promises for a grant, that is an authorization  *)
(* code and everything minted from it, without books, expiry or requests:  *)
(*                                                                         *)
(*   - a grant is worth one thing at a time: its unused code, then one     *)
(*     pair of tokens, then perhaps only the access token of that pair;    *)
(*   - it is renewed only while its refresh token is held, always with a   *)
(*     pair nobody had before, and the pair before it is worth nothing;    *)
(*   - one grant moves forward at a time, while others may only lose what  *)
(*     they had; a grant that has ended stays ended.                       *)
(*                                                                         *)
(* TokenStore implements this specification.                               *)
(***************************************************************************)
EXTENDS Naturals

CONSTANTS Codes, Pairs

VARIABLES
    phase,   \* where each grant stands
    holds,   \* the pair of which a grant still holds a token, if any
    spent    \* the pairs ever minted

vars == <<phase, holds, spent>>

Phase == {"unissued", "code", "renewable", "accessOnly", "ended"}

TypeOK ==
    /\ phase \in [Codes -> Phase]
    /\ holds \in [Codes -> SUBSET Pairs]
    /\ spent \in SUBSET Pairs

Init ==
    /\ phase = [c \in Codes |-> "unissued"]
    /\ holds = [c \in Codes |-> {}]
    /\ spent = {}

\* What a grant may come to without anybody using it.
Remains(p) ==
    CASE p = "unissued" -> {"unissued"}
      [] p = "code" -> {"code", "ended"}
      [] p = "renewable" -> {"renewable", "accessOnly", "ended"}
      [] OTHER -> {p, "ended"}

Decays(c) ==
    /\ phase'[c] \in Remains(phase[c])
    /\ holds'[c] = IF phase'[c] \in {"renewable", "accessOnly"} THEN holds[c] ELSE {}

\* Grants expire, are used up without a mint, or are lost in a restart.
Decay == spent' = spent /\ \A c \in Codes : Decays(c)

Issue(c) ==
    /\ phase[c] = "unissued"
    /\ phase'[c] = "code"
    /\ holds'[c] = {}
    /\ spent' = spent
    /\ \A d \in Codes \ {c} : Decays(d)

\* The code is redeemed, or the refresh token exchanged, for the pair n.
Mint(c, n) ==
    /\ phase[c] \in {"code", "renewable"}
    /\ n \notin spent
    /\ phase'[c] = "renewable"
    /\ holds'[c] = {n}
    /\ spent' = spent \union {n}
    /\ \A d \in Codes \ {c} : Decays(d)

Next ==
    \/ Decay
    \/ \E c \in Codes : Issue(c) \/ \E n \in Pairs : Mint(c, n)

Spec == Init /\ [][Next]_vars
=============================================================================
