---------------------------- MODULE Sessions_proofs ----------------------------
(***************************************************************************)
(* Proofs about Sessions.                                                  *)
(***************************************************************************)
EXTENDS Sessions, TLAPS

\* Names of several variables that always change together
USE DEF Hands, WillReturn

\* A request has the tokens that its next step needs.
Fits(q) ==
    /\ q.token # None <=> q.pc \in {"exchange", "rotate", "revoke"}
    /\ q.stored # None <=> q.pc = "revoke"
    /\ q.reset # None <=> q.pc = "reset"
    /\ q.pc = "wrong" => q.attempts < MaxAttempts

\* The tokens of a request have been issued.
Issued(q) ==
    /\ q.token # None => tokens[q.token] # None
    /\ q.stored # None => tokens[q.stored] # None
    /\ q.reset # None => resets[q.reset] # None

\* Requests have in memory what exists, while the user does.
Memory ==
    \A c \in Calls : calls[c] # None => /\ Fits(calls[c])
                                        /\ account # "deleted" => Issued(calls[c])

TypeInv == TypeOK /\ Memory /\ NothingDangles

\* As long as no wrong password was lost, the count is right.
LockInv ==
    /\ attempts >= Threshold => lockedUntil # "none"
    /\ ~lost => wrongs = attempts

\* No token is usable while a new one is about to be stored.
OneUsable ==
    \/ doubled = Resets
    \/ /\ \A x, y \in Resets : Usable(x) /\ Usable(y) => x = y
       /\ (\E c \in Calls : At(c, "request")) => \A x \in Resets : ~Usable(x)

\* A token was used once, or one request is about to.
UsedOnce(x) ==
    /\ uses[x] <= 1
    /\ uses[x] = 1 => ~Usable(x)
    /\ \A c \in Calls : calls[c] # None /\ calls[c].reset = x => uses[x] = 0
    /\ \A c, d \in Calls :
          calls[c] # None /\ calls[d] # None
          /\ calls[c].reset = x /\ calls[d].reset = x => c = d

ResetInv ==
    /\ OneUsable
    /\ \A x \in Resets \ doubled : UsedOnce(x)
    /\ account # "deleted" => \A x \in Resets : resets[x] = None => uses[x] = 0

\* The request exchanges a token of the session r.
In(c, r) ==
    /\ calls[c] # None /\ calls[c].token # None
    /\ tokens[calls[c].token] # None
    /\ tokens[calls[c].token].root = r

LiveIn(t, r) == Live(t) /\ tokens[t].root = r

\* Sessions are named by tokens; only those that began have ended, and only what
\* was issued is returned.
RootsIssued ==
    /\ \A t \in Tokens : tokens[t] # None => tokens[tokens[t].root] # None
    /\ account # "deleted" => \A t \in ended \cup Given : tokens[t] # None

\* One request exchanges a token of a session, and the tokens that live are the
\* ones it has.  Without such a request one token lives.
Straight(r) ==
    /\ \A c, d \in Calls : In(c, r) /\ In(d, r) => c = d
    /\ \A c \in Calls : In(c, r) => \A t \in Tokens :
          LiveIn(t, r) => t \in {calls[c].token, calls[c].stored}
    /\ (\A c \in Calls : ~In(c, r)) => \A t, n \in Tokens :
          LiveIn(t, r) /\ LiveIn(n, r) => t = n

\* The session r is over.
Over(r) ==
    /\ \A t \in Tokens : ~LiveIn(t, r)
    /\ \A c \in Calls : ~In(c, r)

\* The token that a request has stored continues the session of the one it was
\* given.  It is not returned yet.
StoredFor(q) ==
    /\ q.stored \notin Given
    /\ q.stored # q.token
    /\ tokens[q.stored] # None /\ tokens[q.token] # None
    /\ tokens[q.stored].root = tokens[q.token].root
    /\ Live(q.stored) \/ tokens[q.token].root \in ended \cup lapsed

Stored ==
    /\ \A c \in Calls : calls[c] # None /\ calls[c].stored # None /\ account = "open" =>
          StoredFor(calls[c])
    /\ \A c, d \in Calls : calls[c] # None /\ calls[d] # None
                          /\ calls[c].stored # None
                          /\ calls[c].stored = calls[d].stored => c = d
    /\ \A c \in Calls : calls[c] # None /\ calls[c].token # None =>
          calls[c].token \in Given

ChainInv ==
    /\ RootsIssued
    /\ \A r \in Tokens \ forked : Straight(r)
    /\ \A r \in ended \ (forked \cup outlived) : Over(r)
    /\ Stored
    /\ StillSignedIn

------------------------------------------------------------------------------
(* What is written to the tables                                           *)

\* The tokens are those there were, of the same sessions.
SameRoots ==
    \A m \in Tokens : /\ tokens'[m] = None <=> tokens[m] = None
                      /\ tokens[m] # None => tokens'[m].root = tokens[m].root

\* There is one token more, of the session r.
Grown(n, r) ==
    /\ tokens[n] = None
    /\ tokens'[n] # None /\ tokens'[n].root = r
    /\ \A m \in Tokens \ {n} :
          /\ tokens'[m] = None <=> tokens[m] = None
          /\ tokens[m] # None => tokens'[m].root = tokens[m].root

\* None is neither a token nor a request, nor the name of one.
LEMMA NoneApart ==
    /\ None \notin Token /\ None \notin Reset /\ None \notin Call
    /\ None \notin Tokens /\ None \notin Resets
  BY NoneAssumption

\* A new token is a token.
LEMMA NewIs ==
  ASSUME NEW r \in Tokens, NEW issuer \in {"graphql", "rest"}
  PROVE  /\ New(r, issuer) \in Token /\ New(r, issuer) # None
         /\ New(r, issuer).root = r
         /\ ~New(r, issuer).revoked /\ ~New(r, issuer).expired
  <1>1. New(r, issuer) \in Token
    BY DEF New, Token
  <1>2. New(r, issuer) # None
    BY <1>1, NoneApart
  <1> QED
    BY <1>1, <1>2 DEF New

\* One token is revoked.
LEMMA RevokedIs ==
  ASSUME TypeOK, NEW t \in Tokens, tokens[t] # None,
         tokens' = [tokens EXCEPT ![t].revoked = TRUE]
  PROVE  /\ tokens' \in [Tokens -> Token \cup {None}]
         /\ SameRoots
         /\ \A m \in Tokens : Live(m)' <=> Live(m) /\ m # t
  <1>1. tokens[t] \in Token
    BY DEF TypeOK
  <1>2. tokens' = [tokens EXCEPT ![t] = [tokens[t] EXCEPT !.revoked = TRUE]]
    BY DEF TypeOK
  <1> DEFINE w == [tokens[t] EXCEPT !.revoked = TRUE]
  <1>3. w \in Token /\ w.root = tokens[t].root /\ w.revoked
    BY <1>1 DEF Token
  <1>4. tokens'[t] = w /\ \A m \in Tokens \ {t} : tokens'[m] = tokens[m]
    BY <1>2 DEF TypeOK
  <1> HIDE DEF w
  <1>5. tokens' \in [Tokens -> Token \cup {None}]
    BY <1>2, <1>3, <1>4 DEF TypeOK, w
  <1> QED
    BY <1>3, <1>4, <1>5, NoneApart DEF SameRoots, Live

\* One token expires.
LEMMA ExpiredIs ==
  ASSUME TypeOK, NEW t \in Tokens, tokens[t] # None,
         tokens' = [tokens EXCEPT ![t].expired = TRUE]
  PROVE  /\ tokens' \in [Tokens -> Token \cup {None}]
         /\ SameRoots
         /\ \A m \in Tokens : Live(m)' <=> Live(m) /\ m # t
  <1>1. tokens[t] \in Token
    BY DEF TypeOK
  <1>2. tokens' = [tokens EXCEPT ![t] = [tokens[t] EXCEPT !.expired = TRUE]]
    BY DEF TypeOK
  <1> DEFINE w == [tokens[t] EXCEPT !.expired = TRUE]
  <1>3. w \in Token /\ w.root = tokens[t].root /\ w.expired
    BY <1>1 DEF Token
  <1>4. tokens'[t] = w /\ \A m \in Tokens \ {t} : tokens'[m] = tokens[m]
    BY <1>2 DEF TypeOK
  <1> HIDE DEF w
  <1>5. tokens' \in [Tokens -> Token \cup {None}]
    BY <1>2, <1>3, <1>4 DEF TypeOK, w
  <1> QED
    BY <1>3, <1>4, <1>5, NoneApart DEF SameRoots, Live

\* A token is stored.
LEMMA StartedIs ==
  ASSUME TypeOK, NEW n \in Tokens, tokens[n] = None,
         NEW r \in Tokens, NEW issuer \in {"graphql", "rest"},
         tokens' = [tokens EXCEPT ![n] = New(r, issuer)]
  PROVE  /\ tokens' \in [Tokens -> Token \cup {None}]
         /\ Grown(n, r)
         /\ \A m \in Tokens : Live(m)' <=> Live(m) \/ m = n
  <1>1. /\ tokens'[n] = New(r, issuer)
        /\ \A m \in Tokens \ {n} : tokens'[m] = tokens[m]
        /\ tokens' \in [Tokens -> Token \cup {None}]
    BY NewIs DEF TypeOK
  <1> QED
    BY <1>1, NewIs DEF Grown, Live

\* A token is revoked and its successor stored.
LEMMA ExchangedIs ==
  ASSUME TypeOK, NEW t \in Tokens, tokens[t] # None,
         NEW n \in Tokens, tokens[n] = None, tokens' = Exchanged(t, n)
  PROVE  /\ tokens' \in [Tokens -> Token \cup {None}]
         /\ Grown(n, tokens[t].root)
         /\ \A m \in Tokens : Live(m)' <=> (Live(m) /\ m # t) \/ m = n
  <1>1. tokens[t] \in Token /\ t # n /\ tokens[t].root \in Tokens
    BY DEF TypeOK, Token
  <1> DEFINE w == [tokens[t] EXCEPT !.revoked = TRUE]
             g == New(tokens[t].root, "graphql")
  <1>2. tokens' = [tokens EXCEPT ![t] = w, ![n] = g]
    BY <1>1 DEF Exchanged, TypeOK
  <1>3. w \in Token /\ w.root = tokens[t].root /\ w.revoked
    BY <1>1 DEF Token
  <1>4. g \in Token /\ g # None /\ g.root = tokens[t].root /\ ~g.revoked /\ ~g.expired
    BY <1>1, NewIs
  <1> HIDE DEF w, g
  <1>5. /\ tokens'[t] = w /\ tokens'[n] = g
        /\ \A m \in Tokens \ {t, n} : tokens'[m] = tokens[m]
        /\ tokens' \in [Tokens -> Token \cup {None}]
    BY <1>1, <1>2, <1>3, <1>4 DEF TypeOK
  <1> QED
    BY <1>1, <1>3, <1>4, <1>5, NoneApart DEF Grown, Live

\* All tokens are revoked.
LEMMA AllRevokedIs ==
  ASSUME TypeOK
  PROVE  /\ AllRevoked \in [Tokens -> Token \cup {None}]
         /\ \A m \in Tokens :
               /\ AllRevoked[m] = None <=> tokens[m] = None
               /\ tokens[m] # None => /\ AllRevoked[m].root = tokens[m].root
                                      /\ AllRevoked[m].revoked
  <1>1. ASSUME NEW m \in Tokens, tokens[m] # None
        PROVE  /\ AllRevoked[m] \in Token
               /\ AllRevoked[m].root = tokens[m].root
               /\ AllRevoked[m].revoked
    <2>1. tokens[m] \in Token
      BY <1>1 DEF TypeOK
    <2>2. AllRevoked[m] = [tokens[m] EXCEPT !.revoked = TRUE]
      BY <1>1 DEF AllRevoked
    <2> QED
      BY <2>1, <2>2 DEF Token
  <1>2. \A m \in Tokens : tokens[m] = None => AllRevoked[m] = None
    BY DEF AllRevoked
  <1>3. AllRevoked = [m \in Tokens |-> AllRevoked[m]]
    BY DEF AllRevoked
  <1>4. \A m \in Tokens : AllRevoked[m] \in Token \cup {None}
    BY <1>1, <1>2
  <1> HIDE DEF AllRevoked
  <1>5. AllRevoked \in [Tokens -> Token \cup {None}]
    BY <1>3, <1>4
  <1> QED
    BY <1>1, <1>2, <1>5, NoneApart

\* All sessions end.
LEMMA LoggedOutIs ==
  ASSUME TypeOK, tokens' = AllRevoked
  PROVE  /\ tokens' \in [Tokens -> Token \cup {None}]
         /\ SameRoots
         /\ \A m \in Tokens : ~Live(m)'
  BY AllRevokedIs DEF SameRoots, Live

\* All sessions end and one begins.
LEMMA RestartedIs ==
  ASSUME TypeOK, NEW n \in Tokens, tokens[n] = None,
         tokens' = [AllRevoked EXCEPT ![n] = New(n, "graphql")]
  PROVE  /\ tokens' \in [Tokens -> Token \cup {None}]
         /\ Grown(n, n)
         /\ \A m \in Tokens : Live(m)' <=> m = n
  <1>1. /\ tokens'[n] = New(n, "graphql")
        /\ \A m \in Tokens \ {n} : tokens'[m] = AllRevoked[m]
        /\ tokens' \in [Tokens -> Token \cup {None}]
    BY AllRevokedIs, NewIs
  <1> QED
    BY <1>1, AllRevokedIs, NewIs DEF Grown, Live

\* Reset tokens are not usable any more.
LEMMA OthersUsedIs ==
  ASSUME TypeOK, resets' = OthersUsed
  PROVE  /\ resets' \in [Resets -> Reset \cup {None}]
         /\ \A y \in Resets : resets'[y] = None <=> resets[y] = None
         /\ \A y \in Resets : ~Usable(y)'
  <1>1. ASSUME NEW y \in Resets, resets[y] # None
        PROVE  resets'[y] \in Reset /\ resets'[y].used
    <2>1. resets[y] \in Reset
      BY <1>1 DEF TypeOK
    <2>2. resets'[y] = [resets[y] EXCEPT !.used = TRUE]
      BY <1>1 DEF OthersUsed
    <2> QED
      BY <2>1, <2>2 DEF Reset
  <1>2. \A y \in Resets : resets[y] = None => resets'[y] = None
    BY DEF OthersUsed
  <1>3. resets' = [y \in Resets |-> resets'[y]]
    BY DEF OthersUsed
  <1> QED
    BY <1>1, <1>2, <1>3, NoneApart DEF Usable

\* One reset token is spent.
LEMMA SpentIs ==
  ASSUME TypeOK, NEW x \in Resets, resets[x] # None, Spent(x)
  PROVE  /\ resets' \in [Resets -> Reset \cup {None}]
         /\ \A y \in Resets : resets'[y] = None <=> resets[y] = None
         /\ \A y \in Resets : Usable(y)' <=> Usable(y) /\ y # x
  <1>1. resets[x] \in Reset
    BY DEF TypeOK
  <1> DEFINE w == [resets[x] EXCEPT !.used = TRUE]
  <1>2. resets' = [resets EXCEPT ![x] = w]
    BY DEF Spent, TypeOK
  <1>3. w \in Reset /\ w.used
    BY <1>1 DEF Reset
  <1> HIDE DEF w
  <1>4. /\ resets'[x] = w /\ \A y \in Resets \ {x} : resets'[y] = resets[y]
        /\ resets' \in [Resets -> Reset \cup {None}]
    BY <1>2, <1>3 DEF TypeOK
  <1> QED
    BY <1>3, <1>4, NoneApart DEF Usable

\* One reset token expires.
LEMMA ExpiredResetIs ==
  ASSUME TypeOK, NEW x \in Resets, ExpireReset(x)
  PROVE  /\ resets' \in [Resets -> Reset \cup {None}]
         /\ \A y \in Resets : resets'[y] = None <=> resets[y] = None
         /\ \A y \in Resets : Usable(y)' <=> Usable(y) /\ y # x
  <1>1. resets[x] \in Reset /\ resets[x] # None
    BY DEF TypeOK, ExpireReset, Usable
  <1> DEFINE w == [resets[x] EXCEPT !.expired = TRUE]
  <1>2. resets' = [resets EXCEPT ![x] = w]
    BY DEF ExpireReset, TypeOK
  <1>3. w \in Reset /\ w.expired
    BY <1>1 DEF Reset
  <1> HIDE DEF w
  <1>4. /\ resets'[x] = w /\ \A y \in Resets \ {x} : resets'[y] = resets[y]
        /\ resets' \in [Resets -> Reset \cup {None}]
    BY <1>2, <1>3 DEF TypeOK
  <1> QED
    BY <1>3, <1>4, NoneApart, <1>1 DEF Usable

------------------------------------------------------------------------------
(* What requests have in memory                                            *)

\* A request begins.
LEMMA BeginIs ==
  ASSUME TypeOK, NEW c \in Calls, NEW t \in Tokens \cup {None},
         NEW x \in Resets \cup {None},
         NEW pc \in {"wrong", "right", "oauth", "store", "persist", "rotate",
                     "exchange", "revoke", "request", "reset"},
         Begin(c, pc, t, x)
  PROVE  /\ calls' \in [Calls -> Call \cup {None}] /\ begun' \in Nat
         /\ calls[c] = None /\ calls'[c] # None
         /\ calls'[c].pc = pc /\ calls'[c].token = t /\ calls'[c].reset = x
         /\ calls'[c].stored = None /\ calls'[c].attempts = attempts
         /\ \A d \in Calls \ {c} : calls'[d] = calls[d]
  <1> DEFINE q == [pc |-> pc, token |-> t, reset |-> x, stored |-> None,
                   attempts |-> attempts]
  <1>1. q \in Call
    BY DEF TypeOK, Call
  <1>2. /\ q.pc = pc /\ q.token = t /\ q.reset = x
        /\ q.stored = None /\ q.attempts = attempts
    OBVIOUS
  <1>3. calls[c] = None /\ calls' = [calls EXCEPT ![c] = q] /\ begun' = begun + 1
    BY DEF Begin
  <1> HIDE DEF q
  <1>4. begun' \in Nat
    BY <1>3 DEF TypeOK
  <1>5. /\ calls'[c] = q /\ \A d \in Calls \ {c} : calls'[d] = calls[d]
        /\ calls' \in [Calls -> Call \cup {None}]
    BY <1>1, <1>3 DEF TypeOK
  <1>6. q # None
    BY <1>1, NoneApart
  <1> QED
    BY <1>2, <1>3, <1>4, <1>5, <1>6

\* A request ends.
LEMMA EndIs ==
  ASSUME TypeOK, NEW c \in Calls, End(c)
  PROVE  /\ calls' \in [Calls -> Call \cup {None}]
         /\ calls'[c] = None
         /\ \A d \in Calls \ {c} : calls'[d] = calls[d]
  BY DEF TypeOK, End

\* A request is about to store a token.
LEMMA GotoIs ==
  ASSUME TypeOK, NEW c \in Calls, calls[c] # None, Goto(c, "store")
  PROVE  /\ calls' \in [Calls -> Call \cup {None}]
         /\ calls'[c] # None /\ calls'[c].pc = "store"
         /\ calls'[c].token = calls[c].token /\ calls'[c].reset = calls[c].reset
         /\ calls'[c].stored = calls[c].stored
         /\ \A d \in Calls \ {c} : calls'[d] = calls[d]
  <1>1. calls[c] \in Call
    BY DEF TypeOK
  <1> DEFINE q == [calls[c] EXCEPT !.pc = "store"]
  <1>2. /\ q \in Call /\ q.pc = "store" /\ q.token = calls[c].token
        /\ q.reset = calls[c].reset /\ q.stored = calls[c].stored
    BY <1>1 DEF Call
  <1>3. calls' = [calls EXCEPT ![c] = q]
    BY DEF Goto, TypeOK
  <1> HIDE DEF q
  <1>4. /\ calls'[c] = q /\ \A d \in Calls \ {c} : calls'[d] = calls[d]
        /\ calls' \in [Calls -> Call \cup {None}]
    BY <1>2, <1>3 DEF TypeOK
  <1>5. q # None
    BY <1>2, NoneApart
  <1> QED
    BY <1>2, <1>4, <1>5

\* A request has stored the token n and is about to revoke its own.
LEMMA PersistedIs ==
  ASSUME TypeOK, NEW c \in Calls, calls[c] # None, NEW n \in Tokens,
         calls' = [calls EXCEPT ![c].pc = "revoke", ![c].stored = n]
  PROVE  /\ calls' \in [Calls -> Call \cup {None}]
         /\ calls'[c] # None /\ calls'[c].pc = "revoke"
         /\ calls'[c].token = calls[c].token /\ calls'[c].reset = calls[c].reset
         /\ calls'[c].stored = n
         /\ \A d \in Calls \ {c} : calls'[d] = calls[d]
  <1>1. calls[c] \in Call
    BY DEF TypeOK
  <1> DEFINE q == [calls[c] EXCEPT !.pc = "revoke", !.stored = n]
  <1>2. /\ q \in Call /\ q.pc = "revoke" /\ q.token = calls[c].token
        /\ q.reset = calls[c].reset /\ q.stored = n
    BY <1>1 DEF Call
  <1>3. calls' = [calls EXCEPT ![c] = q]
    BY DEF TypeOK
  <1> HIDE DEF q
  <1>4. /\ calls'[c] = q /\ \A d \in Calls \ {c} : calls'[d] = calls[d]
        /\ calls' \in [Calls -> Call \cup {None}]
    BY <1>2, <1>3 DEF TypeOK
  <1>5. q # None
    BY <1>2, NoneApart
  <1> QED
    BY <1>2, <1>4, <1>5

\* The fields of a request are typed.
LEMMA CallIs ==
  ASSUME TypeOK, NEW c \in Calls, calls[c] # None
  PROVE  /\ calls[c].token \in Tokens \cup {None}
         /\ calls[c].stored \in Tokens \cup {None}
         /\ calls[c].reset \in Resets \cup {None}
         /\ calls[c].attempts \in 0 .. MaxAttempts
  <1>1. calls[c] \in Call
    BY DEF TypeOK
  <1> QED
    BY <1>1 DEF Call

------------------------------------------------------------------------------
(* Types                                                                   *)

\* Requests that were not in flight fit what they are about to do.
CallsFit ==
    \A d \in Calls : calls'[d] # None =>
        \/ calls'[d] = calls[d]
        \/ Fits(calls'[d]) /\ (account' # "deleted" => Issued(calls[d])')

\* No row is removed, and none is inserted for a user who is not there.
RowsStay ==
    /\ \A t \in Tokens : tokens[t] # None => tokens'[t] # None
    /\ \A x \in Resets : resets[x] # None => resets'[x] # None
    /\ account # "open" => /\ \A t \in Tokens : tokens[t] = None => tokens'[t] = None
                           /\ \A x \in Resets : resets[x] = None => resets'[x] = None

\* Requests that stay in flight fit, as long as rows stay.
LEMMA MemoryKept ==
  ASSUME TypeInv, TypeOK', CallsFit,
         account' # "deleted" => account # "deleted",
         \A t \in Tokens : tokens[t] # None => tokens'[t] # None,
         \A x \in Resets : resets[x] # None => resets'[x] # None
  PROVE  Memory'
  <1> SUFFICES ASSUME NEW c \in Calls, calls'[c] # None, calls'[c] = calls[c]
               PROVE  /\ Fits(calls'[c])
                      /\ account' # "deleted" => Issued(calls[c])'
    BY DEF CallsFit, Memory
  <1>1. Fits(calls[c]) /\ (account # "deleted" => Issued(calls[c]))
    BY DEF TypeInv, Memory
  <1>2. /\ calls[c].token \in Tokens \cup {None}
        /\ calls[c].stored \in Tokens \cup {None}
        /\ calls[c].reset \in Resets \cup {None}
    BY CallIs DEF TypeInv
  <1>3. ASSUME account' # "deleted"
        PROVE  Issued(calls[c])'
    BY <1>1, <1>2, <1>3 DEF Issued
  <1> QED
    BY <1>1, <1>3

\* As long as the user is the same and rows stay, the type does.
LEMMA TypeKept ==
  ASSUME TypeInv, TypeOK', CallsFit, RowsStay, UNCHANGED account
  PROVE  TypeInv'
  <1>1. Memory'
    BY MemoryKept DEF RowsStay
  <1>2. NothingDangles'
    BY DEF TypeInv, NothingDangles, RowsStay, Fresh
  <1> QED
    BY <1>1, <1>2 DEF TypeInv

\* A request that begins has the tokens that its next step needs.
LEMMA BegunFits ==
  ASSUME TypeInv, NEW c \in Calls, NEW t \in Tokens \cup {None},
         NEW x \in Resets \cup {None},
         NEW pc \in {"wrong", "right", "oauth", "store", "persist", "rotate",
                     "exchange", "request", "reset"},
         Begin(c, pc, t, x),
         t # None <=> pc \in {"exchange", "rotate"},
         x # None <=> pc = "reset",
         pc = "wrong" => attempts < MaxAttempts,
         t # None => tokens'[t] # None,
         x # None => resets'[x] # None
  PROVE  CallsFit
  <1>1. /\ calls'[c].pc = pc /\ calls'[c].token = t /\ calls'[c].reset = x
        /\ calls'[c].stored = None /\ calls'[c].attempts = attempts
        /\ \A d \in Calls \ {c} : calls'[d] = calls[d]
    BY BeginIs DEF TypeInv
  <1>2. Fits(calls'[c])
    BY <1>1 DEF Fits
  <1>3. Issued(calls[c])'
    BY <1>1 DEF Issued
  <1> QED
    BY <1>1, <1>2, <1>3 DEF CallsFit

\* Requests that sign in and up, and those that look a token up, keep the type.
LEMMA RequestsKeepType ==
  ASSUME TypeInv, NEW c \in Calls, Request(c)
  PROVE  TypeInv'
  <1> USE DEF TypeInv
  <1>1. CASE RestSignUp(c)
    <2>1. Begin(c, "persist", None, None)
      BY <1>1 DEF RestSignUp
    <2>2. TypeOK'
      <3>1. calls' \in [Calls -> Call \cup {None}] /\ begun' \in Nat
        BY <2>1, BeginIs
      <3> QED
        BY <1>1, <3>1 DEF RestSignUp, TypeOK, Lockout, Chains, Recovery
    <2>3. CallsFit
      BY <2>1, BegunFits
    <2>4. Memory'
      BY <1>1, <2>2, <2>3, MemoryKept DEF RestSignUp, Recovery
    <2>5. NothingDangles'
      BY <1>1 DEF RestSignUp, NothingDangles
    <2> QED
      BY <2>2, <2>4, <2>5
  <1>2. ASSUME UNCHANGED <<Rows, Hands, wrongs, lost, ended, lapsed, outlived, uses, faults>>,
               forked' \subseteq Tokens, doubled' \subseteq Resets,
               NEW t \in Tokens \cup {None}, NEW x \in Resets \cup {None},
               NEW pc \in {"wrong", "right", "oauth", "store", "persist",
                           "rotate", "exchange", "reset"},
               Begin(c, pc, t, x),
               t # None <=> pc \in {"exchange", "rotate"},
               x # None <=> pc = "reset",
               pc = "wrong" => attempts < MaxAttempts,
               t # None => tokens[t] # None, x # None => resets[x] # None
        PROVE  TypeInv'
    <2>1. TypeOK'
      <3>1. calls' \in [Calls -> Call \cup {None}] /\ begun' \in Nat
        BY <1>2, BeginIs
      <3> QED
        BY <1>2, <3>1 DEF TypeOK, Rows
    <2>2. CallsFit
      BY <1>2, BegunFits DEF Rows
    <2> QED
      BY <1>2, <2>1, <2>2, TypeKept DEF Rows, RowsStay
  <1>3. TypeOK
    OBVIOUS
  <1> HIDE DEF TypeInv
  <1>4. CASE SignIn(c)
    <2>1. /\ UNCHANGED <<Rows, Hands, wrongs, lost, ended, lapsed, outlived, uses, faults>>
          /\ forked' \subseteq Tokens /\ doubled' \subseteq Resets
      BY <1>3, <1>4 DEF SignIn, TypeOK, Chains
    <2>2. CASE attempts < MaxAttempts /\ Begin(c, "wrong", None, None)
      BY <1>2, <2>1, <2>2
    <2>3. CASE Begin(c, AfterPassword("right"), None, None)
      BY <1>2, <2>1, <2>3 DEF AfterPassword
    <2> QED
      BY <1>4, <2>2, <2>3 DEF SignIn
  <1>5. CASE RestSignIn(c)
    <2>1. /\ UNCHANGED <<Rows, Hands, wrongs, lost, ended, lapsed, outlived, uses, faults>>
          /\ forked' \subseteq Tokens /\ doubled' \subseteq Resets
          /\ Begin(c, "persist", None, None)
      BY <1>3, <1>5 DEF RestSignIn, TypeOK, Chains
    <2> QED
      BY <1>2, <2>1
  <1>6. CASE SignInWithOAuth(c)
    <2>1. /\ UNCHANGED <<Rows, Hands, wrongs, lost, ended, lapsed, outlived, uses, faults>>
          /\ forked' \subseteq Tokens /\ doubled' \subseteq Resets
          /\ Begin(c, AfterPassword("oauth"), None, None)
      BY <1>3, <1>6 DEF SignInWithOAuth, TypeOK, Chains
    <2> QED
      BY <1>2, <2>1 DEF AfterPassword
  <1>7. ASSUME NEW t \in Tokens, NEW pc \in {"exchange", "rotate"}, Exchange(c, t, pc)
        PROVE  TypeInv'
    <2>1. tokens[t] # None /\ tokens[t].root \in Tokens
      BY <1>3, <1>7 DEF Exchange, Valid, Live, TypeOK, Token
    <2>2. /\ UNCHANGED <<Rows, Hands, wrongs, lost, ended, lapsed, outlived, uses, faults>>
          /\ forked' \subseteq Tokens /\ doubled' \subseteq Resets
          /\ Begin(c, pc, t, None)
      BY <1>3, <1>7, <2>1 DEF Exchange, TypeOK
    <2> QED
      BY <1>2, <1>7, <2>1, <2>2, NoneApart
  <1>8. ASSUME NEW x \in Resets, ResetPassword(c, x)
        PROVE  TypeInv'
    <2>1. resets[x] # None
      BY <1>8 DEF ResetPassword, Usable
    <2>2. /\ UNCHANGED <<Rows, Hands, wrongs, lost, ended, lapsed, outlived, uses, faults>>
          /\ forked' \subseteq Tokens /\ doubled' \subseteq Resets
          /\ Begin(c, "reset", None, x)
      BY <1>3, <1>8 DEF ResetPassword, TypeOK, Chains
    <2> QED
      BY <1>2, <1>8, <2>1, <2>2, NoneApart
  <1>9. CASE RequestPasswordReset(c)
    <2>1. CASE account = "open"
      <3>1. /\ Begin(c, "request", None, None)
            /\ resets' = OthersUsed
            /\ UNCHANGED <<account, Lockout, tokens, Hands, Chains, uses, doubled, faults>>
        BY <1>9, <2>1 DEF RequestPasswordReset
      <3>2. TypeOK'
        <4>1. calls' \in [Calls -> Call \cup {None}] /\ begun' \in Nat
          BY <1>3, <3>1, BeginIs
        <4>2. resets' \in [Resets -> Reset \cup {None}]
          BY <1>3, <3>1, OthersUsedIs
        <4> QED
          BY <1>3, <3>1, <4>1, <4>2 DEF TypeOK, Lockout, Chains
      <3>3. CallsFit
        BY <3>1, BegunFits
      <3> QED
        BY <1>3, <2>1, <3>1, <3>2, <3>3, OthersUsedIs, TypeKept DEF RowsStay
    <2>2. CASE UNCHANGED vars
      BY <1>3, <2>2 DEF vars, Rows, Chains, TypeInv, TypeOK, Memory, Issued,
         NothingDangles, Fresh
    <2> QED
      BY <1>9, <2>1, <2>2 DEF RequestPasswordReset
  <1> QED
    BY <1>1, <1>4, <1>5, <1>6, <1>7, <1>8, <1>9 DEF Request

\* A request that ends leaves the others as they are.
LEMMA EndFits ==
  ASSUME TypeOK, NEW c \in Calls, End(c)
  PROVE  CallsFit
  BY EndIs DEF CallsFit

\* Clearing the count keeps its type.
LEMMA ClearedIs ==
  ASSUME ClearAttempts
  PROVE  /\ attempts' = 0 /\ wrongs' = 0 /\ lockedUntil' = "none" /\ lost' = FALSE
         /\ attempts' \in 0 .. MaxAttempts /\ wrongs' \in 0 .. MaxAttempts
  BY AttemptsAssumption DEF ClearAttempts, Unlock

\* Recording a password keeps the type.
LEMMA RecordsKeepType ==
  ASSUME TypeInv, NEW c \in Calls, RecordWrong(c) \/ RecordRight(c)
  PROVE  TypeInv'
  <1>1. TypeOK
    BY DEF TypeInv
  <1>2. CASE RecordWrong(c)
    <2>1. calls[c] # None /\ calls[c].pc = "wrong" /\ End(c)
      BY <1>2 DEF RecordWrong, At
    <2>2. calls[c].attempts \in 0 .. MaxAttempts /\ calls[c].attempts < MaxAttempts
      BY <1>1, <2>1, CallIs DEF TypeInv, Memory, Fits
    <2>3. /\ attempts' \in 0 .. MaxAttempts /\ wrongs' \in 0 .. MaxAttempts
          /\ lockedUntil' \in {"none", "future", "past"}
      <3>1. CASE account = "open"
        <4>1. /\ attempts' = calls[c].attempts + 1
              /\ wrongs' = IF wrongs < MaxAttempts THEN wrongs + 1 ELSE wrongs
              /\ lockedUntil' \in {"future", lockedUntil}
          BY <1>2, <3>1 DEF RecordWrong
        <4>2. lockedUntil' \in {"none", "future", "past"}
          BY <1>1, <4>1 DEF TypeOK
        <4>3. wrongs \in 0 .. MaxAttempts
          BY <1>1 DEF TypeOK
        <4> QED
          BY <2>2, <4>1, <4>2, <4>3, AttemptsAssumption
      <3>2. CASE account # "open"
        BY <1>1, <1>2, <3>2 DEF RecordWrong, TypeOK, Lockout
      <3> QED
        BY <3>1, <3>2
    <2>4. lost' \in BOOLEAN
      BY <1>1, <1>2 DEF RecordWrong, TypeOK, Lockout
    <2>5. calls' \in [Calls -> Call \cup {None}] /\ CallsFit
      BY <1>1, <2>1, EndIs, EndFits
    <2>6. UNCHANGED <<account, tokens, Hands, Chains, Recovery, faults, begun>>
      BY <1>2 DEF RecordWrong
    <2>7. TypeOK'
      BY <1>1, <2>3, <2>4, <2>5, <2>6 DEF TypeOK, Chains, Recovery
    <2> QED
      BY <2>5, <2>6, <2>7, TypeKept DEF RowsStay, Recovery
  <1>3. CASE RecordRight(c)
    <2>1. calls[c] # None /\ calls[c].pc = "right" /\ Goto(c, "store")
      BY <1>3 DEF RecordRight, At
    <2>2. /\ attempts' \in 0 .. MaxAttempts /\ wrongs' \in 0 .. MaxAttempts
          /\ lockedUntil' \in {"none", "future", "past"}
          /\ lost' \in BOOLEAN
      BY <1>1, <1>3, ClearedIs DEF RecordRight, TypeOK, Lockout
    <2>3. /\ calls' \in [Calls -> Call \cup {None}]
          /\ calls'[c] # None /\ calls'[c].pc = "store"
          /\ calls'[c].token = calls[c].token /\ calls'[c].reset = calls[c].reset
          /\ calls'[c].stored = calls[c].stored
          /\ \A d \in Calls \ {c} : calls'[d] = calls[d]
      BY <1>1, <2>1, GotoIs
    <2>4. Fits(calls'[c]) /\ Issued(calls[c])'
      BY <2>1, <2>3 DEF TypeInv, Memory, Fits, Issued
    <2>5. CallsFit
      BY <2>3, <2>4 DEF CallsFit
    <2>6. UNCHANGED <<account, tokens, Hands, Chains, Recovery, faults, begun>>
      BY <1>3 DEF RecordRight
    <2>7. TypeOK'
      BY <1>1, <2>2, <2>3, <2>6 DEF TypeOK, Chains, Recovery
    <2> QED
      BY <2>5, <2>6, <2>7, TypeKept DEF RowsStay, Recovery
  <1> QED
    BY <1>2, <1>3

\* Storing a token keeps the type.
LEMMA StoreTokenKeepsType ==
  ASSUME TypeInv, NEW c \in Calls, StoreToken(c)
  PROVE  TypeInv'
  <1>1. TypeOK
    BY DEF TypeInv
  <1>2. End(c) /\ UNCHANGED <<account, Chains, Recovery, faults, begun>>
    BY DEF StoreToken
  <1>3. calls' \in [Calls -> Call \cup {None}] /\ CallsFit
    BY <1>1, <1>2, EndIs, EndFits
  <1>4. CASE account = "open"
    <2>1. PICK t \in Fresh :
             /\ tokens' = [tokens EXCEPT ![t] =
                    New(t, IF At(c, "persist") THEN "rest" ELSE "graphql")]
             /\ WillReturn(t)
      BY <1>4 DEF StoreToken, MayStore
    <2>2. t \in Tokens /\ tokens[t] = None
      BY DEF Fresh
    <2>3. /\ tokens' \in [Tokens -> Token \cup {None}]
          /\ \A m \in Tokens : tokens[m] # None => tokens'[m] # None
      <3>1. tokens' \in [Tokens -> Token \cup {None}] /\ Grown(t, t)
        BY <1>1, <2>1, <2>2, StartedIs
      <3> QED
        BY <3>1 DEF Grown
    <2>4. /\ attempts' \in 0 .. MaxAttempts /\ wrongs' \in 0 .. MaxAttempts
          /\ lockedUntil' \in {"none", "future", "past"}
          /\ lost' \in BOOLEAN
      BY <1>1, <1>4, ClearedIs DEF StoreToken, MayStore, TypeOK, Lockout
    <2>5. TypeOK'
      BY <1>1, <1>2, <1>3, <2>1, <2>2, <2>3, <2>4 DEF TypeOK, Chains, Recovery
    <2> QED
      BY <1>2, <1>3, <1>4, <2>3, <2>5, TypeKept DEF RowsStay, Recovery
  <1>5. CASE account # "open"
    <2>1. UNCHANGED <<tokens, Hands, Lockout>>
      BY <1>5 DEF StoreToken, MayStore
    <2>2. TypeOK'
      BY <1>1, <1>2, <1>3, <2>1 DEF TypeOK, Chains, Recovery, Lockout
    <2> QED
      BY <1>2, <1>3, <2>1, <2>2, TypeKept DEF RowsStay, Recovery
  <1> QED
    BY <1>4, <1>5

\* A request that exchanges a token of a user who is there has one.
LEMMA HasToken ==
  ASSUME TypeInv, NEW c \in Calls, calls[c] # None, account # "deleted",
         calls[c].pc \in {"exchange", "rotate", "revoke"}
  PROVE  /\ calls[c].token \in Tokens /\ tokens[calls[c].token] # None
         /\ tokens[calls[c].token] \in Token
         /\ tokens[calls[c].token].root \in Tokens
  <1>1. calls[c].token \in Tokens /\ tokens[calls[c].token] # None
    BY CallIs DEF TypeInv, Memory, Fits, Issued
  <1>2. tokens[calls[c].token] \in Token
    BY <1>1 DEF TypeInv, TypeOK
  <1> QED
    BY <1>1, <1>2 DEF Token

\* Exchanging a token by the mutation keeps the type.
LEMMA RefreshTokenKeepsType ==
  ASSUME TypeInv, NEW c \in Calls, RefreshToken(c)
  PROVE  TypeInv'
  <1> DEFINE t == calls[c].token
  <1>1. TypeOK
    BY DEF TypeInv
  <1>2. /\ calls[c] # None /\ calls[c].pc = "exchange" /\ End(c)
        /\ UNCHANGED <<account, Lockout, Chains, Recovery, faults, begun>>
    BY DEF RefreshToken, At
  <1>3. calls' \in [Calls -> Call \cup {None}] /\ CallsFit
    BY <1>1, <1>2, EndIs, EndFits
  <1>4. CASE account = "open"
    <2>1. PICK n \in Fresh : tokens' = Exchanged(t, n) /\ WillReturn(n)
      BY <1>4 DEF RefreshToken, MayStore
    <2>2. n \in Tokens /\ tokens[n] = None /\ t \in Tokens /\ tokens[t] # None
      BY <1>2, <1>4, HasToken DEF Fresh
    <2>3. tokens' \in [Tokens -> Token \cup {None}] /\ Grown(n, tokens[t].root)
      BY <1>1, <2>1, <2>2, ExchangedIs
    <2>4. TypeOK'
      BY <1>1, <1>2, <1>3, <2>1, <2>2, <2>3 DEF TypeOK, Lockout, Chains, Recovery
    <2>5. \A m \in Tokens : tokens[m] # None => tokens'[m] # None
      BY <2>3 DEF Grown
    <2> QED
      BY <1>2, <1>3, <1>4, <2>4, <2>5, TypeKept DEF RowsStay, Recovery
  <1>5. CASE account # "open"
    <2>1. UNCHANGED <<tokens, Hands>>
      BY <1>5 DEF RefreshToken, MayStore
    <2>2. TypeOK'
      BY <1>1, <1>2, <1>3, <2>1 DEF TypeOK, Lockout, Chains, Recovery
    <2> QED
      BY <1>2, <1>3, <2>1, <2>2, TypeKept DEF RowsStay, Recovery
  <1> QED
    BY <1>4, <1>5

\* What rotateRefresh stores keeps the type.
LEMMA PersistKeepsType ==
  ASSUME TypeInv, NEW c \in Calls, PersistRefreshToken(c)
  PROVE  TypeInv'
  <1> DEFINE t == calls[c].token
  <1>1. TypeOK
    BY DEF TypeInv
  <1>2. /\ calls[c] # None /\ calls[c].pc = "rotate"
        /\ UNCHANGED <<account, Lockout, Hands, Chains, Recovery, faults, begun>>
    BY DEF PersistRefreshToken, At
  <1>3. CASE account = "open"
    <2>1. PICK n \in Fresh :
             /\ tokens' = Persisted(t, n)
             /\ calls' = [calls EXCEPT ![c].pc = "revoke", ![c].stored = n]
      BY <1>3 DEF PersistRefreshToken, MayStore
    <2>2. /\ n \in Tokens /\ tokens[n] = None /\ t \in Tokens /\ tokens[t] # None
          /\ tokens[t].root \in Tokens
      BY <1>2, <1>3, HasToken DEF Fresh
    <2>3. tokens' \in [Tokens -> Token \cup {None}] /\ Grown(n, tokens[t].root)
      <3>1. tokens' = [tokens EXCEPT ![n] = New(tokens[t].root, "rest")]
        BY <2>1 DEF Persisted
      <3> QED
        BY <1>1, <2>2, <3>1, StartedIs
    <2>4. /\ calls' \in [Calls -> Call \cup {None}]
          /\ calls'[c] # None /\ calls'[c].pc = "revoke"
          /\ calls'[c].token = t /\ calls'[c].reset = calls[c].reset
          /\ calls'[c].stored = n
          /\ \A d \in Calls \ {c} : calls'[d] = calls[d]
      BY <1>1, <1>2, <2>1, <2>2, PersistedIs
    <2>5. TypeOK'
      BY <1>1, <1>2, <2>3, <2>4 DEF TypeOK, Lockout, Chains, Recovery
    <2>6. \A m \in Tokens : tokens[m] # None => tokens'[m] # None
      BY <2>3 DEF Grown
    <2>7. CallsFit
      <3>1. Fits(calls[c])
        BY <1>2 DEF TypeInv, Memory
      <3>2. Fits(calls'[c])
        BY <1>2, <2>2, <2>4, <3>1, NoneApart DEF Fits
      <3>3. Issued(calls[c])'
        BY <1>2, <2>2, <2>3, <2>4, <2>6, <3>1 DEF Issued, Fits, Grown
      <3> QED
        BY <2>4, <3>2, <3>3 DEF CallsFit
    <2> QED
      BY <1>2, <1>3, <2>5, <2>6, <2>7, TypeKept DEF RowsStay, Recovery
  <1>4. CASE account # "open"
    <2>1. End(c) /\ UNCHANGED tokens
      BY <1>4 DEF PersistRefreshToken, MayStore
    <2>2. calls' \in [Calls -> Call \cup {None}] /\ CallsFit
      BY <1>1, <2>1, EndIs, EndFits
    <2>3. TypeOK'
      BY <1>1, <1>2, <2>1, <2>2 DEF TypeOK, Lockout, Chains, Recovery
    <2> QED
      BY <1>2, <2>1, <2>2, <2>3, TypeKept DEF RowsStay, Recovery
  <1> QED
    BY <1>3, <1>4

\* Revoking what was exchanged keeps the type.
LEMMA RevokeRotatedKeepsType ==
  ASSUME TypeInv, NEW c \in Calls, RevokeRotated(c)
  PROVE  TypeInv'
  <1> DEFINE t == calls[c].token
  <1>1. TypeOK
    BY DEF TypeInv
  <1>2. /\ calls[c] # None /\ calls[c].pc = "revoke" /\ End(c)
        /\ WillReturn(calls[c].stored)
        /\ UNCHANGED <<account, Lockout, ended, lapsed, outlived, Recovery, begun>>
    BY DEF RevokeRotated, At
  <1>3. calls' \in [Calls -> Call \cup {None}] /\ CallsFit
    BY <1>1, <1>2, EndIs, EndFits
  <1>4. t \in Tokens /\ calls[c].stored \in Tokens
    BY <1>1, <1>2, CallIs DEF TypeInv, Memory, Fits
  <1>5. tokens[t] # None => tokens[t].root \in Tokens
    BY <1>1, <1>4 DEF TypeOK, Token
  <1>6. /\ tokens' \in [Tokens -> Token \cup {None}]
        /\ \A m \in Tokens : tokens'[m] = None <=> tokens[m] = None
    <2>1. CASE UNCHANGED tokens
      BY <1>1, <2>1 DEF TypeOK
    <2>2. CASE tokens[t] # None /\ tokens' = [tokens EXCEPT ![t].revoked = TRUE]
      BY <1>1, <1>4, <2>2, RevokedIs DEF SameRoots
    <2> QED
      BY <2>1, <2>2 DEF RevokeRotated
  <1>7. forked' \subseteq Tokens /\ faults' \in Nat
    <2>1. faults' \in Nat
      BY <1>1 DEF RevokeRotated, TypeOK
    <2>2. forked' \subseteq Tokens
      BY <1>1, <1>5 DEF RevokeRotated, TypeOK
    <2> QED
      BY <2>1, <2>2
  <1>8. TypeOK'
    BY <1>1, <1>2, <1>3, <1>4, <1>6, <1>7 DEF TypeOK, Lockout, Recovery
  <1> QED
    BY <1>2, <1>3, <1>6, <1>8, TypeKept DEF RowsStay, Recovery

\* Storing a reset token keeps the type.
LEMMA StoreResetKeepsType ==
  ASSUME TypeInv, NEW c \in Calls, StoreReset(c)
  PROVE  TypeInv'
  <1>1. TypeOK
    BY DEF TypeInv
  <1>2. End(c) /\ UNCHANGED <<account, Lockout, tokens, Hands, Chains, uses, faults, begun>>
    BY DEF StoreReset
  <1>3. calls' \in [Calls -> Call \cup {None}] /\ CallsFit
    BY <1>1, <1>2, EndIs, EndFits
  <1>4. CASE account = "open"
    <2> DEFINE w == [used |-> FALSE, expired |-> FALSE]
    <2>1. PICK x \in Resets : resets[x] = None /\ resets' = [resets EXCEPT ![x] = w]
      BY <1>4 DEF StoreReset, MayStore
    <2>2. w \in Reset
      BY DEF Reset
    <2>3. w # None
      BY <2>2, NoneApart
    <2> HIDE DEF w
    <2>4. /\ resets' \in [Resets -> Reset \cup {None}]
          /\ \A y \in Resets : resets[y] # None => resets'[y] # None
      BY <1>1, <2>1, <2>2, <2>3 DEF TypeOK
    <2>5. doubled' \subseteq Resets
      BY <1>1, <1>4 DEF StoreReset, MayStore, TypeOK
    <2>6. TypeOK'
      BY <1>1, <1>2, <1>3, <2>4, <2>5 DEF TypeOK, Lockout, Chains
    <2> QED
      BY <1>2, <1>3, <1>4, <2>4, <2>6, TypeKept DEF RowsStay
  <1>5. CASE account # "open"
    <2>1. UNCHANGED <<resets, doubled>>
      BY <1>5 DEF StoreReset, MayStore
    <2>2. TypeOK'
      BY <1>1, <1>2, <1>3, <2>1 DEF TypeOK, Lockout, Chains
    <2> QED
      BY <1>2, <1>3, <2>1, <2>2, TypeKept DEF RowsStay
  <1> QED
    BY <1>4, <1>5

\* Sessions that have begun are named by tokens.
LEMMA RootsAre == ASSUME TypeOK PROVE Roots \subseteq Tokens
  BY DEF TypeOK, Token, Roots, Fresh

\* Resetting the password keeps the type.
LEMMA CommitResetKeepsType ==
  ASSUME TypeInv, NEW c \in Calls, CommitReset(c)
  PROVE  TypeInv'
  <1> DEFINE x == calls[c].reset
  <1>1. TypeOK
    BY DEF TypeInv
  <1>2. /\ calls[c] # None /\ calls[c].pc = "reset" /\ End(c)
        /\ UNCHANGED <<account, lapsed, forked, doubled, faults, begun>>
    BY DEF CommitReset, At
  <1>3. calls' \in [Calls -> Call \cup {None}] /\ CallsFit
    BY <1>1, <1>2, EndIs, EndFits
  <1>4. CASE account = "open"
    <2>1. ClearAttempts /\ Spent(x) /\ EndSessions(Roots)
      BY <1>4 DEF CommitReset, MayStore
    <2>2. PICK t \in Fresh :
             /\ tokens' = [AllRevoked EXCEPT ![t] = New(t, "graphql")]
             /\ WillReturn(t)
      BY <1>4 DEF CommitReset, MayStore
    <2>3. uses' = [uses EXCEPT ![x] = IF @ < 2 THEN @ + 1 ELSE @]
      BY <1>4 DEF CommitReset, MayStore
    <2>4. t \in Tokens /\ tokens[t] = None /\ x \in Resets /\ resets[x] # None
      BY <1>1, <1>2, <1>4, CallIs DEF Fresh, TypeInv, Memory, Fits, Issued
    <2>5. tokens' \in [Tokens -> Token \cup {None}] /\ Grown(t, t)
      BY <1>1, <2>2, <2>4, RestartedIs
    <2>6. /\ resets' \in [Resets -> Reset \cup {None}]
          /\ \A y \in Resets : resets'[y] = None <=> resets[y] = None
      BY <1>1, <2>1, <2>4, SpentIs
    <2>7. uses' \in [Resets -> 0 .. 2]
      <3>1. uses[x] \in 0 .. 2
        BY <1>1, <2>4 DEF TypeOK
      <3>2. (IF uses[x] < 2 THEN uses[x] + 1 ELSE uses[x]) \in 0 .. 2
        BY <3>1
      <3> QED
        BY <1>1, <2>3, <2>4, <3>2 DEF TypeOK
    <2>8. ended' \subseteq Tokens /\ outlived' \subseteq Tokens
      BY <1>1, <2>1, RootsAre DEF EndSessions, TypeOK
    <2>9. TypeOK'
      BY <1>1, <1>2, <1>3, <2>1, <2>2, <2>4, <2>5, <2>6, <2>7, <2>8, ClearedIs
         DEF TypeOK
    <2> QED
      BY <1>2, <1>3, <1>4, <2>5, <2>6, <2>9, TypeKept DEF RowsStay, Grown
  <1>5. CASE account # "open"
    <2>1. UNCHANGED <<Lockout, resets, ended, outlived, tokens, Hands, uses>>
      BY <1>5 DEF CommitReset, MayStore
    <2>2. TypeOK'
      BY <1>1, <1>2, <1>3, <2>1 DEF TypeOK, Lockout
    <2> QED
      BY <1>2, <1>3, <2>1, <2>2, TypeKept DEF RowsStay
  <1> QED
    BY <1>4, <1>5

\* Signing up keeps the type.
LEMMA SignUpKeepsType ==
  ASSUME TypeInv, NEW t \in Tokens, SignUp(t)
  PROVE  TypeInv'
  <1>1. TypeOK
    BY DEF TypeInv
  <1>2. /\ account = "new" /\ account' = "open"
        /\ tokens' = [tokens EXCEPT ![t] = New(t, "graphql")]
        /\ WillReturn(t)
        /\ UNCHANGED <<Lockout, calls, Chains, Recovery, faults, begun>>
    BY DEF SignUp
  <1>3. tokens[t] = None
    BY <1>2 DEF TypeInv, NothingDangles, Fresh
  <1>4. tokens' \in [Tokens -> Token \cup {None}] /\ Grown(t, t)
    BY <1>1, <1>2, <1>3, StartedIs
  <1>5. TypeOK'
    BY <1>1, <1>2, <1>4 DEF TypeOK, Lockout, Chains, Recovery
  <1>6. \A m \in Tokens : tokens[m] # None => tokens'[m] # None
    BY <1>4 DEF Grown
  <1>7. Memory'
    BY <1>2, <1>5, <1>6, MemoryKept DEF CallsFit, Recovery
  <1>8. NothingDangles'
    BY <1>2 DEF NothingDangles
  <1> QED
    BY <1>5, <1>7, <1>8 DEF TypeInv

\* Ending sessions keeps the type.
LEMMA EndingsKeepType ==
  ASSUME TypeInv,
         \/ \E t \in Tokens : RevokeRefreshToken(t) \/ Expire(t)
         \/ Logout \/ UpdateUserPassword
  PROVE  TypeInv'
  <1>1. TypeOK
    BY DEF TypeInv
  <1> DEFINE RowsSame == /\ tokens' \in [Tokens -> Token \cup {None}]
                         /\ \A m \in Tokens : tokens'[m] = None <=> tokens[m] = None
             HistoryTyped == /\ ended' \subseteq Tokens /\ outlived' \subseteq Tokens
                             /\ lapsed' \subseteq Tokens
  <1>2. RowsSame
    <2>1. ASSUME NEW t \in Tokens, RevokeRefreshToken(t) PROVE RowsSame
      BY <1>1, <2>1, RevokedIs DEF RevokeRefreshToken, SameRoots
    <2>2. ASSUME NEW t \in Tokens, Expire(t) PROVE RowsSame
      BY <1>1, <2>2, ExpiredIs DEF Expire, Live, SameRoots
    <2>3. CASE tokens' = AllRevoked
      BY <1>1, <2>3, LoggedOutIs DEF SameRoots
    <2>4. CASE UNCHANGED tokens
      BY <1>1, <2>4 DEF TypeOK
    <2> QED
      BY <2>1, <2>2, <2>3, <2>4 DEF Logout, UpdateUserPassword
  <1>3. HistoryTyped
    <2>1. \A t \in Tokens : tokens[t] # None => tokens[t].root \in Tokens
      BY <1>1 DEF TypeOK, Token
    <2>2. \A rs : rs \subseteq Tokens /\ EndSessions(rs) =>
                     ended' \subseteq Tokens /\ outlived' \subseteq Tokens
      BY <1>1 DEF TypeOK, EndSessions
    <2>3. ASSUME NEW t \in Tokens, RevokeRefreshToken(t) PROVE HistoryTyped
      <3>1. CASE Live(t)
        <4>1. {tokens[t].root} \subseteq Tokens
          BY <2>1, <3>1 DEF Live
        <4>2. EndSessions({tokens[t].root}) /\ UNCHANGED lapsed
          BY <2>3, <3>1 DEF RevokeRefreshToken
        <4> QED
          BY <1>1, <2>2, <4>1, <4>2 DEF TypeOK
      <3>2. CASE ~Live(t)
        BY <1>1, <2>3, <3>2 DEF RevokeRefreshToken, TypeOK
      <3> QED
        BY <3>1, <3>2
    <2>4. ASSUME NEW t \in Tokens, Expire(t) PROVE HistoryTyped
      BY <1>1, <2>1, <2>4 DEF Expire, Live, TypeOK
    <2>5. CASE Logout \/ UpdateUserPassword
      <3>1. UNCHANGED lapsed
        BY <2>5 DEF Logout, UpdateUserPassword
      <3>2. CASE EndSessions(Roots)
        BY <1>1, <2>2, <3>1, <3>2, RootsAre DEF TypeOK
      <3>3. CASE UNCHANGED <<ended, outlived>>
        BY <1>1, <3>1, <3>3 DEF TypeOK
      <3> QED
        BY <2>5, <3>2, <3>3 DEF Logout, UpdateUserPassword
    <2> QED
      BY <2>3, <2>4, <2>5
  <1>4. UNCHANGED <<account, calls, Hands, forked, Recovery, faults, begun>>
    BY DEF RevokeRefreshToken, Expire, Logout, UpdateUserPassword
  <1>5. /\ attempts' \in 0 .. MaxAttempts /\ wrongs' \in 0 .. MaxAttempts
        /\ lockedUntil' \in {"none", "future", "past"}
        /\ lost' \in BOOLEAN
    <2>1. CASE UNCHANGED Lockout
      BY <1>1, <2>1 DEF TypeOK, Lockout
    <2>2. CASE ClearAttempts
      BY <2>2, ClearedIs
    <2> QED
      BY <2>1, <2>2 DEF RevokeRefreshToken, Expire, Logout, UpdateUserPassword
  <1>6. TypeOK'
    BY <1>1, <1>2, <1>3, <1>4, <1>5 DEF TypeOK, Recovery
  <1> QED
    BY <1>2, <1>4, <1>6, TypeKept DEF RowsStay, CallsFit, Recovery

\* The deletion of the user, the end of the process and time keep the type.
LEMMA RestKeepsType ==
  ASSUME TypeInv,
         \/ \E x \in Resets : ExpireReset(x)
         \/ \E t \in Tokens : Answer(t) \/ AnswerLost(t)
         \/ LockPasses \/ DeleteUser \/ Exit
  PROVE  TypeInv'
  <1>1. TypeOK
    BY DEF TypeInv
  <1>2. ASSUME NEW x \in Resets, ExpireReset(x) PROVE TypeInv'
    <2>1. UNCHANGED <<account, Lockout, tokens, calls, Hands, Chains, uses, doubled,
                      faults, begun>>
      BY <1>2 DEF ExpireReset
    <2>2. /\ resets' \in [Resets -> Reset \cup {None}]
          /\ \A y \in Resets : resets'[y] = None <=> resets[y] = None
      BY <1>1, <1>2, ExpiredResetIs
    <2>3. TypeOK'
      BY <1>1, <2>1, <2>2 DEF TypeOK, Lockout, Chains
    <2> QED
      BY <2>1, <2>2, <2>3, TypeKept DEF RowsStay, CallsFit
  <1>3. CASE LockPasses
    <2>1. TypeOK'
      BY <1>1, <1>3 DEF LockPasses, TypeOK, Chains
    <2> QED
      BY <1>3, <2>1, TypeKept DEF LockPasses, RowsStay, CallsFit
  <1>4. CASE DeleteUser
    <2>1. /\ account' = "deleted"
          /\ tokens' = [t \in Tokens |-> None] /\ resets' = [x \in Resets |-> None]
          /\ UNCHANGED <<Lockout, calls, Hands, Chains, uses, doubled, faults, begun>>
      BY <1>4 DEF DeleteUser
    <2>2. TypeOK'
      BY <1>1, <2>1 DEF TypeOK, Lockout, Chains
    <2>3. Memory'
      BY <2>1 DEF TypeInv, Memory
    <2>4. NothingDangles'
      BY <2>1 DEF NothingDangles, Fresh
    <2> QED
      BY <2>2, <2>3, <2>4 DEF TypeInv
  <1>5. CASE Exit
    <2>1. /\ calls' = [c \in Calls |-> None] /\ faults' = faults + 1
          /\ held' = held /\ answers' = {} /\ unanswered' = unanswered \cup answers
          /\ UNCHANGED <<Rows, wrongs, lost, ended, lapsed, outlived, uses,
                         doubled, begun>>
      BY <1>5 DEF Exit
    <2>2. forked' \subseteq Tokens
      <3>1. ASSUME NEW c \in Calls, At(c, "revoke"), tokens[calls[c].token] # None
            PROVE  tokens[calls[c].token].root \in Tokens
        <4>1. calls[c] # None /\ calls[c].token \in Tokens
          BY <1>1, <3>1, CallIs DEF At, TypeInv, Memory, Fits
        <4>2. tokens[calls[c].token] \in Token
          BY <1>1, <3>1, <4>1 DEF TypeOK
        <4> QED
          BY <4>2 DEF Token
      <3> QED
        BY <1>1, <1>5, <3>1 DEF Exit, TypeOK
    <2>3. TypeOK'
      <3>1. calls' \in [Calls -> Call \cup {None}]
        BY <2>1
      <3>2. faults' \in Nat
        BY <1>1, <2>1 DEF TypeOK
      <3> QED
        BY <1>1, <2>1, <2>2, <3>1, <3>2 DEF TypeOK, Rows
    <2> QED
      BY <2>1, <2>3, TypeKept DEF RowsStay, CallsFit, Rows
  <1>6. ASSUME NEW t \in Tokens, Answer(t) \/ AnswerLost(t) PROVE TypeInv'
    <2>1. UNCHANGED <<Rows, calls>>
      BY <1>6 DEF Answer, AnswerLost
    <2>2. TypeOK'
      BY <1>1, <1>6 DEF Answer, AnswerLost, TypeOK, Rows, Chains
    <2> QED
      BY <2>1, <2>2, TypeKept DEF RowsStay, CallsFit, Rows
  <1> QED
    BY <1>2, <1>3, <1>4, <1>5, <1>6

\* Nobody has signed up at first.
LEMMA InitType == Init => TypeInv
  <1> SUFFICES ASSUME Init PROVE TypeInv
    OBVIOUS
  <1>1. TypeOK
    <2>1. attempts \in 0 .. MaxAttempts /\ wrongs \in 0 .. MaxAttempts
      BY AttemptsAssumption DEF Init
    <2>2. lost \in BOOLEAN
      BY DEF Init
    <2> QED
      BY <2>1, <2>2 DEF Init, TypeOK
  <1>2. Memory /\ NothingDangles
    BY DEF Init, Memory, NothingDangles, Fresh
  <1> QED
    BY <1>1, <1>2 DEF TypeInv

\* Every step keeps the type.
LEMMA NextType == TypeInv /\ [Next]_vars => TypeInv'
  <1> SUFFICES ASSUME TypeInv, [Next]_vars PROVE TypeInv'
    OBVIOUS
  <1>1. ASSUME NEW c \in Calls, Step(c) PROVE TypeInv'
    BY <1>1, RecordsKeepType, StoreTokenKeepsType, RefreshTokenKeepsType,
       PersistKeepsType, RevokeRotatedKeepsType, StoreResetKeepsType,
       CommitResetKeepsType DEF Step
  <1>2. CASE UNCHANGED vars
    BY <1>2 DEF vars, Rows, Chains, TypeInv, TypeOK, Memory, Issued,
       NothingDangles, Fresh
  <1> QED
    BY <1>1, <1>2, RequestsKeepType, SignUpKeepsType, EndingsKeepType,
       RestKeepsType DEF Next

\* The type invariant is inductive.
LEMMA TypeAlways == Spec => []TypeInv
  BY InitType, NextType, PTL DEF Spec

\* The tables, what requests have in memory and the history are well typed.
THEOREM TypeCorrect == Spec => []TypeOK
  <1>1. TypeInv => TypeOK
    BY DEF TypeInv
  <1> QED
    BY <1>1, TypeAlways, PTL

\* A deleted user has no refresh tokens and no reset tokens, whatever requests
\* were in flight when the user was deleted.
THEOREM DeletedLeaveNothing == Spec => []NothingDangles
  <1>1. TypeInv => NothingDangles
    BY DEF TypeInv
  <1> QED
    BY <1>1, TypeAlways, PTL

------------------------------------------------------------------------------
(* The lock of the account                                                 *)

\* As long as no wrong password was lost, the count is right, after every step.
LEMMA NextLock == TypeInv /\ LockInv /\ [Next]_vars => LockInv'
  <1> SUFFICES ASSUME TypeInv, LockInv, [Next]_vars PROVE LockInv'
    OBVIOUS
  <1>1. TypeOK
    BY DEF TypeInv
  <1>2. ASSUME UNCHANGED Lockout PROVE LockInv'
    BY <1>2 DEF Lockout, LockInv
  <1>3. ASSUME ClearAttempts PROVE LockInv'
    <2>1. attempts' = 0 /\ wrongs' = 0
      BY <1>3 DEF ClearAttempts
    <2> QED
      BY <2>1, ThresholdAssumption DEF LockInv
  <1>4. ASSUME NEW c \in Calls, RecordWrong(c) PROVE LockInv'
    <2>1. CASE account = "open"
      <3>1. calls[c] # None /\ calls[c].pc = "wrong"
        BY <1>4 DEF RecordWrong, At
      <3>2. calls[c].attempts \in 0 .. MaxAttempts /\ calls[c].attempts < MaxAttempts
        BY <1>1, <3>1, CallIs DEF TypeInv, Memory, Fits
      <3>3. /\ attempts' = calls[c].attempts + 1
            /\ lockedUntil' = IF Reaches(attempts') THEN "future" ELSE lockedUntil
            /\ wrongs' = IF wrongs < MaxAttempts THEN wrongs + 1 ELSE wrongs
            /\ lost' = IF attempts # calls[c].attempts THEN TRUE ELSE lost
        BY <1>4, <2>1 DEF RecordWrong
      <3>4. attempts' >= Threshold => lockedUntil' # "none"
        BY <3>3 DEF Reaches
      <3>5. ~lost' => ~lost /\ attempts = calls[c].attempts
        BY <3>3
      <3>6. ASSUME ~lost' PROVE wrongs' = attempts'
        <4>1. wrongs = calls[c].attempts
          BY <3>5, <3>6 DEF LockInv
        <4> QED
          BY <3>2, <3>3, <4>1
      <3> QED
        BY <3>4, <3>6 DEF LockInv
    <2>2. CASE account # "open"
      BY <1>2, <1>4, <2>2 DEF RecordWrong
    <2> QED
      BY <2>1, <2>2
  <1>5. CASE LockPasses
    BY <1>5 DEF LockPasses, LockInv
  <1>6. ASSUME NEW c \in Calls, Step(c) PROVE LockInv'
    BY <1>2, <1>3, <1>4, <1>6 DEF Step, RecordRight, StoreToken, RefreshToken,
       PersistRefreshToken, RevokeRotated, StoreReset, CommitReset
  <1>7. ASSUME NEW c \in Calls, Request(c) PROVE UNCHANGED Lockout
    BY <1>7 DEF Request, RestSignUp, SignIn, RestSignIn, SignInWithOAuth,
       Exchange, RequestPasswordReset, ResetPassword, Rows, Lockout, vars
  <1>8. CASE \E t \in Tokens : SignUp(t) \/ RevokeRefreshToken(t) \/ Expire(t)
    BY <1>2, <1>8 DEF SignUp, RevokeRefreshToken, Expire
  <1>9. CASE (\E x \in Resets : ExpireReset(x)) \/ Logout \/ UpdateUserPassword
    BY <1>2, <1>3, <1>9 DEF ExpireReset, Logout, UpdateUserPassword
  <1>10. CASE DeleteUser \/ Exit \/ UNCHANGED vars
    BY <1>2, <1>10 DEF DeleteUser, Exit, Rows, Lockout, vars
  <1>11. CASE \E t \in Tokens : Answer(t) \/ AnswerLost(t)
    BY <1>2, <1>11 DEF Answer, AnswerLost, Rows, Lockout
  <1> QED
    BY <1>2, <1>5, <1>6, <1>7, <1>8, <1>9, <1>10, <1>11 DEF Next

\* The account has been locked once the count has reached the threshold, and the
\* count is right as long as no wrong password was recorded over another one.
THEOREM AccountLocks == Spec => []LockoutHolds
  <1>1. Init => LockInv
    BY ThresholdAssumption DEF Init, LockInv
  <1>2. LockInv => LockoutHolds
    BY DEF LockInv, LockoutHolds
  <1> QED
    BY <1>1, <1>2, NextLock, TypeAlways, PTL DEF Spec

------------------------------------------------------------------------------
(* The tokens that reset the password                                      *)

\* Requests that have a reset token, or are about to store one, were in flight.
ResetCallsStay ==
    /\ \A d \in Calls : calls'[d] # None /\ calls'[d].reset # None =>
          calls[d] # None /\ calls[d].reset = calls'[d].reset
    /\ \A d \in Calls : At(d, "request")' => At(d, "request")

\* Usable tokens were usable, and rows stay as long as the user does.
ResetsStay ==
    /\ \A x \in Resets : Usable(x)' => Usable(x)
    /\ account' # "deleted" =>
          /\ account # "deleted"
          /\ \A x \in Resets : resets'[x] = None => resets[x] = None

\* What is known of reset tokens stays so.
LEMMA ResetKept ==
  ASSUME TypeOK, TypeOK', ResetInv, ResetsStay, ResetCallsStay,
         UNCHANGED uses, doubled \subseteq doubled'
  PROVE  ResetInv'
  <1>1. OneUsable'
    <2>1. CASE doubled = Resets
      BY <2>1 DEF OneUsable, TypeOK
    <2>2. CASE doubled # Resets
      <3>1. /\ \A x, y \in Resets : Usable(x) /\ Usable(y) => x = y
            /\ (\E c \in Calls : At(c, "request")) => \A x \in Resets : ~Usable(x)
        BY <2>2 DEF ResetInv, OneUsable
      <3>2. \A x, y \in Resets : Usable(x)' /\ Usable(y)' => x = y
        BY <3>1 DEF ResetsStay
      <3>3. (\E c \in Calls : At(c, "request")') => \A x \in Resets : ~Usable(x)'
        BY <3>1 DEF ResetsStay, ResetCallsStay
      <3> QED
        BY <3>2, <3>3 DEF OneUsable
    <2> QED
      BY <2>1, <2>2
  <1>2. ASSUME NEW x \in Resets \ doubled' PROVE UsedOnce(x)'
    <2>1. UsedOnce(x) /\ x # None
      BY NoneApart DEF ResetInv
    <2>2. \A d \in Calls : calls'[d] # None /\ calls'[d].reset = x =>
                             calls[d] # None /\ calls[d].reset = x
      BY <2>1 DEF ResetCallsStay
    <2> QED
      BY <2>1, <2>2 DEF UsedOnce, ResetsStay
  <1>3. (account # "deleted" => \A x \in Resets : resets[x] = None => uses[x] = 0)'
    BY DEF ResetInv, ResetsStay
  <1> QED
    BY <1>1, <1>2, <1>3 DEF ResetInv

\* Requests that begin without a reset token do not matter to reset tokens.
LEMMA BegunAside ==
  ASSUME TypeOK, NEW c \in Calls, NEW t \in Tokens \cup {None},
         NEW pc \in {"wrong", "right", "oauth", "store", "persist", "rotate",
                     "exchange"},
         Begin(c, pc, t, None)
  PROVE  ResetCallsStay
  <1>1. /\ calls'[c].pc = pc /\ calls'[c].reset = None
        /\ \A d \in Calls \ {c} : calls'[d] = calls[d]
    BY BeginIs
  <1> QED
    BY <1>1 DEF ResetCallsStay, At

\* Nor do requests that end.
LEMMA EndedAside ==
  ASSUME TypeOK, NEW c \in Calls, End(c)
  PROVE  ResetCallsStay
  BY EndIs DEF ResetCallsStay, At

\* Requests that are about to store or have stored a token do not matter.
LEMMA StepAside ==
  ASSUME TypeOK, NEW c \in Calls,
         \/ RecordWrong(c) \/ RecordRight(c) \/ StoreToken(c) \/ RefreshToken(c)
         \/ PersistRefreshToken(c) \/ RevokeRotated(c)
  PROVE  ResetCallsStay
  <1>1. CASE End(c)
    BY <1>1, EndedAside
  <1>2. CASE RecordRight(c)
    <2>1. calls[c] # None /\ Goto(c, "store")
      BY <1>2 DEF RecordRight, At
    <2>2. /\ calls'[c].pc = "store" /\ calls'[c].reset = calls[c].reset
          /\ \A d \in Calls \ {c} : calls'[d] = calls[d]
      BY <2>1, GotoIs
    <2> QED
      BY <2>1, <2>2 DEF ResetCallsStay, At
  <1>3. ASSUME PersistRefreshToken(c), ~End(c) PROVE ResetCallsStay
    <2>1. PICK n \in Tokens :
             calls' = [calls EXCEPT ![c].pc = "revoke", ![c].stored = n]
      BY <1>3 DEF PersistRefreshToken, Fresh
    <2>2. calls[c] # None
      BY <1>3 DEF PersistRefreshToken, At
    <2>3. /\ calls'[c].pc = "revoke" /\ calls'[c].reset = calls[c].reset
          /\ \A d \in Calls \ {c} : calls'[d] = calls[d]
      BY <2>1, <2>2, PersistedIs
    <2> QED
      BY <2>2, <2>3 DEF ResetCallsStay, At
  <1> QED
    BY <1>1, <1>2, <1>3 DEF RecordWrong, StoreToken, RefreshToken, RevokeRotated

\* A new token is the only usable one, unless two requests overlap.
LEMMA StoreResetKeepsResets ==
  ASSUME TypeInv, TypeOK', ResetInv, NEW c \in Calls, StoreReset(c)
  PROVE  ResetInv'
  <1>1. TypeOK
    BY DEF TypeInv
  <1>2. End(c) /\ UNCHANGED <<account, uses>>
    BY DEF StoreReset
  <1>3. ResetCallsStay
    BY <1>1, <1>2, EndedAside
  <1>4. CASE account # "open"
    <2>1. UNCHANGED <<resets, doubled>>
      BY <1>4 DEF StoreReset, MayStore
    <2>2. ResetsStay
      BY <1>2, <2>1 DEF ResetsStay, Usable
    <2> QED
      BY <1>1, <1>2, <1>3, <2>1, <2>2, ResetKept
  <1>5. CASE account = "open"
    <2> DEFINE w == [used |-> FALSE, expired |-> FALSE]
    <2>1. PICK x \in Resets : resets[x] = None /\ resets' = [resets EXCEPT ![x] = w]
      BY <1>5 DEF StoreReset, MayStore
    <2>2. doubled' = IF Requested = {c} THEN doubled ELSE doubled \cup Resets
      BY <1>5 DEF StoreReset, MayStore
    <2>3. w # None
      <3>1. w \in Reset
        BY DEF Reset
      <3> QED
        BY <3>1, NoneApart
    <2> HIDE DEF w
    <2>4. \A y \in Resets \ {x} : resets'[y] = resets[y]
      BY <1>1, <2>1 DEF TypeOK
    <2>5. resets'[x] # None
      BY <1>1, <2>1, <2>3 DEF TypeOK
    <2>6. \A y \in Resets \ {x} : Usable(y)' => Usable(y)
      BY <2>4 DEF Usable
    <2>7. OneUsable'
      <3>1. CASE Requested = {c}
        <4>1. \A d \in Calls : ~At(d, "request")'
          BY <1>1, <1>2, <3>1, EndIs DEF Requested, At
        <4>2. At(c, "request")
          BY DEF StoreReset
        <4>3. doubled = Resets \/ \A y \in Resets : ~Usable(y)
          BY <4>2 DEF ResetInv, OneUsable
        <4>4. CASE doubled = Resets
          BY <2>2, <3>1, <4>4 DEF OneUsable
        <4>5. CASE \A y \in Resets : ~Usable(y)
          <5>1. \A y \in Resets : Usable(y)' => y = x
            BY <2>6, <4>5
          <5> QED
            BY <4>1, <5>1 DEF OneUsable
        <4> QED
          BY <4>3, <4>4, <4>5
      <3>2. CASE Requested # {c}
        <4>1. doubled' = Resets
          BY <1>1, <2>2, <3>2 DEF TypeOK
        <4> QED
          BY <4>1 DEF OneUsable
      <3> QED
        BY <3>1, <3>2
    <2>8. ASSUME NEW y \in Resets \ doubled' PROVE UsedOnce(y)'
      <3>1. UsedOnce(y) /\ y # None
        BY <2>2, NoneApart DEF ResetInv
      <3>2. \A d \in Calls : calls'[d] # None /\ calls'[d].reset = y =>
                               calls[d] # None /\ calls[d].reset = y
        BY <1>3, <3>1 DEF ResetCallsStay
      <3>3. uses[y] = 1 => ~Usable(y)'
        <4>1. CASE y = x
          BY <1>5, <2>1, <4>1 DEF ResetInv
        <4>2. CASE y # x
          BY <2>6, <3>1, <4>2 DEF UsedOnce
        <4> QED
          BY <4>1, <4>2
      <3> QED
        BY <1>2, <3>1, <3>2, <3>3 DEF UsedOnce
    <2>9. (account # "deleted" => \A y \in Resets : resets[y] = None => uses[y] = 0)'
      BY <1>2, <1>5, <2>4, <2>5 DEF ResetInv
    <2> QED
      BY <2>7, <2>8, <2>9 DEF ResetInv
  <1> QED
    BY <1>4, <1>5

\* The request that looks a token up is the only one, unless two overlap.
LEMMA ResetPasswordKeepsResets ==
  ASSUME TypeInv, TypeOK', ResetInv, NEW c \in Calls, NEW x \in Resets,
         ResetPassword(c, x)
  PROVE  ResetInv'
  <1>1. TypeOK
    BY DEF TypeInv
  <1>2. /\ Usable(x) /\ Begin(c, "reset", None, x)
        /\ UNCHANGED <<account, resets, uses>>
    BY DEF ResetPassword, Rows
  <1>3. /\ calls[c] = None /\ calls'[c].pc = "reset" /\ calls'[c].reset = x
        /\ \A d \in Calls \ {c} : calls'[d] = calls[d]
    BY <1>1, <1>2, BeginIs
  <1>4. \/ x \in doubled'
        \/ doubled' = doubled /\ \A d \in Calls : calls[d] = None \/ calls[d].reset # x
    BY DEF ResetPassword
  <1>5. doubled \subseteq doubled'
    BY DEF ResetPassword
  <1>6. OneUsable'
    <2>1. CASE doubled = Resets
      <3>1. doubled' = Resets
        BY <1>5, <2>1 DEF TypeOK
      <3> QED
        BY <3>1 DEF OneUsable
    <2>2. CASE doubled # Resets
      <3>1. \A d \in Calls : At(d, "request")' => At(d, "request")
        BY <1>3 DEF At
      <3> QED
        BY <1>2, <2>2, <3>1 DEF ResetInv, OneUsable, Usable
    <2> QED
      BY <2>1, <2>2
  <1>7. ASSUME NEW y \in Resets \ doubled' PROVE UsedOnce(y)'
    <2>1. UsedOnce(y)
      BY <1>5 DEF ResetInv
    <2>2. CASE y # x
      BY <1>2, <1>3, <2>1, <2>2 DEF UsedOnce, Usable
    <2>3. CASE y = x
      <3>1. \A d \in Calls : calls'[d] # None /\ calls'[d].reset = x => d = c
        BY <1>3, <1>4, <2>3
      <3>2. uses[x] = 0
        <4>1. uses[x] \in 0 .. 2 /\ uses[x] <= 1 /\ uses[x] # 1
          BY <1>1, <1>2, <2>1, <2>3 DEF TypeOK, UsedOnce
        <4> QED
          BY <4>1
      <3> QED
        BY <1>2, <2>3, <3>1, <3>2 DEF UsedOnce
    <2> QED
      BY <2>2, <2>3
  <1> QED
    BY <1>2, <1>6, <1>7 DEF ResetInv

\* The only request that has a token uses it, once.
LEMMA CommitResetKeepsResets ==
  ASSUME TypeInv, TypeOK', ResetInv, NEW c \in Calls, CommitReset(c)
  PROVE  ResetInv'
  <1> DEFINE x == calls[c].reset
  <1>1. TypeOK
    BY DEF TypeInv
  <1>2. calls[c] # None /\ calls[c].pc = "reset" /\ End(c) /\ UNCHANGED <<account, doubled>>
    BY DEF CommitReset, At
  <1>3. ResetCallsStay
    BY <1>1, <1>2, EndedAside
  <1>4. CASE account # "open"
    <2>1. UNCHANGED <<resets, uses>>
      BY <1>4 DEF CommitReset, MayStore
    <2>2. ResetsStay
      BY <1>2, <2>1 DEF ResetsStay, Usable
    <2> QED
      BY <1>1, <1>2, <1>3, <2>1, <2>2, ResetKept
  <1>5. CASE account = "open"
    <2>1. x \in Resets /\ resets[x] # None
      BY <1>1, <1>2, <1>5, CallIs DEF TypeInv, Memory, Fits, Issued
    <2>2. Spent(x) /\ uses' = [uses EXCEPT ![x] = IF @ < 2 THEN @ + 1 ELSE @]
      BY <1>5 DEF CommitReset, MayStore
    <2>3. /\ \A y \in Resets : resets'[y] = None <=> resets[y] = None
          /\ \A y \in Resets : Usable(y)' <=> Usable(y) /\ y # x
      BY <1>1, <2>1, <2>2, SpentIs
    <2>4. /\ uses'[x] = IF uses[x] < 2 THEN uses[x] + 1 ELSE uses[x]
          /\ \A y \in Resets \ {x} : uses'[y] = uses[y]
      BY <1>1, <2>1, <2>2 DEF TypeOK
    <2>5. OneUsable'
      BY <1>2, <1>3, <2>3 DEF ResetInv, OneUsable, ResetCallsStay
    <2>6. ASSUME NEW y \in Resets \ doubled' PROVE UsedOnce(y)'
      <3>1. UsedOnce(y) /\ y # None
        BY <1>2, NoneApart DEF ResetInv
      <3>2. \A d \in Calls : calls'[d] # None /\ calls'[d].reset = y =>
                               calls[d] # None /\ calls[d].reset = y
        BY <1>3, <3>1 DEF ResetCallsStay
      <3>3. CASE y # x
        BY <2>3, <2>4, <3>1, <3>2, <3>3 DEF UsedOnce
      <3>4. CASE y = x
        <4>1. uses[x] = 0 /\ \A d \in Calls : calls[d] # None /\ calls[d].reset = x => d = c
          BY <1>2, <3>1, <3>4 DEF UsedOnce
        <4>2. uses'[x] = 1
          BY <2>4, <4>1
        <4>3. \A d \in Calls : calls'[d] # None => calls'[d].reset # x
          BY <1>1, <1>2, <3>2, <3>4, <4>1, EndIs
        <4> QED
          BY <2>3, <3>4, <4>2, <4>3 DEF UsedOnce
      <3> QED
        BY <3>3, <3>4
    <2>7. (account # "deleted" => \A y \in Resets : resets[y] = None => uses[y] = 0)'
      BY <1>2, <1>5, <2>1, <2>3, <2>4 DEF ResetInv
    <2> QED
      BY <2>5, <2>6, <2>7 DEF ResetInv
  <1> QED
    BY <1>4, <1>5

\* Asking for a token spends the others.
LEMMA RequestResetKeepsResets ==
  ASSUME TypeInv, TypeOK', ResetInv, NEW c \in Calls, RequestPasswordReset(c)
  PROVE  ResetInv'
  <1>1. TypeOK
    BY DEF TypeInv
  <1>2. CASE account = "open"
    <2>1. /\ Begin(c, "request", None, None) /\ resets' = OthersUsed
          /\ UNCHANGED <<account, uses, doubled>>
      BY <1>2 DEF RequestPasswordReset
    <2>2. /\ calls[c] = None /\ calls'[c].reset = None
          /\ \A d \in Calls \ {c} : calls'[d] = calls[d]
      BY <1>1, <2>1, BeginIs
    <2>3. /\ \A y \in Resets : resets'[y] = None <=> resets[y] = None
          /\ \A y \in Resets : ~Usable(y)'
      BY <1>1, <2>1, OthersUsedIs
    <2>4. OneUsable'
      BY <2>3 DEF OneUsable
    <2>5. ASSUME NEW y \in Resets \ doubled' PROVE UsedOnce(y)'
      <3>1. UsedOnce(y) /\ y # None
        BY <2>1, NoneApart DEF ResetInv
      <3> QED
        BY <2>1, <2>2, <2>3, <3>1 DEF UsedOnce
    <2>6. (account # "deleted" => \A y \in Resets : resets[y] = None => uses[y] = 0)'
      BY <2>1, <2>3 DEF ResetInv
    <2> QED
      BY <2>4, <2>5, <2>6 DEF ResetInv
  <1>3. CASE account # "open"
    <2>1. UNCHANGED <<account, resets, calls, uses, doubled>>
      BY <1>3 DEF RequestPasswordReset, vars, Rows
    <2>2. ResetsStay /\ ResetCallsStay
      BY <2>1 DEF ResetsStay, ResetCallsStay, Usable, At
    <2> QED
      BY <1>1, <2>1, <2>2, ResetKept
  <1> QED
    BY <1>2, <1>3

\* Requests that sign in or up do not matter to reset tokens.
LEMMA RequestsKeepResets ==
  ASSUME TypeInv, TypeOK', ResetInv, NEW c \in Calls, Request(c)
  PROVE  ResetInv'
  <1>1. TypeOK
    BY DEF TypeInv
  <1>2. ASSUME UNCHANGED <<resets, uses, doubled>>,
               account' # "deleted" => account # "deleted",
               NEW t \in Tokens \cup {None},
               NEW pc \in {"wrong", "right", "oauth", "store", "persist",
                           "rotate", "exchange"},
               Begin(c, pc, t, None)
        PROVE  ResetInv'
    <2>1. ResetsStay
      BY <1>2 DEF ResetsStay, Usable
    <2>2. ResetCallsStay
      BY <1>1, <1>2, BegunAside
    <2> QED
      BY <1>1, <1>2, <2>1, <2>2, ResetKept
  <1>3. CASE RestSignUp(c)
    <2>1. /\ UNCHANGED <<resets, uses, doubled>> /\ Begin(c, "persist", None, None)
          /\ account # "deleted"
      BY <1>3 DEF RestSignUp, Recovery
    <2> QED
      BY <1>2, <2>1
  <1>4. CASE SignIn(c)
    <2>1. UNCHANGED <<resets, uses, doubled>> /\ UNCHANGED account
      BY <1>4 DEF SignIn, Rows
    <2>2. CASE Begin(c, "wrong", None, None)
      BY <1>2, <2>1, <2>2
    <2>3. CASE Begin(c, AfterPassword("right"), None, None)
      BY <1>2, <2>1, <2>3 DEF AfterPassword
    <2> QED
      BY <1>4, <2>2, <2>3 DEF SignIn
  <1>5. CASE RestSignIn(c) \/ SignInWithOAuth(c)
    <2>1. UNCHANGED <<resets, uses, doubled>> /\ UNCHANGED account
      BY <1>5 DEF RestSignIn, SignInWithOAuth, Rows
    <2>2. CASE Begin(c, "persist", None, None)
      BY <1>2, <2>1, <2>2
    <2>3. CASE Begin(c, AfterPassword("oauth"), None, None)
      BY <1>2, <2>1, <2>3 DEF AfterPassword
    <2> QED
      BY <1>5, <2>2, <2>3 DEF RestSignIn, SignInWithOAuth
  <1>6. ASSUME NEW t \in Tokens, NEW pc \in {"exchange", "rotate"}, Exchange(c, t, pc)
        PROVE  ResetInv'
    <2>1. /\ UNCHANGED <<resets, uses, doubled>> /\ UNCHANGED account
          /\ Begin(c, pc, t, None)
      BY <1>6 DEF Exchange, Rows
    <2> QED
      BY <1>2, <1>6, <2>1
  <1> QED
    BY <1>3, <1>4, <1>5, <1>6, RequestResetKeepsResets, ResetPasswordKeepsResets
       DEF Request

\* Every step keeps what is known of reset tokens.
LEMMA NextReset == TypeInv /\ TypeInv' /\ ResetInv /\ [Next]_vars => ResetInv'
  <1> SUFFICES ASSUME TypeInv, TypeInv', ResetInv, [Next]_vars PROVE ResetInv'
    OBVIOUS
  <1>1. TypeOK /\ TypeOK'
    BY DEF TypeInv
  <1>2. ASSUME UNCHANGED <<resets, uses, doubled>>, ResetCallsStay,
               account' # "deleted" => account # "deleted"
        PROVE  ResetInv'
    <2>1. ResetsStay
      BY <1>2 DEF ResetsStay, Usable
    <2> QED
      BY <1>1, <1>2, <2>1, ResetKept
  <1>3. ASSUME UNCHANGED calls PROVE ResetCallsStay
    BY <1>3 DEF ResetCallsStay, At
  <1>4. ASSUME NEW c \in Calls,
               \/ RecordWrong(c) \/ RecordRight(c) \/ StoreToken(c) \/ RefreshToken(c)
               \/ PersistRefreshToken(c) \/ RevokeRotated(c)
        PROVE  ResetInv'
    <2>1. UNCHANGED <<account, Recovery>>
      BY <1>4 DEF RecordWrong, RecordRight, StoreToken, RefreshToken,
         PersistRefreshToken, RevokeRotated
    <2>2. ResetCallsStay
      BY <1>1, <1>4, StepAside
    <2> QED
      BY <1>2, <2>1, <2>2 DEF Recovery
  <1>5. ASSUME NEW c \in Calls, Step(c) PROVE ResetInv'
    BY <1>1, <1>4, <1>5, StoreResetKeepsResets, CommitResetKeepsResets DEF Step
  <1>6. ASSUME NEW t \in Tokens, SignUp(t) \/ RevokeRefreshToken(t) \/ Expire(t)
        PROVE  ResetInv'
    <2>1. UNCHANGED <<calls, Recovery>> /\ (account' # account => account = "new")
      BY <1>6 DEF SignUp, RevokeRefreshToken, Expire
    <2> QED
      BY <1>2, <1>3, <2>1 DEF Recovery
  <1>7. CASE Logout \/ UpdateUserPassword
    <2>1. UNCHANGED <<account, calls, Recovery>>
      BY <1>7 DEF Logout, UpdateUserPassword
    <2> QED
      BY <1>2, <1>3, <2>1 DEF Recovery
  <1>8. CASE LockPasses
    <2>1. UNCHANGED <<account, resets, calls, uses, doubled>>
      BY <1>8 DEF LockPasses
    <2> QED
      BY <1>2, <1>3, <2>1
  <1>9. ASSUME NEW x \in Resets, ExpireReset(x) PROVE ResetInv'
    <2>1. UNCHANGED <<account, calls, uses, doubled>>
      BY <1>9 DEF ExpireReset
    <2>2. ResetsStay
      BY <1>1, <1>9, <2>1, ExpiredResetIs DEF ResetsStay
    <2> QED
      BY <1>1, <1>3, <2>1, <2>2, ResetKept
  <1>10. CASE DeleteUser
    <2>1. /\ account' = "deleted" /\ resets' = [x \in Resets |-> None]
          /\ UNCHANGED <<calls, uses, doubled>>
      BY <1>10 DEF DeleteUser
    <2>2. ResetsStay
      BY <2>1 DEF ResetsStay, Usable
    <2> QED
      BY <1>1, <1>3, <2>1, <2>2, ResetKept
  <1>11. CASE Exit
    <2>1. UNCHANGED <<account, resets, uses, doubled>> /\ calls' = [c \in Calls |-> None]
      BY <1>11 DEF Exit, Rows
    <2>2. ResetCallsStay
      BY <2>1 DEF ResetCallsStay, At
    <2> QED
      BY <1>2, <2>1, <2>2
  <1>12. CASE UNCHANGED vars
    BY <1>2, <1>3, <1>12 DEF vars, Rows
  <1>13. ASSUME NEW t \in Tokens, Answer(t) \/ AnswerLost(t) PROVE ResetInv'
    BY <1>2, <1>3, <1>13 DEF Answer, AnswerLost, Rows
  <1> QED
    BY <1>1, <1>5, <1>6, <1>7, <1>8, <1>9, <1>10, <1>11, <1>12, <1>13,
       RequestsKeepResets DEF Next

\* One token resets the password, once, unless two requests overlapped.
THEOREM OneReset == Spec => []ResetOnce
  <1>1. Init => ResetInv
    BY DEF Init, ResetInv, OneUsable, UsedOnce, Usable, At
  <1>2. TypeInv /\ ResetInv => ResetOnce
    BY DEF ResetInv, OneUsable, UsedOnce, ResetOnce
  <1> QED
    BY <1>1, <1>2, NextReset, TypeAlways, PTL DEF Spec

------------------------------------------------------------------------------
(* The tokens of a session                                                 *)

\* What is known of a session stays so when no token of it comes to life and the
\* same requests exchange them.
LEMMA SessionKept ==
  ASSUME NEW r \in Tokens,
         \A t \in Tokens : LiveIn(t, r)' => LiveIn(t, r),
         \A c \in Calls : In(c, r)' <=> In(c, r),
         \A c \in Calls : In(c, r) => /\ calls'[c].token = calls[c].token
                                      /\ calls'[c].stored = calls[c].stored
  PROVE  /\ Straight(r) => Straight(r)'
         /\ Over(r) => Over(r)'
  <1>1. ASSUME Straight(r) PROVE Straight(r)'
    <2>1. \A c, d \in Calls : In(c, r)' /\ In(d, r)' => c = d
      BY <1>1 DEF Straight
    <2>2. ASSUME NEW c \in Calls, In(c, r)', NEW t \in Tokens, LiveIn(t, r)'
          PROVE  t \in {calls'[c].token, calls'[c].stored}
      <3>1. In(c, r) /\ LiveIn(t, r)
        BY <2>2
      <3>2. t \in {calls[c].token, calls[c].stored}
        BY <1>1, <3>1 DEF Straight
      <3> QED
        BY <3>1, <3>2
    <2>3. ASSUME \A c \in Calls : ~In(c, r)'
          PROVE  \A t, n \in Tokens : LiveIn(t, r)' /\ LiveIn(n, r)' => t = n
      BY <1>1, <2>3 DEF Straight
    <2> QED
      BY <2>1, <2>2, <2>3 DEF Straight
  <1>2. ASSUME Over(r) PROVE Over(r)'
    BY <1>2 DEF Over
  <1> QED
    BY <1>1, <1>2

\* The requests that exchange tokens are the same.
TokenCallsStay ==
    \A d \in Calls :
        /\ calls'[d] # None /\ calls'[d].token # None <=>
               calls[d] # None /\ calls[d].token # None
        /\ calls[d] # None /\ calls[d].token # None =>
               /\ calls'[d].token = calls[d].token
               /\ calls'[d].stored = calls[d].stored

\* Requests that store a token have one.  They are about a user who is there.
LEMMA StoredHaveToken ==
  ASSUME TypeInv, NEW c \in Calls, calls[c] # None, calls[c].stored # None
  PROVE  calls[c].token # None /\ account # "new"
  <1>1. calls[c].pc = "revoke" /\ calls[c].token # None
    BY DEF TypeInv, Memory, Fits
  <1>2. ASSUME account = "new" PROVE FALSE
    <2>1. tokens[calls[c].token] # None /\ calls[c].token \in Tokens
      BY <1>1, <1>2, HasToken
    <2> QED
      BY <1>2, <2>1 DEF TypeInv, NothingDangles, Fresh
  <1> QED
    BY <1>1, <1>2

\* Requests that exchange tokens, and what they have stored, are as they were.
LEMMA InKept ==
  ASSUME TypeInv, SameRoots, TokenCallsStay, NEW c \in Calls, NEW r \in Tokens
  PROVE  /\ In(c, r)' <=> In(c, r)
         /\ In(c, r) => /\ calls'[c].token = calls[c].token
                        /\ calls'[c].stored = calls[c].stored
  <1>1. ASSUME calls[c] # None, calls[c].token # None
        PROVE  /\ calls'[c] # None /\ calls'[c].token = calls[c].token
               /\ calls'[c].stored = calls[c].stored
               /\ calls[c].token \in Tokens
    BY <1>1, CallIs DEF TokenCallsStay, TypeInv
  <1>2. In(c, r)' => In(c, r)
    <2>1. In(c, r)' => calls[c] # None /\ calls[c].token # None
      BY DEF In, TokenCallsStay
    <2> QED
      BY <1>1, <2>1 DEF In, SameRoots
  <1>3. In(c, r) => In(c, r)'
    BY <1>1 DEF In, SameRoots
  <1> QED
    BY <1>1, <1>2, <1>3 DEF In

\* When tokens are at most revoked or expire, and their sessions end, what is
\* known of sessions stays so.
LEMMA ShrinkKeeps ==
  ASSUME TypeInv, TypeInv', ChainInv, SameRoots, TokenCallsStay,
         \A t \in Tokens : Live(t)' => Live(t),
         \A t \in Tokens : Live(t) /\ ~Live(t)' => tokens[t].root \in ended' \cup lapsed',
         Given' = Given, forked' = forked,
         ended \subseteq ended', lapsed \subseteq lapsed', outlived \subseteq outlived',
         account' # "deleted" => account # "deleted",
         \A r \in ended' \ ended : tokens[r] # None,
         \A r \in ended' \ (ended \cup forked \cup outlived') : Over(r)'
  PROVE  ChainInv'
  <1>1. TypeOK /\ TypeOK'
    BY DEF TypeInv
  <1>2. \A r, t \in Tokens : LiveIn(t, r)' => LiveIn(t, r)
    BY DEF LiveIn, Live, SameRoots
  <1>3. \A r \in Tokens : /\ Straight(r) => Straight(r)'
                          /\ Over(r) => Over(r)'
    BY <1>2, InKept, SessionKept
  <1>4. RootsIssued'
    <2>1. ASSUME NEW t \in Tokens, tokens'[t] # None
          PROVE  tokens'[tokens'[t].root] # None
      <3>1. tokens[t] # None /\ tokens'[t].root = tokens[t].root
        BY <2>1 DEF SameRoots
      <3>2. tokens[t].root \in Tokens
        BY <1>1, <3>1 DEF TypeOK, Token
      <3> QED
        BY <3>1, <3>2 DEF ChainInv, RootsIssued, SameRoots
    <2>2. ASSUME account' # "deleted", NEW t \in ended' \cup Given'
          PROVE  tokens'[t] # None
      <3>1. tokens[t] # None /\ t \in Tokens
        BY <1>1, <2>2 DEF ChainInv, RootsIssued, TypeOK, Given
      <3> QED
        BY <3>1 DEF SameRoots
    <2> QED
      BY <2>1, <2>2 DEF RootsIssued
  <1>5. \A r \in Tokens \ forked' : Straight(r)'
    BY <1>3 DEF ChainInv
  <1>6. \A r \in ended' \ (forked' \cup outlived') : Over(r)'
    <2>1. \A r \in ended : r \in Tokens
      BY <1>1 DEF TypeOK
    <2> QED
      BY <1>3, <2>1 DEF ChainInv
  <1>7. Stored'
    <2>1. ASSUME NEW c \in Calls, calls'[c] # None, calls'[c].stored # None
          PROVE  /\ calls[c] # None /\ calls[c].token # None
                 /\ calls'[c].token = calls[c].token
                 /\ calls'[c].stored = calls[c].stored
      <3>1. calls'[c].token # None
        BY <2>1 DEF TypeInv, Memory, Fits
      <3> QED
        BY <2>1, <3>1 DEF TokenCallsStay
    <2>2. ASSUME NEW c \in Calls, calls'[c] # None, calls'[c].stored # None,
                 account' = "open"
          PROVE  StoredFor(calls[c])'
      <3>1. account = "open"
        BY <1>1, <2>1, <2>2, StoredHaveToken DEF TypeOK
      <3>2. StoredFor(calls[c])
        BY <2>1, <2>2, <3>1 DEF ChainInv, Stored
      <3>3. calls[c].stored \in Tokens /\ calls[c].token \in Tokens
        BY <1>1, <2>1, <2>2, CallIs
      <3>4. PICK s \in Tokens, t \in Tokens : s = calls[c].stored /\ t = calls[c].token
        BY <3>3
      <3>5. /\ s \notin Given /\ s # t /\ tokens[s] # None /\ tokens[t] # None
            /\ tokens[s].root = tokens[t].root
            /\ Live(s) \/ tokens[t].root \in ended \cup lapsed
        BY <3>2, <3>4 DEF StoredFor
      <3>6. /\ tokens'[s] # None /\ tokens'[t] # None
            /\ tokens'[s].root = tokens[s].root /\ tokens'[t].root = tokens[t].root
        BY <3>5 DEF SameRoots
      <3>7. calls'[c].stored = s /\ calls'[c].token = t
        BY <2>1, <2>2, <3>4
      <3>8. Live(s)' \/ tokens'[t].root \in ended' \cup lapsed'
        BY <3>5, <3>6
      <3>9. Live(calls[c].stored)' \/ tokens'[t].root \in ended' \cup lapsed'
        BY <3>7, <3>8 DEF Live
      <3> QED
        BY <3>5, <3>6, <3>7, <3>9 DEF StoredFor
    <2>3. ASSUME NEW c \in Calls, calls'[c] # None, calls'[c].token # None
          PROVE  calls'[c].token \in Given'
      BY <2>3 DEF ChainInv, Stored, TokenCallsStay
    <2>4. ASSUME NEW c \in Calls, NEW d \in Calls, calls'[c] # None, calls'[d] # None,
                 calls'[c].stored # None, calls'[c].stored = calls'[d].stored
          PROVE  c = d
      BY <2>1, <2>4 DEF ChainInv, Stored
    <2> QED
      BY <2>2, <2>3, <2>4 DEF Stored
  <1>8. StillSignedIn'
    <2>1. ASSUME NEW r \in Roots', r \notin ended' \cup lapsed'
          PROVE  \E t \in Given' : Live(t)' /\ tokens'[t].root = r
      <3>1. PICK m \in Tokens : tokens'[m] # None /\ tokens'[m].root = r
        BY <2>1 DEF Roots, Fresh
      <3>2. r \in Roots \ (ended \cup lapsed)
        BY <2>1, <3>1 DEF Roots, Fresh, SameRoots
      <3>3. PICK t \in Given : Live(t) /\ tokens[t].root = r
        BY <3>2 DEF ChainInv, StillSignedIn
      <3>4. t \in Tokens
        BY <1>1 DEF TypeOK, Given
      <3>5. Live(t)'
        BY <2>1, <3>3, <3>4
      <3> QED
        BY <3>3, <3>4, <3>5 DEF SameRoots, Live
    <2> QED
      BY <2>1 DEF StillSignedIn
  <1> QED
    BY <1>4, <1>5, <1>6, <1>7, <1>8 DEF ChainInv

\* A request that begins without a token is not one of those that exchange one.
LEMMA BegunWithout ==
  ASSUME TypeOK, NEW c \in Calls, NEW x \in Resets \cup {None},
         NEW pc \in {"wrong", "right", "oauth", "store", "persist", "request", "reset"},
         Begin(c, pc, None, x)
  PROVE  TokenCallsStay
  <1>1. /\ calls[c] = None /\ calls'[c].token = None
        /\ \A d \in Calls \ {c} : calls'[d] = calls[d]
    BY BeginIs
  <1> QED
    BY <1>1 DEF TokenCallsStay

\* Nor is one that ends without a token, or is about to store one.
LEMMA EndedWithout ==
  ASSUME TypeInv, NEW c \in Calls, calls[c] # None,
         calls[c].pc \in {"wrong", "right", "oauth", "store", "persist", "request",
                          "reset"},
         End(c) \/ Goto(c, "store")
  PROVE  TokenCallsStay
  <1>1. calls[c].token = None
    BY DEF TypeInv, Memory, Fits
  <1>2. CASE End(c)
    BY <1>1, <1>2, EndIs DEF TokenCallsStay, TypeInv
  <1>3. CASE Goto(c, "store")
    BY <1>1, <1>3, GotoIs DEF TokenCallsStay, TypeInv
  <1> QED
    BY <1>2, <1>3

\* A step that writes no tokens and ends no session.
LEMMA AsideKeeps ==
  ASSUME TypeInv, TypeInv', ChainInv, TokenCallsStay,
         UNCHANGED <<tokens, Given, Chains>>,
         account' # "deleted" => account # "deleted"
  PROVE  ChainInv'
  <1>1. SameRoots
    BY DEF SameRoots
  <1>2. \A t \in Tokens : Live(t)' <=> Live(t)
    BY DEF Live
  <1>3. UNCHANGED <<Given, ended, lapsed, forked, outlived>>
    BY DEF Chains
  <1> QED
    BY <1>1, <1>2, <1>3, ShrinkKeeps

\* Where there are no tokens there are no sessions.
LEMMA ClosedKeeps ==
  ASSUME TypeInv', account' # "open",
         account' # "deleted" => ended' = {} /\ Given' = {},
         \A c, d \in Calls : calls'[c] # None /\ calls'[d] # None
             /\ calls'[c].stored # None /\ calls'[c].stored = calls'[d].stored => c = d,
         \A c \in Calls : calls'[c] # None /\ calls'[c].token # None =>
             calls'[c].token \in Given'
  PROVE  ChainInv'
  <1>1. \A t \in Tokens : tokens'[t] = None
    BY DEF TypeInv, NothingDangles, Fresh
  <1>2. RootsIssued'
    BY <1>1 DEF RootsIssued
  <1>3. \A r \in Tokens, t \in Tokens : ~LiveIn(t, r)'
    BY <1>1 DEF LiveIn, Live
  <1>4. \A r \in Tokens, c \in Calls : ~In(c, r)'
    <2>1. ASSUME NEW c \in Calls, calls'[c] # None, calls'[c].token # None
          PROVE  calls'[c].token \in Tokens
      BY <2>1 DEF TypeInv, TypeOK, Given
    <2> QED
      BY <1>1, <2>1 DEF In
  <1>5. \A r \in Tokens : Straight(r)' /\ Over(r)'
    BY <1>3, <1>4 DEF Straight, Over
  <1>6. Stored'
    BY DEF Stored
  <1>7. StillSignedIn'
    BY <1>1 DEF StillSignedIn, Roots, Fresh
  <1>8. ended' \subseteq Tokens
    BY DEF TypeInv, TypeOK
  <1> QED
    BY <1>2, <1>5, <1>6, <1>7, <1>8 DEF ChainInv

\* Nothing has ended, and nothing is Given, before the user signs up.
LEMMA NewHasNothing ==
  ASSUME TypeInv, ChainInv, account = "new"
  PROVE  /\ ended = {} /\ Given = {}
         /\ \A t \in Tokens : tokens[t] = None
         /\ \A c \in Calls : calls[c] # None => calls[c].token = None
  <1>1. \A t \in Tokens : tokens[t] = None
    BY DEF TypeInv, NothingDangles, Fresh
  <1>2. ended = {} /\ Given = {}
    BY <1>1 DEF ChainInv, RootsIssued, TypeInv, TypeOK, Given
  <1> QED
    BY <1>1, <1>2 DEF ChainInv, Stored

\* A token that begins a session.  Others may be revoked as their sessions end.
LEMMA StartKeeps ==
  ASSUME TypeInv, TypeInv', ChainInv, NEW n \in Tokens, Grown(n, n), Live(n)',
         TokenCallsStay, account # "deleted", account' = "open",
         \A t \in Tokens \ {n} : Live(t)' => Live(t),
         \A t \in Tokens \ {n} : Live(t) /\ ~Live(t)' => tokens[t].root \in ended',
         Given' = Given \cup {n}, UNCHANGED <<forked, lapsed>>,
         ended \subseteq ended', outlived \subseteq outlived',
         \A r \in ended' \ ended : tokens[r] # None,
         \A r \in ended' \ (ended \cup forked \cup outlived') :
             \A t \in Tokens : ~LiveIn(t, r)',
         \A r \in ended' \ (ended \cup forked \cup outlived') :
             \A c \in Calls : ~In(c, r)
  PROVE  ChainInv'
  <1>1. TypeOK /\ TypeOK'
    BY DEF TypeInv
  <1>0. account \in {"new", "open"}
    BY <1>1 DEF TypeOK
  <1>2. \A t \in Tokens : tokens[t] # None => tokens[t].root # n
    BY <1>1 DEF ChainInv, RootsIssued, Grown
  <1>3. n \notin ended /\ n \notin Given /\ n \notin ended'
    BY <1>1 DEF ChainInv, RootsIssued, Grown
  <1>4. ASSUME NEW c \in Calls, calls[c] # None, calls[c].token # None
        PROVE  /\ calls'[c] # None /\ calls'[c].token = calls[c].token
               /\ calls'[c].stored = calls[c].stored
               /\ calls[c].token \in Tokens \ {n} /\ tokens[calls[c].token] # None
               /\ calls[c].stored # n
    <2>1. Issued(calls[c])
      BY <1>4 DEF TypeInv, Memory
    <2> QED
      BY <1>1, <1>4, <2>1, CallIs, NoneApart DEF TokenCallsStay, Issued, Grown
  <1>5. \A c \in Calls, r \in Tokens : In(c, r)' <=> In(c, r) /\ r # n
    <2>1. ASSUME NEW c \in Calls, NEW r \in Tokens, In(c, r)'
          PROVE  In(c, r)
      <3>1. calls[c] # None /\ calls[c].token # None
        BY <2>1 DEF In, TokenCallsStay
      <3> QED
        BY <1>4, <2>1, <3>1 DEF In, Grown
    <2>2. ASSUME NEW c \in Calls, NEW r \in Tokens, In(c, r)
          PROVE  In(c, r)' /\ r # n
      <3>1. calls[c] # None /\ calls[c].token # None
        BY <2>2 DEF In
      <3> QED
        BY <1>2, <1>4, <2>2, <3>1 DEF In, Grown
    <2> QED
      BY <2>1, <2>2
  <1>6. \A r \in Tokens \ {n}, t \in Tokens : LiveIn(t, r)' => LiveIn(t, r)
    BY DEF LiveIn, Live, Grown
  <1>7. \A r \in Tokens \ {n} : /\ Straight(r) => Straight(r)'
                                /\ Over(r) => Over(r)'
    <2>1. \A r \in Tokens, c \in Calls : In(c, r) =>
             calls'[c].token = calls[c].token /\ calls'[c].stored = calls[c].stored
      BY <1>4 DEF In
    <2> QED
      BY <1>5, <1>6, <2>1, SessionKept
  <1>8. Straight(n)'
    <2>1. \A t \in Tokens : LiveIn(t, n)' => t = n
      BY <1>2 DEF LiveIn, Live, Grown
    <2> QED
      BY <1>5, <2>1 DEF Straight
  <1>9. RootsIssued'
    <2>1. ASSUME NEW t \in Tokens, tokens'[t] # None
          PROVE  tokens'[tokens'[t].root] # None
      <3>1. CASE t = n
        BY <3>1 DEF Grown
      <3>2. CASE t # n
        <4>1. tokens[t] # None /\ tokens'[t].root = tokens[t].root
          BY <2>1, <3>2 DEF Grown
        <4>2. tokens[t].root \in Tokens \ {n}
          BY <1>1, <1>2, <4>1 DEF TypeOK, Token
        <4> QED
          BY <4>1, <4>2 DEF ChainInv, RootsIssued, Grown
      <3> QED
        BY <3>1, <3>2
    <2>2. ASSUME NEW t \in ended' \cup Given' PROVE tokens'[t] # None
      <3>1. CASE t = n
        BY <3>1 DEF Grown
      <3>2. CASE t # n
        <4>1. tokens[t] # None /\ t \in Tokens
          BY <1>1, <2>2, <3>2 DEF ChainInv, RootsIssued, TypeOK, Given
        <4> QED
          BY <3>2, <4>1 DEF Grown
      <3> QED
        BY <3>1, <3>2
    <2> QED
      BY <2>1, <2>2 DEF RootsIssued
  <1>10. \A r \in Tokens \ forked' : Straight(r)'
    BY <1>7, <1>8 DEF ChainInv
  <1>11. ASSUME NEW r \in ended' \ (forked' \cup outlived') PROVE Over(r)'
    <2>1. r \in Tokens \ {n}
      BY <1>1, <1>3 DEF TypeOK
    <2>2. CASE r \in ended
      BY <1>7, <2>1, <2>2 DEF ChainInv
    <2>3. CASE r \notin ended
      BY <1>5, <2>1, <2>3 DEF Over
    <2> QED
      BY <2>2, <2>3
  <1>12. Stored'
    <2>1. ASSUME NEW c \in Calls, calls'[c] # None, calls'[c].stored # None
          PROVE  calls[c] # None /\ calls[c].token # None
      <3>1. calls'[c].token # None
        BY <2>1 DEF TypeInv, Memory, Fits
      <3> QED
        BY <2>1, <3>1 DEF TokenCallsStay
    <2>2. ASSUME NEW c \in Calls, calls'[c] # None, calls'[c].stored # None
          PROVE  StoredFor(calls[c])'
      <3>0. /\ calls'[c].token = calls[c].token /\ calls'[c].stored = calls[c].stored
            /\ calls[c].token \in Tokens \ {n} /\ calls[c].stored # n
            /\ calls[c].stored # None
        BY <1>4, <2>1, <2>2
      <3>1. account = "open"
        <4>1. account # "new"
          BY <2>1, <2>2, <3>0, StoredHaveToken
        <4> QED
          BY <1>0, <4>1
      <3>2. StoredFor(calls[c])
        BY <2>1, <2>2, <3>0, <3>1 DEF ChainInv, Stored
      <3>3. PICK s \in Tokens \ {n}, t \in Tokens \ {n} :
               s = calls[c].stored /\ t = calls[c].token
        BY <1>1, <2>1, <2>2, <3>0, CallIs
      <3>4. /\ s \notin Given /\ s # t /\ tokens[s] # None /\ tokens[t] # None
            /\ tokens[s].root = tokens[t].root
            /\ Live(s) \/ tokens[t].root \in ended \cup lapsed
        BY <3>2, <3>3 DEF StoredFor
      <3>5. /\ tokens'[s] # None /\ tokens'[t] # None
            /\ tokens'[s].root = tokens[s].root /\ tokens'[t].root = tokens[t].root
        BY <3>4 DEF Grown
      <3>6. calls'[c].stored = s /\ calls'[c].token = t
        BY <3>0, <3>3
      <3>7. Live(s)' \/ tokens'[t].root \in ended' \cup lapsed'
        BY <3>4, <3>5
      <3>8. Live(calls[c].stored)' \/ tokens'[t].root \in ended' \cup lapsed'
        BY <3>6, <3>7 DEF Live
      <3> QED
        BY <3>4, <3>5, <3>6, <3>8 DEF StoredFor
    <2>3. ASSUME NEW c \in Calls, calls'[c] # None, calls'[c].token # None
          PROVE  calls'[c].token \in Given'
      BY <2>3 DEF ChainInv, Stored, TokenCallsStay
    <2>4. ASSUME NEW c \in Calls, NEW d \in Calls, calls'[c] # None, calls'[d] # None,
                 calls'[c].stored # None, calls'[c].stored = calls'[d].stored
          PROVE  c = d
      BY <1>4, <2>1, <2>4 DEF ChainInv, Stored
    <2> QED
      BY <2>2, <2>3, <2>4 DEF Stored
  <1>13. StillSignedIn'
    <2>1. ASSUME NEW r \in Roots', r \notin ended' \cup lapsed'
          PROVE  \E t \in Given' : Live(t)' /\ tokens'[t].root = r
      <3>1. PICK m \in Tokens : tokens'[m] # None /\ tokens'[m].root = r
        BY <2>1 DEF Roots, Fresh
      <3>2. CASE m = n
        BY <3>1, <3>2 DEF Grown
      <3>3. CASE m # n
        <4>1. r \in Roots \ (ended \cup lapsed)
          BY <2>1, <3>1, <3>3 DEF Roots, Fresh, Grown
        <4>2. PICK t \in Given : Live(t) /\ tokens[t].root = r
          BY <4>1 DEF ChainInv, StillSignedIn
        <4>3. t \in Tokens \ {n}
          BY <1>1, <1>3 DEF TypeOK, Given
        <4>4. Live(t)'
          BY <2>1, <4>2, <4>3
        <4> QED
          BY <4>2, <4>3, <4>4 DEF Grown, Live
      <3> QED
        BY <3>2, <3>3
    <2> QED
      BY <2>1 DEF StillSignedIn
  <1> QED
    BY <1>9, <1>10, <1>11, <1>12, <1>13 DEF ChainInv

------------------------------------------------------------------------------
(* Exchanging a token of one session                                       *)

\* Tokens are kept, and those that are new are of the session r.
GrownIn(r) ==
    /\ \A m \in Tokens : tokens[m] # None =>
          tokens'[m] # None /\ tokens'[m].root = tokens[m].root
    /\ \A m \in Tokens : tokens[m] = None /\ tokens'[m] # None => tokens'[m].root = r

\* A request that is not the one that takes the step exchanges the same token.
LEMMA OthersIn ==
  ASSUME TypeInv, ChainInv, account = "open", NEW r \in Tokens, GrownIn(r),
         NEW d \in Calls, calls'[d] = calls[d], NEW q \in Tokens
  PROVE  In(d, q)' <=> In(d, q)
  <1>1. CASE calls[d] = None \/ calls[d].token = None
    BY <1>1 DEF In
  <1>2. CASE calls[d] # None /\ calls[d].token # None
    <2>1. calls[d].token \in Tokens /\ tokens[calls[d].token] # None
      BY <1>2, CallIs DEF TypeInv, Memory, Issued
    <2> QED
      BY <1>2, <2>1 DEF In, GrownIn
  <1> QED
    BY <1>1, <1>2

\* What such a request has stored continues its session, as long as nobody gets
\* it and it is not revoked.
LEMMA StoredForKept ==
  ASSUME TypeInv, ChainInv, account = "open", NEW r \in Tokens, GrownIn(r),
         NEW d \in Calls, calls[d] # None, calls[d].stored # None,
         calls'[d] = calls[d], UNCHANGED <<ended, lapsed>>,
         \A s \in Tokens : s = calls[d].stored => s \notin Given' /\ (Live(s) => Live(s)')
  PROVE  StoredFor(calls[d])'
  <1>1. StoredFor(calls[d])
    BY DEF ChainInv, Stored
  <1>2. calls[d].stored \in Tokens /\ calls[d].token \in Tokens
    BY StoredHaveToken, CallIs DEF TypeInv
  <1>3. PICK s \in Tokens, t \in Tokens : s = calls[d].stored /\ t = calls[d].token
    BY <1>2
  <1>4. /\ s # t /\ tokens[s] # None /\ tokens[t] # None
        /\ tokens[s].root = tokens[t].root
        /\ Live(s) \/ tokens[t].root \in ended \cup lapsed
    BY <1>1, <1>3 DEF StoredFor
  <1>5. /\ tokens'[s] # None /\ tokens'[t] # None
        /\ tokens'[s].root = tokens[s].root /\ tokens'[t].root = tokens[t].root
    BY <1>4 DEF GrownIn
  <1>6. s \notin Given' /\ (Live(s)' \/ tokens'[t].root \in ended' \cup lapsed')
    BY <1>3, <1>4, <1>5
  <1>7. Live(calls[d].stored)' \/ tokens'[t].root \in ended' \cup lapsed'
    BY <1>3, <1>6 DEF Live
  <1> QED
    BY <1>3, <1>4, <1>5, <1>6, <1>7 DEF StoredFor

\* When a request takes a step with a token of the session r, the other sessions
\* are as they were.
LEMMA OneSession ==
  ASSUME TypeInv, TypeInv', ChainInv, account = "open", account' = "open",
         NEW c \in Calls, NEW r \in Tokens, tokens[r] # None, GrownIn(r),
         \A d \in Calls \ {c} : calls'[d] = calls[d],
         \A q \in Tokens \ {r} : ~In(c, q) /\ ~In(c, q)',
         \A m \in Tokens : tokens[m] # None /\ tokens[m].root # r =>
                              (Live(m)' <=> Live(m)),
         Given \subseteq Given', \A t \in Given' : tokens'[t] # None,
         forked \subseteq forked', UNCHANGED <<ended, lapsed, outlived>>,
         r \notin forked' => Straight(r)',
         r \in ended \ (forked' \cup outlived) => Over(r)',
         r \notin ended \cup lapsed => \E t \in Given' : LiveIn(t, r)',
         Stored'
  PROVE  ChainInv'
  <1>1. TypeOK /\ TypeOK'
    BY DEF TypeInv
  <1>2. \A q \in Tokens \ {r}, d \in Calls : In(d, q)' <=> In(d, q)
    <2>1. ASSUME NEW q \in Tokens \ {r}, NEW d \in Calls \ {c}
          PROVE  In(d, q)' <=> In(d, q)
      BY <2>1, OthersIn
    <2> QED
      BY <2>1
  <1>3. \A q \in Tokens \ {r}, d \in Calls : In(d, q) =>
           calls'[d].token = calls[d].token /\ calls'[d].stored = calls[d].stored
    OBVIOUS
  <1>4. \A q \in Tokens \ {r}, m \in Tokens : LiveIn(m, q)' <=> LiveIn(m, q)
    BY DEF LiveIn, Live, GrownIn
  <1>5. \A q \in Tokens \ {r} : /\ Straight(q) => Straight(q)'
                                /\ Over(q) => Over(q)'
    BY <1>2, <1>3, <1>4, SessionKept
  <1>6. RootsIssued'
    <2>1. ASSUME NEW m \in Tokens, tokens'[m] # None
          PROVE  tokens'[tokens'[m].root] # None
      <3>1. CASE tokens[m] = None
        BY <2>1, <3>1 DEF GrownIn
      <3>2. CASE tokens[m] # None
        <4>1. tokens[m].root \in Tokens /\ tokens[tokens[m].root] # None
          BY <1>1, <3>2 DEF ChainInv, RootsIssued, TypeOK, Token
        <4> QED
          BY <3>2, <4>1 DEF GrownIn
      <3> QED
        BY <3>1, <3>2
    <2>2. ASSUME NEW m \in ended' PROVE tokens'[m] # None
      <3>1. m \in Tokens /\ tokens[m] # None
        BY <1>1, <2>2 DEF ChainInv, RootsIssued, TypeOK
      <3> QED
        BY <3>1 DEF GrownIn
    <2> QED
      BY <2>1, <2>2 DEF RootsIssued
  <1>7. \A q \in Tokens \ forked' : Straight(q)'
    BY <1>5 DEF ChainInv
  <1>8. \A q \in ended' \ (forked' \cup outlived') : Over(q)'
    BY <1>1, <1>5 DEF ChainInv, TypeOK
  <1>9. StillSignedIn'
    <2>1. ASSUME NEW q \in Roots', q \notin ended' \cup lapsed'
          PROVE  \E t \in Given' : Live(t)' /\ tokens'[t].root = q
      <3>1. CASE q = r
        BY <2>1, <3>1 DEF LiveIn
      <3>2. CASE q # r
        <4>1. PICK m \in Tokens : tokens'[m] # None /\ tokens'[m].root = q
          BY <2>1 DEF Roots, Fresh
        <4>2. q \in Roots /\ q \in Tokens
          BY <1>1, <3>2, <4>1 DEF Roots, Fresh, GrownIn, TypeOK, Token
        <4>3. PICK t \in Given : Live(t) /\ tokens[t].root = q
          BY <2>1, <4>2 DEF ChainInv, StillSignedIn
        <4>4. t \in Tokens
          BY <1>1 DEF TypeOK, Given
        <4>5. LiveIn(t, q)'
          BY <1>4, <3>2, <4>2, <4>3, <4>4 DEF LiveIn
        <4> QED
          BY <4>3, <4>5 DEF LiveIn
      <3> QED
        BY <3>1, <3>2
    <2> QED
      BY <2>1 DEF StillSignedIn
  <1> QED
    BY <1>6, <1>7, <1>8, <1>9 DEF ChainInv

\* A request that exchanges a token of a session that is not forked is the only
\* one, and the session is not over.
LEMMA ExchangesAlone ==
  ASSUME TypeInv, ChainInv, account = "open", NEW c \in Calls, calls[c] # None,
         calls[c].pc \in {"exchange", "rotate", "revoke"},
         NEW t \in Tokens, t = calls[c].token, NEW r \in Tokens, r = tokens[t].root
  PROVE  /\ tokens[t] # None /\ tokens[r] # None /\ t \in Given
         /\ In(c, r) /\ \A q \in Tokens : In(c, q) => q = r
         /\ r \notin forked =>
               /\ \A d \in Calls : In(d, r) => d = c
               /\ \A m \in Tokens : LiveIn(m, r) => m \in {t, calls[c].stored}
         /\ r \notin ended \ (forked \cup outlived)
  <1>1. tokens[t] # None
    BY HasToken
  <1>2. tokens[r] # None
    BY <1>1 DEF ChainInv, RootsIssued
  <1>3. calls[c].token # None
    BY NoneApart
  <1>4. In(c, r) /\ \A q \in Tokens : In(c, q) => q = r
    BY <1>1, <1>3 DEF In
  <1>5. t \in Given
    BY <1>3 DEF ChainInv, Stored
  <1>6. r \notin forked => Straight(r)
    BY DEF ChainInv
  <1>7. r \notin ended \ (forked \cup outlived)
    BY <1>4 DEF ChainInv, Over
  <1>8. r \notin forked =>
               /\ \A d \in Calls : In(d, r) => d = c
               /\ \A m \in Tokens : LiveIn(m, r) => m \in {t, calls[c].stored}
    BY <1>4, <1>6 DEF Straight
  <1> QED
    BY <1>1, <1>2, <1>4, <1>5, <1>7, <1>8

\* What a request has in memory of tokens is never fresh.
LEMMA FreshUnknown ==
  ASSUME TypeInv, ChainInv, account # "deleted", NEW n \in Tokens, tokens[n] = None
  PROVE  /\ n \notin Given /\ n \notin ended
         /\ \A d \in Calls : calls[d] # None => calls[d].token # n /\ calls[d].stored # n
  <1>1. n \notin Given /\ n \notin ended
    BY DEF ChainInv, RootsIssued
  <1>2. ASSUME NEW d \in Calls, calls[d] # None
        PROVE  calls[d].token # n /\ calls[d].stored # n
    BY <1>2, NoneApart DEF TypeInv, Memory, Issued
  <1> QED
    BY <1>1, <1>2

\* The mutation revokes the token and stores its successor, which is returned.
LEMMA RefreshTokenKeeps ==
  ASSUME TypeInv, TypeInv', ChainInv, NEW c \in Calls, RefreshToken(c)
  PROVE  ChainInv'
  <1>1. TypeOK /\ TypeOK'
    BY DEF TypeInv
  <1>2. /\ calls[c] # None /\ calls[c].pc = "exchange" /\ End(c)
        /\ UNCHANGED <<account, Chains>>
    BY DEF RefreshToken, At
  <1>3. calls'[c] = None /\ \A d \in Calls \ {c} : calls'[d] = calls[d]
    BY <1>1, <1>2, EndIs
  <1>4. CASE account # "open"
    <2>1. UNCHANGED <<tokens, Given>>
      BY <1>4 DEF RefreshToken, MayStore, Given
    <2>2. account' # "deleted" => ended' = {} /\ Given' = {}
      BY <1>1, <1>2, <1>4, <2>1, NewHasNothing DEF TypeOK, Chains
    <2> QED
      BY <1>2, <1>3, <1>4, <2>1, <2>2, ClosedKeeps DEF ChainInv, Stored
  <1>5. CASE account = "open"
    <2>1. PICK n \in Fresh : tokens' = Exchanged(calls[c].token, n) /\ Given' = Given \cup {n}
      BY <1>5 DEF RefreshToken, MayStore, Given
    <2>2. n \in Tokens /\ tokens[n] = None
      BY DEF Fresh
    <2>3. PICK t \in Tokens, r \in Tokens : t = calls[c].token /\ r = tokens[t].root
      BY <1>2, <1>5, HasToken
    <2>4. /\ tokens[t] # None /\ tokens[r] # None /\ t \in Given
          /\ In(c, r) /\ \A q \in Tokens : In(c, q) => q = r
          /\ r \notin forked =>
                /\ \A d \in Calls : In(d, r) => d = c
                /\ \A m \in Tokens : LiveIn(m, r) => m \in {t, calls[c].stored}
          /\ r \notin ended \ (forked \cup outlived)
      BY <1>2, <1>5, <2>3, ExchangesAlone
    <2>5. Grown(n, r) /\ \A m \in Tokens : Live(m)' <=> (Live(m) /\ m # t) \/ m = n
      BY <1>1, <2>1, <2>2, <2>3, <2>4, ExchangedIs
    <2>6. GrownIn(r)
      BY <2>2, <2>5 DEF Grown, GrownIn
    <2>7. \A q \in Tokens : ~In(c, q)'
      BY <1>3 DEF In
    <2>8. /\ n \notin Given
          /\ \A d \in Calls : calls[d] # None => calls[d].token # n /\ calls[d].stored # n
      BY <1>5, <2>2, FreshUnknown
    <2>9. \A m \in Given' : tokens'[m] # None
      <3>1. \A m \in Given : m \in Tokens /\ tokens[m] # None
        BY <1>1, <1>5 DEF ChainInv, RootsIssued, TypeOK, Given
      <3> QED
        BY <2>1, <2>5, <2>6, <3>1 DEF Grown, GrownIn
    <2>10. \A m \in Tokens : tokens[m] # None /\ tokens[m].root # r => (Live(m)' <=> Live(m))
      BY <2>2, <2>3, <2>5
    <2>11. r \notin forked' => Straight(r)'
      <3>1. SUFFICES ASSUME r \notin forked PROVE Straight(r)'
        BY <1>2 DEF Chains
      <3>2. calls[c].stored = None
        BY <1>2 DEF TypeInv, Memory, Fits
      <3>3. \A m \in Tokens : LiveIn(m, r)' => m = n
        <4>1. \A m \in Tokens \ {n} : LiveIn(m, r)' => LiveIn(m, r) /\ m # t
          BY <2>5 DEF LiveIn, Live, Grown
        <4> QED
          BY <2>4, <3>1, <3>2, <4>1, NoneApart
      <3>4. ASSUME NEW d \in Calls, In(d, r)' PROVE FALSE
        <4>1. d # c
          BY <2>7, <3>4
        <4>2. In(d, r)
          BY <1>3, <1>5, <2>6, <3>4, <4>1, OthersIn
        <4> QED
          BY <2>4, <3>1, <4>1, <4>2
      <3> QED
        BY <3>3, <3>4 DEF Straight
    <2>12. LiveIn(n, r)' /\ n \in Given'
      BY <2>1, <2>2, <2>5 DEF LiveIn, Grown
    <2>13. Stored'
      <3>1. ASSUME NEW d \in Calls, calls'[d] # None
            PROVE  d # c /\ calls'[d] = calls[d] /\ calls[d] # None
        BY <1>3, <3>1
      <3>2. ASSUME NEW d \in Calls, calls'[d] # None, calls'[d].stored # None
            PROVE  StoredFor(calls[d])'
        <4>1. calls'[d] = calls[d] /\ calls[d] # None /\ calls[d].stored # None
          BY <3>1, <3>2
        <4>2. calls[d].stored \notin Given /\ calls[d].stored # n
          BY <1>5, <2>8, <4>1 DEF ChainInv, Stored, StoredFor
        <4>3. \A s \in Tokens : s = calls[d].stored => s \notin Given' /\ (Live(s) => Live(s)')
          BY <2>1, <2>4, <2>5, <4>2
        <4>4. UNCHANGED <<ended, lapsed>>
          BY <1>2 DEF Chains
        <4> QED
          BY <1>5, <2>6, <4>1, <4>3, <4>4, StoredForKept
      <3>3. \A d \in Calls : calls'[d] # None /\ calls'[d].token # None =>
                               calls'[d].token \in Given'
        BY <2>1, <3>1 DEF ChainInv, Stored
      <3>4. \A d, e \in Calls : calls'[d] # None /\ calls'[e] # None
               /\ calls'[d].stored # None /\ calls'[d].stored = calls'[e].stored => d = e
        BY <3>1 DEF ChainInv, Stored
      <3> QED
        BY <3>2, <3>3, <3>4 DEF Stored
    <2>14. forked' = forked /\ UNCHANGED <<ended, lapsed, outlived>> /\ account' = "open"
      BY <1>2, <1>5 DEF Chains
    <2>15. Given \subseteq Given'
      BY <2>1
    <2>16. \A q \in Tokens \ {r} : ~In(c, q) /\ ~In(c, q)'
      BY <2>4, <2>7
    <2> QED
      BY <1>3, <1>5, <2>4, <2>6, <2>9, <2>10, <2>11, <2>12, <2>13, <2>14, <2>15,
         <2>16, OneSession
  <1> QED
    BY <1>4, <1>5

\* The route stores the successor, which nobody has yet.
LEMMA PersistKeeps ==
  ASSUME TypeInv, TypeInv', ChainInv, NEW c \in Calls, PersistRefreshToken(c)
  PROVE  ChainInv'
  <1>1. TypeOK /\ TypeOK'
    BY DEF TypeInv
  <1>2. calls[c] # None /\ calls[c].pc = "rotate" /\ UNCHANGED <<account, Given, Chains>>
    BY DEF PersistRefreshToken, At, Given
  <1>3. CASE account # "open"
    <2>1. End(c) /\ UNCHANGED tokens
      BY <1>3 DEF PersistRefreshToken, MayStore
    <2>2. calls'[c] = None /\ \A d \in Calls \ {c} : calls'[d] = calls[d]
      BY <1>1, <2>1, EndIs
    <2>3. account' # "deleted" => ended' = {} /\ Given' = {}
      BY <1>1, <1>2, <1>3, NewHasNothing DEF TypeOK, Chains
    <2> QED
      BY <1>2, <1>3, <2>2, <2>3, ClosedKeeps DEF ChainInv, Stored
  <1>4. CASE account = "open"
    <2>1. PICK n \in Fresh :
             /\ tokens' = Persisted(calls[c].token, n)
             /\ calls' = [calls EXCEPT ![c].pc = "revoke", ![c].stored = n]
      BY <1>4 DEF PersistRefreshToken, MayStore
    <2>2. n \in Tokens /\ tokens[n] = None
      BY DEF Fresh
    <2>3. PICK t \in Tokens, r \in Tokens : t = calls[c].token /\ r = tokens[t].root
      BY <1>2, <1>4, HasToken
    <2>4. /\ tokens[t] # None /\ tokens[r] # None /\ t \in Given
          /\ In(c, r) /\ \A q \in Tokens : In(c, q) => q = r
          /\ r \notin forked =>
                /\ \A d \in Calls : In(d, r) => d = c
                /\ \A m \in Tokens : LiveIn(m, r) => m \in {t, calls[c].stored}
          /\ r \notin ended \ (forked \cup outlived)
      BY <1>2, <1>4, <2>3, ExchangesAlone
    <2>5. Grown(n, r) /\ \A m \in Tokens : Live(m)' <=> Live(m) \/ m = n
      <3>1. tokens' = [tokens EXCEPT ![n] = New(r, "rest")]
        BY <2>1, <2>3 DEF Persisted
      <3> QED
        BY <1>1, <2>2, <3>1, StartedIs
    <2>6. GrownIn(r)
      BY <2>2, <2>5 DEF Grown, GrownIn
    <2>7. /\ calls'[c] # None /\ calls'[c].token = t /\ calls'[c].stored = n
          /\ \A d \in Calls \ {c} : calls'[d] = calls[d]
      BY <1>1, <1>2, <2>1, <2>2, <2>3, PersistedIs
    <2>8. /\ n \notin Given
          /\ \A d \in Calls : calls[d] # None => calls[d].token # n /\ calls[d].stored # n
      BY <1>4, <2>2, FreshUnknown
    <2>9. \A m \in Given' : tokens'[m] # None
      <3>1. \A m \in Given : m \in Tokens /\ tokens[m] # None
        BY <1>1, <1>4 DEF ChainInv, RootsIssued, TypeOK, Given
      <3> QED
        BY <1>2, <2>6, <3>1 DEF GrownIn
    <2>10. /\ tokens'[t] # None /\ tokens'[t].root = r
           /\ tokens'[n] # None /\ tokens'[n].root = r /\ n # t
      BY <2>2, <2>3, <2>4, <2>5 DEF Grown
    <2>11. \A q \in Tokens \ {r} : ~In(c, q) /\ ~In(c, q)'
      <3>1. \A q \in Tokens : In(c, q)' => q = r
        BY <2>7, <2>10 DEF In
      <3> QED
        BY <2>4, <3>1
    <2>12. r \notin forked' => Straight(r)'
      <3>1. SUFFICES ASSUME r \notin forked PROVE Straight(r)'
        BY <1>2 DEF Chains
      <3>2. calls[c].stored = None
        BY <1>2 DEF TypeInv, Memory, Fits
      <3>3. \A m \in Tokens : LiveIn(m, r)' => m \in {t, n}
        <4>1. \A m \in Tokens \ {n} : LiveIn(m, r)' => LiveIn(m, r)
          BY <2>5 DEF LiveIn, Live, Grown
        <4> QED
          BY <2>4, <3>1, <3>2, <4>1, NoneApart
      <3>4. \A d \in Calls : In(d, r)' => d = c
        <4>1. \A d \in Calls \ {c} : In(d, r)' => In(d, r)
          BY <1>4, <2>6, <2>7, OthersIn
        <4> QED
          BY <2>4, <3>1, <4>1
      <3>5. In(c, r)'
        BY <2>7, <2>10, NoneApart DEF In
      <3>6. ASSUME NEW d \in Calls, In(d, r)', NEW m \in Tokens, LiveIn(m, r)'
            PROVE  m \in {calls'[d].token, calls'[d].stored}
        <4>1. d = c /\ m \in {t, n}
          BY <3>3, <3>4, <3>6
        <4> QED
          BY <2>7, <4>1
      <3>7. \A d, e \in Calls : In(d, r)' /\ In(e, r)' => d = e
        BY <3>4
      <3> QED
        BY <3>5, <3>6, <3>7 DEF Straight
    <2>13. r \notin ended \cup lapsed => \E m \in Given' : LiveIn(m, r)'
      <3>1. SUFFICES ASSUME r \notin ended \cup lapsed PROVE \E m \in Given' : LiveIn(m, r)'
        OBVIOUS
      <3>2. r \in Roots
        BY <2>3, <2>4 DEF Roots, Fresh
      <3>3. PICK m \in Given : Live(m) /\ tokens[m].root = r
        BY <3>1, <3>2 DEF ChainInv, StillSignedIn
      <3>4. m \in Tokens /\ m # n
        BY <1>1, <2>8 DEF TypeOK, Given
      <3>5. LiveIn(m, r)'
        BY <2>5, <3>3, <3>4 DEF LiveIn, Live, Grown
      <3> QED
        BY <1>2, <3>3, <3>5
    <2>14. Stored'
      <3>1. StoredFor(calls[c])'
        <4>1. Live(n)' /\ n \notin Given'
          BY <1>2, <2>2, <2>5, <2>8
        <4>2. Live(calls[c].stored)'
          BY <2>7, <4>1 DEF Live
        <4> QED
          BY <2>7, <2>10, <4>1, <4>2 DEF StoredFor
      <3>2. ASSUME NEW d \in Calls \ {c}, calls'[d] # None, calls'[d].stored # None
            PROVE  StoredFor(calls[d])'
        <4>1. calls'[d] = calls[d] /\ calls[d] # None /\ calls[d].stored # None
          BY <2>7, <3>2
        <4>2. calls[d].stored \notin Given
          BY <1>4, <4>1 DEF ChainInv, Stored, StoredFor
        <4>3. \A s \in Tokens : s = calls[d].stored => s \notin Given' /\ (Live(s) => Live(s)')
          BY <1>2, <2>5, <4>2
        <4>4. UNCHANGED <<ended, lapsed>>
          BY <1>2 DEF Chains
        <4> QED
          BY <1>4, <2>6, <4>1, <4>3, <4>4, StoredForKept
      <3>3. \A d \in Calls : calls'[d] # None /\ calls'[d].token # None =>
                               calls'[d].token \in Given'
        BY <1>2, <2>4, <2>7 DEF ChainInv, Stored
      <3>4. ASSUME NEW d \in Calls, NEW e \in Calls, calls'[d] # None, calls'[e] # None,
                   calls'[d].stored # None, calls'[d].stored = calls'[e].stored
            PROVE  d = e
        <4>1. CASE d = c \/ e = c
          BY <2>7, <2>8, <3>4, <4>1
        <4>2. CASE d # c /\ e # c
          BY <2>7, <3>4, <4>2 DEF ChainInv, Stored
        <4> QED
          BY <4>1, <4>2
      <3> QED
        BY <3>1, <3>2, <3>3, <3>4 DEF Stored
    <2>15. UNCHANGED <<ended, lapsed, outlived>> /\ forked' = forked /\ account' = "open"
      BY <1>2, <1>4 DEF Chains
    <2>16. \A m \in Tokens : tokens[m] # None /\ tokens[m].root # r => (Live(m)' <=> Live(m))
      BY <2>2, <2>5
    <2> QED
      BY <1>2, <1>4, <2>4, <2>6, <2>7, <2>9, <2>11, <2>12, <2>13, <2>14, <2>15,
         <2>16, OneSession
  <1> QED
    BY <1>3, <1>4

\* The route revokes the token, or fails to, and returns the successor.
LEMMA RevokeRotatedKeeps ==
  ASSUME TypeInv, TypeInv', ChainInv, NEW c \in Calls, RevokeRotated(c)
  PROVE  ChainInv'
  <1>1. TypeOK /\ TypeOK'
    BY DEF TypeInv
  <1>2. /\ calls[c] # None /\ calls[c].pc = "revoke" /\ End(c)
        /\ Given' = Given \cup {calls[c].stored}
        /\ UNCHANGED <<account, ended, lapsed, outlived>>
    BY DEF RevokeRotated, At, Given
  <1>3. calls'[c] = None /\ \A d \in Calls \ {c} : calls'[d] = calls[d]
    BY <1>1, <1>2, EndIs
  <1>4. calls[c].token # None /\ calls[c].stored # None
    BY <1>2 DEF TypeInv, Memory, Fits
  <1>5. /\ \A d \in Calls : calls'[d] # None /\ calls'[d].token # None =>
                              calls'[d].token \in Given'
        /\ \A d, e \in Calls : calls'[d] # None /\ calls'[e] # None
              /\ calls'[d].stored # None /\ calls'[d].stored = calls'[e].stored => d = e
    BY <1>2, <1>3 DEF ChainInv, Stored
  <1>6. CASE account # "open"
    <2>1. account' # "new"
      BY <1>2, <1>4, StoredHaveToken
    <2>2. account' = "deleted"
      BY <1>1, <1>2, <1>6, <2>1 DEF TypeOK
    <2> QED
      BY <1>5, <2>2, ClosedKeeps
  <1>7. CASE account = "open"
    <2>1. PICK t \in Tokens, r \in Tokens, s \in Tokens :
             t = calls[c].token /\ r = tokens[t].root /\ s = calls[c].stored
      BY <1>1, <1>2, <1>4, <1>7, HasToken, CallIs
    <2>2. /\ tokens[t] # None /\ tokens[r] # None /\ t \in Given
          /\ In(c, r) /\ \A q \in Tokens : In(c, q) => q = r
          /\ r \notin forked =>
                /\ \A d \in Calls : In(d, r) => d = c
                /\ \A m \in Tokens : LiveIn(m, r) => m \in {t, calls[c].stored}
          /\ r \notin ended \ (forked \cup outlived)
      BY <1>2, <1>7, <2>1, ExchangesAlone
    <2>3. /\ s \notin Given /\ s # t /\ tokens[s] # None /\ tokens[s].root = r
          /\ Live(s) \/ r \in ended \cup lapsed
      BY <1>2, <1>4, <1>7, <2>1 DEF ChainInv, Stored, StoredFor
    <2>4. \/ /\ tokens' = [tokens EXCEPT ![t].revoked = TRUE]
             /\ forked' = forked
          \/ /\ tokens' = tokens
             /\ forked' = forked \cup {r}
      BY <2>1, <2>2 DEF RevokeRotated
    <2>5. SameRoots /\ \A m \in Tokens : m # t => (Live(m)' <=> Live(m))
      <3>1. CASE tokens' = [tokens EXCEPT ![t].revoked = TRUE]
        BY <1>1, <2>2, <3>1, RevokedIs
      <3>2. CASE tokens' = tokens
        BY <3>2 DEF SameRoots, Live
      <3> QED
        BY <2>4, <3>1, <3>2
    <2>6. GrownIn(r)
      BY <2>5 DEF SameRoots, GrownIn
    <2>7. \A q \in Tokens : ~In(c, q)'
      BY <1>3 DEF In
    <2>8. \A m \in Given' : tokens'[m] # None
      <3>1. \A m \in Given : m \in Tokens /\ tokens[m] # None
        BY <1>1, <1>7 DEF ChainInv, RootsIssued, TypeOK, Given
      <3> QED
        BY <1>2, <2>1, <2>3, <2>6, <3>1 DEF GrownIn
    <2>9. r \notin forked' => Straight(r)'
      <3>1. SUFFICES ASSUME r \notin forked' PROVE Straight(r)'
        OBVIOUS
      <3>2. tokens' = [tokens EXCEPT ![t].revoked = TRUE] /\ r \notin forked
        BY <2>4, <3>1
      <3>3. \A m \in Tokens : LiveIn(m, r)' => LiveIn(m, r) /\ m # t
        <4>1. \A m \in Tokens : Live(m)' <=> Live(m) /\ m # t
          BY <1>1, <2>2, <3>2, RevokedIs
        <4> QED
          BY <2>5, <4>1 DEF LiveIn, Live, SameRoots
      <3>4. \A m \in Tokens : LiveIn(m, r)' => m = s
        BY <2>1, <2>2, <3>2, <3>3
      <3>5. ASSUME NEW d \in Calls, In(d, r)' PROVE FALSE
        <4>1. d # c
          BY <2>7, <3>5
        <4>2. In(d, r)
          BY <1>3, <1>7, <2>6, <3>5, <4>1, OthersIn
        <4> QED
          BY <2>2, <3>2, <4>1, <4>2
      <3> QED
        BY <3>4, <3>5 DEF Straight
    <2>10. r \notin ended \cup lapsed => \E m \in Given' : LiveIn(m, r)'
      <3>1. ASSUME r \notin ended \cup lapsed PROVE LiveIn(s, r)' /\ s \in Given'
        <4>1. Live(s)'
          BY <2>3, <2>5, <3>1
        <4> QED
          BY <1>2, <2>1, <2>3, <2>5, <4>1 DEF LiveIn, SameRoots
      <3> QED
        BY <3>1
    <2>11. Stored'
      <3>1. ASSUME NEW d \in Calls, calls'[d] # None, calls'[d].stored # None
            PROVE  StoredFor(calls[d])'
        <4>1. d # c /\ calls'[d] = calls[d] /\ calls[d] # None /\ calls[d].stored # None
          BY <1>3, <3>1
        <4>2. calls[d].stored \notin Given /\ calls[d].stored # s
          BY <1>2, <1>4, <1>7, <2>1, <4>1 DEF ChainInv, Stored, StoredFor
        <4>3. \A m \in Tokens : m = calls[d].stored => m \notin Given' /\ (Live(m) => Live(m)')
          BY <1>2, <2>1, <2>2, <2>5, <4>2
        <4> QED
          BY <1>2, <1>7, <2>6, <4>1, <4>3, StoredForKept
      <3> QED
        BY <1>5, <3>1 DEF Stored
    <2>12. \A m \in Tokens : tokens[m] # None /\ tokens[m].root # r => (Live(m)' <=> Live(m))
      BY <2>1, <2>5
    <2>13. account' = "open" /\ Given \subseteq Given' /\ forked \subseteq forked'
      BY <1>2, <1>7, <2>4
    <2>14. r \notin ended \ (forked' \cup outlived)
      BY <2>2, <2>13
    <2>15. \A q \in Tokens \ {r} : ~In(c, q) /\ ~In(c, q)'
      BY <2>2, <2>7
    <2> QED
      BY <1>2, <1>3, <1>7, <2>2, <2>6, <2>8, <2>9, <2>10, <2>11, <2>12, <2>13,
         <2>14, <2>15, OneSession
  <1> QED
    BY <1>6, <1>7

\* A request looks up a token that lives and that a client holds.
LEMMA ExchangeKeeps ==
  ASSUME TypeInv, TypeInv', ChainInv, NEW c \in Calls, NEW t \in Tokens,
         NEW pc \in {"exchange", "rotate"}, Exchange(c, t, pc)
  PROVE  ChainInv'
  <1>1. TypeOK /\ TypeOK'
    BY DEF TypeInv
  <1>2. /\ t \in Given /\ Live(t) /\ Begin(c, pc, t, None)
        /\ UNCHANGED <<account, tokens, Given, ended, lapsed, outlived>>
    BY DEF Exchange, Valid, Rows, Given
  <1>3. tokens[t] # None /\ account = "open"
    BY <1>2 DEF Live, TypeInv, NothingDangles, Fresh
  <1>4. PICK r \in Tokens : r = tokens[t].root
    BY <1>1, <1>3 DEF TypeOK, Token
  <1>5. tokens[r] # None /\ LiveIn(t, r)
    BY <1>2, <1>3, <1>4 DEF ChainInv, RootsIssued, LiveIn
  <1>6. /\ calls[c] = None /\ calls'[c] # None
        /\ calls'[c].token = t /\ calls'[c].stored = None
        /\ \A d \in Calls \ {c} : calls'[d] = calls[d]
    BY <1>1, <1>2, BeginIs
  <1>7. GrownIn(r) /\ \A m, q \in Tokens : LiveIn(m, q)' <=> LiveIn(m, q)
    BY <1>2 DEF GrownIn, LiveIn, Live
  <1>8. /\ \A q \in Tokens : ~In(c, q)
        /\ \A q \in Tokens : In(c, q)' => q = r
        /\ In(c, r)'
    BY <1>2, <1>3, <1>4, <1>6, NoneApart DEF In
  <1>9. /\ forked \subseteq forked'
        /\ r \notin forked' => \A d \in Calls : calls[d] = None \/ calls[d].token # t
    BY <1>4 DEF Exchange, Exchanging
  <1>10. r \notin forked' => Straight(r)'
    <2>1. SUFFICES ASSUME r \notin forked' PROVE Straight(r)'
      OBVIOUS
    <2>2. Straight(r)
      BY <1>9, <2>1 DEF ChainInv
    <2>3. ASSUME NEW d \in Calls, In(d, r) PROVE FALSE
      <3>1. t \in {calls[d].token, calls[d].stored}
        BY <1>5, <2>2, <2>3 DEF Straight
      <3>2. calls[d] # None /\ calls[d].stored = t
        BY <1>9, <2>1, <2>3, <3>1 DEF In
      <3>3. t \notin Given
        BY <1>3, <3>2, NoneApart DEF ChainInv, Stored, StoredFor
      <3> QED
        BY <1>2, <3>3
    <2>4. \A m \in Tokens : LiveIn(m, r)' => m = t
      BY <1>5, <1>7, <2>2, <2>3 DEF Straight
    <2>5. \A d \in Calls : In(d, r)' => d = c
      <3>1. \A d \in Calls \ {c} : In(d, r)' <=> In(d, r)
        BY <1>3, <1>6, <1>7, OthersIn
      <3> QED
        BY <2>3, <3>1
    <2>6. ASSUME NEW d \in Calls, In(d, r)', NEW m \in Tokens, LiveIn(m, r)'
          PROVE  m \in {calls'[d].token, calls'[d].stored}
      <3>1. d = c /\ m = t
        BY <2>4, <2>5, <2>6
      <3> QED
        BY <1>6, <3>1
    <2>7. \A d, e \in Calls : In(d, r)' /\ In(e, r)' => d = e
      BY <2>5
    <2> QED
      BY <1>8, <2>6, <2>7 DEF Straight
  <1>11. r \in ended \ (forked' \cup outlived) => Over(r)'
    <2>1. r \notin ended \ (forked \cup outlived)
      BY <1>5 DEF ChainInv, Over
    <2> QED
      BY <1>9, <2>1
  <1>12. LiveIn(t, r)' /\ t \in Given'
    BY <1>2, <1>5, <1>7
  <1>13. Stored'
    <2>1. \A d \in Calls : calls'[d] # None /\ calls'[d].stored # None =>
             d # c /\ calls'[d] = calls[d]
      BY <1>6
    <2>2. ASSUME NEW d \in Calls, calls'[d] # None, calls'[d].stored # None
          PROVE  StoredFor(calls[d])'
      <3>1. calls'[d] = calls[d] /\ calls[d] # None /\ calls[d].stored # None
        BY <2>1, <2>2
      <3>2. calls[d].stored \notin Given
        BY <1>3, <3>1 DEF ChainInv, Stored, StoredFor
      <3>3. \A s \in Tokens : s = calls[d].stored => s \notin Given' /\ (Live(s) => Live(s)')
        BY <1>2, <3>2 DEF Live
      <3> QED
        BY <1>2, <1>3, <1>7, <3>1, <3>3, StoredForKept
    <2>3. \A d \in Calls : calls'[d] # None /\ calls'[d].token # None =>
                             calls'[d].token \in Given'
      BY <1>2, <1>6 DEF ChainInv, Stored
    <2>4. \A d, e \in Calls : calls'[d] # None /\ calls'[e] # None
             /\ calls'[d].stored # None /\ calls'[d].stored = calls'[e].stored => d = e
      BY <1>6 DEF ChainInv, Stored
    <2> QED
      BY <2>2, <2>3, <2>4 DEF Stored
  <1>14. \A m \in Given' : tokens'[m] # None
    BY <1>2, <1>3 DEF ChainInv, RootsIssued
  <1>15. \A m \in Tokens : Live(m)' <=> Live(m)
    BY <1>2 DEF Live
  <1>16. \A q \in Tokens \ {r} : ~In(c, q) /\ ~In(c, q)'
    BY <1>8
  <1>17. account' = "open" /\ Given \subseteq Given'
    BY <1>2, <1>3
  <1> QED
    BY <1>2, <1>3, <1>5, <1>6, <1>7, <1>9, <1>10, <1>11, <1>12, <1>13, <1>14, <1>15,
       <1>16, <1>17, OneSession

\* What was about to be revoked is not, and its session is forked.
LEMMA ExitKeeps ==
  ASSUME TypeInv, TypeInv', ChainInv, Exit
  PROVE  ChainInv'
  <1>1. TypeOK /\ TypeOK'
    BY DEF TypeInv
  <1>2. /\ \A c \in Calls : calls'[c] = None
        /\ UNCHANGED <<account, tokens, Given, ended, lapsed, outlived>>
    BY DEF Exit, Rows, Given
  <1>3. /\ forked \subseteq forked'
        /\ \A c \in Calls : At(c, "revoke") /\ tokens[calls[c].token] # None =>
               tokens[calls[c].token].root \in forked'
    BY DEF Exit
  <1>4. \A m, r \in Tokens : LiveIn(m, r)' <=> LiveIn(m, r)
    BY <1>2 DEF LiveIn, Live
  <1>5. \A c \in Calls, r \in Tokens : ~In(c, r)'
    BY <1>2 DEF In
  <1>6. ASSUME NEW r \in Tokens \ forked' PROVE Straight(r)'
    <2>1. Straight(r)
      BY <1>3, <1>6 DEF ChainInv
    <2>2. CASE \A c \in Calls : ~In(c, r)
      BY <1>4, <1>5, <2>1, <2>2 DEF Straight
    <2>3. ASSUME NEW c \in Calls, In(c, r) PROVE Straight(r)'
      <3>1. calls[c] # None /\ calls[c].pc # "revoke"
        BY <1>3, <1>6, <2>3 DEF In, At
      <3>2. calls[c].stored = None
        BY <3>1 DEF TypeInv, Memory, Fits
      <3>3. \A m \in Tokens : LiveIn(m, r) => m = calls[c].token
        BY <2>1, <2>3, <3>2, NoneApart DEF Straight
      <3> QED
        BY <1>4, <1>5, <3>3 DEF Straight
    <2> QED
      BY <2>2, <2>3
  <1>7. \A r \in ended' \ (forked' \cup outlived') : Over(r)'
    BY <1>1, <1>2, <1>3, <1>4, <1>5 DEF ChainInv, Over, TypeOK
  <1>8. RootsIssued' /\ Stored'
    BY <1>2 DEF ChainInv, RootsIssued, Stored
  <1>9. StillSignedIn'
    BY <1>2 DEF ChainInv, StillSignedIn, Roots, Fresh, Live
  <1> QED
    BY <1>6, <1>7, <1>8, <1>9 DEF ChainInv

\* Sessions end that no request exchanges a token of, or they are outlived.
LEMMA EndedOver ==
  ASSUME TypeInv, NEW rs, EndSessions(rs), NEW r \in rs, r \notin outlived',
         NEW c \in Calls
  PROVE  ~In(c, r)
  <1>1. ~ExchangedIn(r)
    BY DEF EndSessions
  <1>2. SUFFICES ASSUME In(c, r) PROVE FALSE
    OBVIOUS
  <1>3. calls[c] # None /\ calls[c].token # None
    BY <1>2 DEF In
  <1>4. calls[c].token \in Tokens
    BY <1>3, CallIs DEF TypeInv
  <1>5. c \in Exchanging(calls[c].token)
    BY <1>3 DEF Exchanging
  <1> QED
    BY <1>1, <1>2, <1>4, <1>5 DEF ExchangedIn, In

\* Sessions that have begun are those of the tokens.
LEMMA RootIs ==
  ASSUME TypeInv, ChainInv
  PROVE  /\ \A t \in Tokens : tokens[t] # None => tokens[t].root \in Roots
         /\ \A r \in Roots : r \in Tokens /\ tokens[r] # None
  BY RootsAre DEF TypeInv, Roots, Fresh, ChainInv, RootsIssued

\* Ending one session, or all
LEMMA EndingsKeep ==
  ASSUME TypeInv, TypeInv', ChainInv,
         \/ \E t \in Tokens : RevokeRefreshToken(t) \/ Expire(t)
         \/ Logout \/ UpdateUserPassword
  PROVE  ChainInv'
  <1>1. TypeOK /\ TypeOK'
    BY DEF TypeInv
  <1>2. UNCHANGED <<account, calls, Given, forked>>
    BY DEF RevokeRefreshToken, Expire, Logout, UpdateUserPassword, Given
  <1>3. TokenCallsStay
    BY <1>2 DEF TokenCallsStay
  <1>4. ASSUME NEW t \in Tokens, RevokeRefreshToken(t) PROVE ChainInv'
    <2>1. tokens[t] # None /\ tokens' = [tokens EXCEPT ![t].revoked = TRUE]
          /\ lapsed' = lapsed
      BY <1>4 DEF RevokeRefreshToken
    <2>2. SameRoots /\ \A m \in Tokens : Live(m)' <=> Live(m) /\ m # t
      BY <1>1, <2>1, RevokedIs
    <2>3. CASE ~Live(t)
      <3>1. UNCHANGED <<ended, outlived>>
        BY <1>4, <2>3 DEF RevokeRefreshToken
      <3> QED
        BY <1>2, <1>3, <2>1, <2>2, <2>3, <3>1, ShrinkKeeps
    <2>4. CASE Live(t)
      <3>1. PICK r \in Tokens : r = tokens[t].root /\ tokens[r] # None
        BY <1>1, <2>1 DEF TypeOK, Token, ChainInv, RootsIssued
      <3>2. EndSessions({r})
        BY <1>4, <2>4, <3>1 DEF RevokeRefreshToken
      <3>3. ended' = ended \cup {r} /\ outlived \subseteq outlived'
        BY <3>2 DEF EndSessions
      <3>4. ASSUME NEW q \in ended' \ (ended \cup forked \cup outlived')
            PROVE  Over(q)'
        <4>1. q = r
          BY <3>3, <3>4
        <4>2. \A c \in Calls : ~In(c, r)
          BY <3>2, <3>4, <4>1, EndedOver
        <4>3. \A m \in Tokens : LiveIn(m, r) => m = t
          BY <2>4, <3>1, <3>4, <4>1, <4>2 DEF ChainInv, Straight, LiveIn
        <4>4. \A m \in Tokens : ~LiveIn(m, r)'
          <5>1. \A m \in Tokens : LiveIn(m, r)' => LiveIn(m, r) /\ m # t
            BY <2>2 DEF LiveIn, Live, SameRoots
          <5> QED
            BY <4>3, <5>1
        <4>5. \A c \in Calls : ~In(c, r)'
          BY <1>3, <2>2, <4>2, InKept
        <4> QED
          BY <4>1, <4>4, <4>5 DEF Over
      <3>5. \A m \in Tokens : Live(m) /\ ~Live(m)' => tokens[m].root \in ended'
        BY <2>2, <3>1, <3>3
      <3> QED
        BY <1>2, <1>3, <2>1, <2>2, <3>1, <3>3, <3>4, <3>5, ShrinkKeeps
    <2> QED
      BY <2>3, <2>4
  <1>5. ASSUME NEW t \in Tokens, Expire(t) PROVE ChainInv'
    <2>1. /\ tokens[t] # None /\ tokens' = [tokens EXCEPT ![t].expired = TRUE]
          /\ lapsed' = lapsed \cup {tokens[t].root} /\ UNCHANGED <<ended, outlived>>
      BY <1>5 DEF Expire, Live
    <2>2. SameRoots /\ \A m \in Tokens : Live(m)' <=> Live(m) /\ m # t
      BY <1>1, <2>1, ExpiredIs
    <2> QED
      BY <1>2, <1>3, <2>1, <2>2, ShrinkKeeps
  <1>6. CASE Logout \/ UpdateUserPassword
    <2>1. lapsed' = lapsed
      BY <1>6 DEF Logout, UpdateUserPassword
    <2>2. CASE UNCHANGED <<tokens, ended, outlived>>
      BY <1>2, <1>3, <2>1, <2>2, AsideKeeps DEF Chains
    <2>3. CASE tokens' = AllRevoked /\ EndSessions(Roots)
      <3>1. SameRoots /\ \A m \in Tokens : ~Live(m)'
        BY <1>1, <2>3, LoggedOutIs
      <3>2. ended' = ended \cup Roots /\ outlived \subseteq outlived'
        BY <2>3 DEF EndSessions
      <3>3. ASSUME NEW q \in ended' \ (ended \cup forked \cup outlived')
            PROVE  Over(q)'
        <4>1. q \in Roots /\ q \in Tokens
          BY <3>2, <3>3, RootIs
        <4>2. \A c \in Calls : ~In(c, q)
          BY <2>3, <3>3, <4>1, EndedOver
        <4>3. \A c \in Calls : ~In(c, q)'
          BY <1>3, <3>1, <4>1, <4>2, InKept
        <4> QED
          BY <3>1, <4>3 DEF Over, LiveIn
      <3>4. \A m \in Tokens : Live(m) => tokens[m].root \in ended'
        BY <3>2, RootIs DEF Live
      <3>5. \A r \in ended' \ ended : tokens[r] # None
        BY <3>2, RootIs
      <3> QED
        BY <1>2, <1>3, <2>1, <3>1, <3>2, <3>3, <3>4, <3>5, ShrinkKeeps
    <2> QED
      BY <1>6, <2>2, <2>3 DEF Logout, UpdateUserPassword
  <1> QED
    BY <1>4, <1>5, <1>6

\* A session begins.
LEMMA StoreTokenKeeps ==
  ASSUME TypeInv, TypeInv', ChainInv, NEW c \in Calls, StoreToken(c)
  PROVE  ChainInv'
  <1>1. TypeOK
    BY DEF TypeInv
  <1>2. /\ calls[c] # None /\ calls[c].pc \in {"store", "persist", "oauth"}
        /\ End(c) /\ UNCHANGED <<account, Chains>>
    BY DEF StoreToken, At
  <1>3. TokenCallsStay
    BY <1>2, EndedWithout
  <1>4. CASE account # "open"
    <2>1. UNCHANGED <<tokens, Given>>
      BY <1>4 DEF StoreToken, MayStore, Given
    <2> QED
      BY <1>2, <1>3, <2>1, AsideKeeps
  <1>5. CASE account = "open"
    <2>1. PICK n \in Fresh :
             /\ tokens' = [tokens EXCEPT ![n] =
                    New(n, IF At(c, "persist") THEN "rest" ELSE "graphql")]
             /\ Given' = Given \cup {n}
      BY <1>5 DEF StoreToken, MayStore, Given
    <2>2. n \in Tokens /\ tokens[n] = None
      BY DEF Fresh
    <2>3. Grown(n, n) /\ \A m \in Tokens : Live(m)' <=> Live(m) \/ m = n
      BY <1>1, <2>1, <2>2, StartedIs
    <2>4. account' = "open" /\ UNCHANGED <<ended, lapsed, forked, outlived>>
      BY <1>2, <1>5 DEF Chains
    <2> QED
      BY <1>3, <1>5, <2>1, <2>2, <2>3, <2>4, StartKeeps
  <1> QED
    BY <1>4, <1>5

\* Signing up begins a session.
LEMMA SignUpKeeps ==
  ASSUME TypeInv, TypeInv', ChainInv, NEW t \in Tokens, SignUp(t)
  PROVE  ChainInv'
  <1>1. TypeOK
    BY DEF TypeInv
  <1>2. /\ account = "new" /\ account' = "open" /\ Given' = Given \cup {t}
        /\ tokens' = [tokens EXCEPT ![t] = New(t, "graphql")]
        /\ UNCHANGED <<calls, ended, lapsed, forked, outlived>>
    BY DEF SignUp, Chains, Given
  <1>3. tokens[t] = None
    BY <1>2, NewHasNothing
  <1>4. Grown(t, t) /\ \A m \in Tokens : Live(m)' <=> Live(m) \/ m = t
    BY <1>1, <1>2, <1>3, StartedIs
  <1>5. TokenCallsStay
    BY <1>2 DEF TokenCallsStay
  <1> QED
    BY <1>2, <1>4, <1>5, StartKeeps

\* Resetting the password ends all sessions and begins one.
LEMMA CommitResetKeeps ==
  ASSUME TypeInv, TypeInv', ChainInv, NEW c \in Calls, CommitReset(c)
  PROVE  ChainInv'
  <1>1. TypeOK
    BY DEF TypeInv
  <1>2. /\ calls[c] # None /\ calls[c].pc = "reset"
        /\ End(c) /\ UNCHANGED <<account, lapsed, forked>>
    BY DEF CommitReset, At
  <1>3. TokenCallsStay
    BY <1>2, EndedWithout
  <1>4. CASE account # "open"
    <2>1. UNCHANGED <<tokens, Given, Chains>>
      BY <1>2, <1>4 DEF CommitReset, MayStore, Chains, Given
    <2> QED
      BY <1>2, <1>3, <2>1, AsideKeeps
  <1>5. CASE account = "open"
    <2>1. PICK n \in Fresh :
             /\ tokens' = [AllRevoked EXCEPT ![n] = New(n, "graphql")]
             /\ Given' = Given \cup {n}
      BY <1>5 DEF CommitReset, MayStore, Given
    <2>2. n \in Tokens /\ tokens[n] = None
      BY DEF Fresh
    <2>3. Grown(n, n) /\ \A m \in Tokens : Live(m)' <=> m = n
      BY <1>1, <2>1, <2>2, RestartedIs
    <2>4. EndSessions(Roots)
      BY <1>5 DEF CommitReset, MayStore
    <2>5. ended' = ended \cup Roots /\ outlived \subseteq outlived'
      BY <2>4 DEF EndSessions
    <2>6. ASSUME NEW r \in ended' \ (ended \cup forked \cup outlived')
          PROVE  /\ \A m \in Tokens : ~LiveIn(m, r)'
                 /\ \A d \in Calls : ~In(d, r)
      <3>1. r \in Roots /\ r \in Tokens /\ tokens[r] # None
        BY <2>5, <2>6, RootIs
      <3>2. r # n
        BY <2>2, <3>1
      <3>3. \A d \in Calls : ~In(d, r)
        BY <2>4, <2>6, <3>1, EndedOver
      <3> QED
        BY <2>3, <3>2, <3>3 DEF LiveIn, Grown
    <2>7. \A m \in Tokens : Live(m) => tokens[m].root \in ended'
      BY <2>5, RootIs DEF Live
    <2>8. \A r \in ended' \ ended : tokens[r] # None
      BY <2>5, RootIs
    <2> QED
      BY <1>2, <1>3, <1>5, <2>1, <2>2, <2>3, <2>5, <2>6, <2>7, <2>8, StartKeeps
  <1> QED
    BY <1>4, <1>5

\* The deletion of the user deletes the tokens.
LEMMA DeleteUserKeeps ==
  ASSUME TypeInv', ChainInv, DeleteUser
  PROVE  ChainInv'
  <1>1. account' = "deleted" /\ UNCHANGED <<calls, Given>>
    BY DEF DeleteUser, Given
  <1> QED
    BY <1>1, ClosedKeeps DEF ChainInv, Stored

\* Requests that begin without a token do not matter to sessions.
LEMMA RequestsKeep ==
  ASSUME TypeInv, TypeInv', ChainInv, NEW c \in Calls, Request(c)
  PROVE  ChainInv'
  <1>1. TypeOK
    BY DEF TypeInv
  <1>2. ASSUME UNCHANGED <<tokens, Given, Chains>>,
               account' # "deleted" => account # "deleted",
               NEW x \in Resets \cup {None},
               NEW pc \in {"wrong", "right", "oauth", "store", "persist", "request",
                           "reset"},
               Begin(c, pc, None, x)
        PROVE  ChainInv'
    <2>1. TokenCallsStay
      BY <1>1, <1>2, BegunWithout
    <2> QED
      BY <1>2, <2>1, AsideKeeps
  <1>3. CASE RestSignUp(c)
    <2>1. /\ UNCHANGED <<tokens, Given, Chains>> /\ account = "new"
          /\ Begin(c, "persist", None, None)
      BY <1>3 DEF RestSignUp, Given
    <2> QED
      BY <1>2, <2>1
  <1>4. CASE SignIn(c)
    <2>1. UNCHANGED <<tokens, Given, Chains>> /\ UNCHANGED account
      BY <1>4 DEF SignIn, Rows, Given
    <2>2. CASE Begin(c, "wrong", None, None)
      BY <1>2, <2>1, <2>2
    <2>3. CASE Begin(c, AfterPassword("right"), None, None)
      BY <1>2, <2>1, <2>3 DEF AfterPassword
    <2> QED
      BY <1>4, <2>2, <2>3 DEF SignIn
  <1>5. CASE RestSignIn(c) \/ SignInWithOAuth(c)
    <2>1. UNCHANGED <<tokens, Given, Chains>> /\ UNCHANGED account
      BY <1>5 DEF RestSignIn, SignInWithOAuth, Rows, Given
    <2>2. CASE Begin(c, "persist", None, None)
      BY <1>2, <2>1, <2>2
    <2>3. CASE Begin(c, AfterPassword("oauth"), None, None)
      BY <1>2, <2>1, <2>3 DEF AfterPassword
    <2> QED
      BY <1>5, <2>2, <2>3 DEF RestSignIn, SignInWithOAuth
  <1>6. CASE RequestPasswordReset(c)
    <2>1. CASE account = "open"
      <3>1. /\ UNCHANGED <<tokens, Given, Chains>> /\ UNCHANGED account
            /\ Begin(c, "request", None, None)
        BY <1>6, <2>1 DEF RequestPasswordReset, Given
      <3> QED
        BY <1>2, <3>1
    <2>2. CASE account # "open"
      <3>1. UNCHANGED <<tokens, Given, Chains>> /\ UNCHANGED <<account, calls>>
        BY <1>6, <2>2 DEF RequestPasswordReset, vars, Rows, Chains, Given
      <3>2. TokenCallsStay
        BY <3>1 DEF TokenCallsStay
      <3> QED
        BY <3>1, <3>2, AsideKeeps
    <2> QED
      BY <2>1, <2>2
  <1>7. ASSUME NEW x \in Resets, ResetPassword(c, x) PROVE ChainInv'
    <2>1. /\ UNCHANGED <<tokens, Given, Chains>> /\ UNCHANGED account
          /\ Begin(c, "reset", None, x)
      BY <1>7 DEF ResetPassword, Rows, Given
    <2> QED
      BY <1>2, <2>1
  <1> QED
    BY <1>3, <1>4, <1>5, <1>6, <1>7, ExchangeKeeps DEF Request

\* Every step keeps what is known of sessions.
LEMMA NextChain == TypeInv /\ TypeInv' /\ ChainInv /\ [Next]_vars => ChainInv'
  <1> SUFFICES ASSUME TypeInv, TypeInv', ChainInv, [Next]_vars PROVE ChainInv'
    OBVIOUS
  <1>1. ASSUME NEW c \in Calls, RecordWrong(c) \/ RecordRight(c) \/ StoreReset(c)
        PROVE  ChainInv'
    <2>1. UNCHANGED <<account, tokens, Given, Chains>>
      BY <1>1 DEF RecordWrong, RecordRight, StoreReset, Given
    <2>2. /\ calls[c] # None /\ calls[c].pc \in {"wrong", "right", "request"}
          /\ End(c) \/ Goto(c, "store")
      BY <1>1 DEF RecordWrong, RecordRight, StoreReset, At
    <2>3. TokenCallsStay
      BY <2>2, EndedWithout
    <2> QED
      BY <2>1, <2>3, AsideKeeps
  <1>2. ASSUME NEW c \in Calls, Step(c) PROVE ChainInv'
    BY <1>1, <1>2, StoreTokenKeeps, RefreshTokenKeeps, PersistKeeps,
       RevokeRotatedKeeps, CommitResetKeeps DEF Step
  <1>3. ASSUME UNCHANGED <<account, tokens, Given, Chains>>, UNCHANGED calls
        PROVE  ChainInv'
    <2>1. TokenCallsStay
      BY <1>3 DEF TokenCallsStay
    <2> QED
      BY <1>3, <2>1, AsideKeeps
  <1>4. CASE LockPasses \/ UNCHANGED vars
    BY <1>3, <1>4 DEF LockPasses, vars, Rows, Given
  <1>5. ASSUME NEW x \in Resets, ExpireReset(x) PROVE ChainInv'
    BY <1>3, <1>5 DEF ExpireReset, Given
  <1>6. ASSUME NEW t \in Tokens, Answer(t) \/ AnswerLost(t) PROVE ChainInv'
    <2>1. Given' = Given
      BY <1>6 DEF Answer, AnswerLost, Given
    <2> QED
      BY <1>3, <1>6, <2>1 DEF Answer, AnswerLost, Rows
  <1> QED
    BY <1>2, <1>4, <1>5, <1>6, RequestsKeep, SignUpKeeps, EndingsKeep, DeleteUserKeeps,
       ExitKeeps DEF Next

\* What is known of sessions holds.
LEMMA ChainAlways == Spec => []ChainInv
  <1>1. Init => ChainInv
    <2> SUFFICES ASSUME Init PROVE ChainInv
      OBVIOUS
    <2>1. RootsIssued /\ Stored /\ StillSignedIn
      BY DEF Init, RootsIssued, Stored, StillSignedIn, Roots, Fresh, Given
    <2>2. \A r \in Tokens : Straight(r)
      BY DEF Init, Straight, In, LiveIn, Live
    <2> QED
      BY <2>1, <2>2 DEF ChainInv, Init
  <1> QED
    BY <1>1, NextChain, TypeAlways, PTL DEF Spec

\* A session has one live token, or two while the old one is about to be revoked,
\* unless two exchanges of one token overlapped or a revocation was lost.
THEOREM OneLiveToken == Spec => []OneLive
  <1>1. TypeInv /\ ChainInv => OneLive
    <2> SUFFICES ASSUME TypeInv, ChainInv, NEW t \in Tokens, NEW n \in Tokens,
                        Live(t), Live(n), t # n, tokens[t].root = tokens[n].root,
                        tokens[t].root \notin forked
                 PROVE  \E c \in Calls : At(c, "revoke") /\ calls[c].token \in {t, n}
      BY DEF OneLive
    <2>1. PICK r \in Tokens : r = tokens[t].root
      BY DEF TypeInv, TypeOK, Live, Token
    <2>2. Straight(r) /\ LiveIn(t, r) /\ LiveIn(n, r)
      BY <2>1 DEF ChainInv, LiveIn
    <2>3. PICK c \in Calls : In(c, r)
      BY <2>2 DEF Straight
    <2>4. {t, n} \subseteq {calls[c].token, calls[c].stored}
      BY <2>2, <2>3 DEF Straight
    <2>5. calls[c] # None /\ calls[c].stored # None
      BY <2>3, <2>4, NoneApart DEF In
    <2>6. calls[c].pc = "revoke"
      BY <2>5 DEF TypeInv, Memory, Fits
    <2> QED
      BY <2>4, <2>5, <2>6 DEF At
  <1> QED
    BY <1>1, TypeAlways, ChainAlways, PTL

\* The live token of a session that goes on is with a client or on its way to
\* one, unless the answer that returned it was lost: not through overlapping
\* exchanges, failed revocations, or crashes before the answer is due.
THEOREM ClientsStaySignedIn == Spec => []StillSignedIn
  <1>1. ChainInv => StillSignedIn
    BY DEF ChainInv
  <1> QED
    BY <1>1, ChainAlways, PTL

\* A session that was signed out stays signed out, unless one of its tokens was
\* being exchanged or it was forked.
THEOREM SignedOutForGood == Spec => []EndedStaysEnded
  <1>1. ChainInv => EndedStaysEnded
    BY DEF ChainInv, Over, LiveIn, EndedStaysEnded
  <1> QED
    BY <1>1, ChainAlways, PTL
=============================================================================
