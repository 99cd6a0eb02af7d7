----------------------------- MODULE UploadAuth -----------------------------
(***************************************************************************)
(* One target's requests with their credentials: Auth's cached token and   *)
(* its expiry margin, the login, and the single retry of postJSON and      *)
(* getJSON after a 401.  The server issues tokens, lets them expire, may   *)
(* revoke them at any time, and fails as it likes.  All requests of a      *)
(* target come from one goroutine at a time.                               *)
(*                                                                         *)
(* Time is the server's; the client reads it with an error that changes    *)
(* when its clock is set.                                                  *)
(*                                                                         *)
(* UploaderProofs extends this module and Uploader, so their names differ. *)
(***************************************************************************)
EXTENDS Integers

CONSTANTS
  NoToken,
  Life,      \* how long the server accepts a token
  Margin,    \* expiryMargin
  MaxWait,   \* the longest a request takes, its timeout
  MaxSkew,   \* the client's clock is this exact
  MaxTime    \* bound of the model: the end of time

ASSUME UploadAuthAssumption ==
  /\ Life \in Nat /\ Margin \in Nat
  /\ MaxWait \in Nat /\ MaxSkew \in Nat /\ MaxTime \in Nat
  /\ NoToken \notin [expiry : Nat, claimed : Nat, valid : BOOLEAN]

ASSUME MarginSuffices == Margin > MaxSkew + MaxWait /\ Life > 2 * MaxWait

Skews == (0 - MaxSkew) .. MaxSkew

VARIABLES
  usable,    \* credentials are there and the URL is safe to send them to
  bearer,    \* an api_key is set: no login, no cache
  keyGood,   \* the server accepts the api_key
  token,     \* the cached token, its expiry, what its exp claim reads as
  offer,     \* a token the server has issued to the login under way
  now, skew,
  stage,     \* "idle", "header", "login", "issued", "sent", "accepted", "denied"
  attempt,
  waited,    \* how long the current HTTP request has taken
  executed,  \* how often the server has carried out this call
  result,    \* of the call before
  fault      \* history: more went wrong in this call than one refused token

setup == <<usable, bearer>>
clock == <<now, skew>>
call == <<stage, attempt, waited, executed, result>>
authVars == <<setup, keyGood, token, offer, clock, call, fault>>

\* An exp claim that cannot be read counts as the zero time.
Token == [expiry : Nat, claimed : Nat, valid : BOOLEAN]

AuthTypeOK ==
  /\ usable \in BOOLEAN /\ bearer \in BOOLEAN /\ keyGood \in BOOLEAN /\ fault \in BOOLEAN
  /\ token \in Token \cup {NoToken} /\ offer \in Token \cup {NoToken}
  /\ now \in 0..MaxTime /\ skew \in Skews
  /\ stage \in {"idle", "header", "login", "issued", "sent", "accepted", "denied"}
  /\ attempt \in {0, 1} /\ waited \in 0..MaxWait /\ executed \in {0, 1}
  /\ result \in {"none", "ok", "failed"}

AuthInit ==
  /\ usable \in BOOLEAN /\ bearer \in BOOLEAN /\ keyGood \in BOOLEAN
  /\ token = NoToken /\ offer = NoToken
  /\ now = 0 /\ skew \in Skews
  /\ stage = "idle" /\ attempt = 0 /\ waited = 0 /\ executed = 0
  /\ result = "none" /\ fault = FALSE

-----------------------------------------------------------------------------
(* The environment *)

\* Time passes, within a request no longer than its timeout.
TimePasses ==
  /\ now < MaxTime
  /\ now' = now + 1
  /\ \/ stage \in {"idle", "header"} /\ UNCHANGED waited
     \/ stage \notin {"idle", "header"} /\ waited < MaxWait /\ waited' = waited + 1
  /\ UNCHANGED <<setup, keyGood, token, offer, skew, stage, attempt, executed, result, fault>>

SetClock ==
  /\ skew' \in Skews
  /\ UNCHANGED <<setup, keyGood, token, offer, now, call, fault>>

Revoked(t) == IF t = NoToken THEN NoToken ELSE [t EXCEPT !.valid = FALSE]

\* The server forgets its tokens, or the api_key is withdrawn or restored.  That
\* a retry meets this again, with the token it has just fetched, is bad luck.
Revoke ==
  /\ token' = Revoked(token) /\ offer' = Revoked(offer)
  /\ keyGood' \in BOOLEAN
  /\ fault' = (fault \/ (attempt = 1 /\ stage \in {"issued", "sent"}))
  /\ UNCHANGED <<setup, clock, call>>

-----------------------------------------------------------------------------
(* postJSON and getJSON, with GetAuthHeader, login and Invalidate *)

Call ==
  /\ stage = "idle"
  /\ stage' = "header" /\ attempt' = 0 /\ executed' = 0 /\ result' = "none" /\ fault' = FALSE
  /\ UNCHANGED <<setup, keyGood, token, offer, clock, waited>>

Finish(r) ==
  /\ stage' = "idle" /\ result' = r /\ offer' = NoToken /\ waited' = 0
  /\ UNCHANGED <<setup, keyGood, token, clock, attempt, executed>>

\* Connection errors, timeouts, unreadable answers, other status codes.
CallFails == Finish("failed") /\ fault' = TRUE

\* Mutant: a token is used until it expires.
Cached_NoMargin == token # NoToken /\ now + skew <= token.claimed

Cached == token # NoToken /\ now + skew <= token.claimed - Margin

NotConfigured ==
  /\ stage = "header" /\ ~usable
  /\ Finish("failed") /\ UNCHANGED fault

\* GetAuthHeader: the api_key, the cached token, or a login first.
GetAuthHeader ==
  /\ stage = "header" /\ usable
  /\ stage' = IF bearer \/ Cached THEN "sent" ELSE "login"
  /\ waited' = 0
  /\ UNCHANGED <<setup, keyGood, token, offer, clock, attempt, executed, result, fault>>

\* The server's side of POST /login.
Issue ==
  /\ stage = "login"
  /\ stage' = "issued"
  /\ \E c \in {now + Life, 0} :
       offer' = [expiry |-> now + Life, claimed |-> c, valid |-> TRUE]
  /\ UNCHANGED <<setup, keyGood, token, clock, attempt, waited, executed, result, fault>>

\* Refused, lost or unreadable; the old token stays.
LoginFails == stage \in {"login", "issued"} /\ CallFails

LoggedIn ==
  /\ stage = "issued"
  /\ token' = offer /\ offer' = NoToken
  /\ stage' = "sent" /\ waited' = 0
  /\ UNCHANGED <<setup, keyGood, clock, attempt, executed, result, fault>>

Accepts == IF bearer THEN keyGood ELSE token.valid /\ now < token.expiry

\* The server carries the request out, or answers 401 without doing so.
Serve ==
  /\ stage = "sent"
  /\ \/ Accepts /\ stage' = "accepted" /\ executed' = executed + 1
     \/ ~Accepts /\ stage' = "denied" /\ UNCHANGED executed
  /\ UNCHANGED <<setup, keyGood, token, offer, clock, attempt, waited, result, fault>>

\* Mutant: a lost answer is retried as well.
Lost_Retries ==
  /\ stage \in {"sent", "accepted", "denied"}
  /\ \/ attempt = 1 /\ CallFails
     \/ /\ attempt = 0
        /\ stage' = "header" /\ attempt' = 1
        /\ UNCHANGED <<setup, keyGood, token, offer, clock, waited, executed, result, fault>>

\* No answer, or one that is neither a success nor a 401.
Lost == stage \in {"sent", "accepted", "denied"} /\ CallFails

Succeeds == stage = "accepted" /\ Finish("ok") /\ UNCHANGED fault

\* Mutant: the refused token stays in the cache.
Retry_KeepsToken ==
  /\ stage = "denied" /\ attempt = 0
  /\ stage' = "header" /\ attempt' = 1
  /\ UNCHANGED <<setup, keyGood, token, offer, clock, waited, executed, result, fault>>

\* The first 401: Invalidate and once more.
Retry ==
  /\ stage = "denied" /\ attempt = 0
  /\ token' = IF bearer THEN token ELSE NoToken
  /\ stage' = "header" /\ attempt' = 1
  /\ UNCHANGED <<setup, keyGood, offer, clock, waited, executed, result, fault>>

Denied == stage = "denied" /\ attempt = 1 /\ Finish("failed") /\ UNCHANGED fault

-----------------------------------------------------------------------------

AuthNext ==
  \/ TimePasses \/ SetClock \/ Revoke
  \/ Call \/ NotConfigured \/ GetAuthHeader
  \/ Issue \/ LoginFails \/ LoggedIn
  \/ Serve \/ Lost \/ Succeeds \/ Retry \/ Denied

AuthSpec == AuthInit /\ [][AuthNext]_authVars

-----------------------------------------------------------------------------
(* Properties *)

Contract == INSTANCE RequestContract WITH busy <- stage # "idle"

\* The retry makes no request happen twice: a call is carried out at most once,
\* and exactly once when it reports success (target.go:341-433).  Uploader's
\* batches rest on this.
ImplementsRequest == Contract!Spec

\* One refused token never costs a call: with a password, a call fails only if a
\* login or an answer failed, or the new token was revoked at once
\* (target.go:372-376, auth.go:153-161).
HealsInOneCall == stage = "idle" /\ result = "failed" /\ usable /\ ~bearer => fault

\* No token expires on its way: whatever the client's clock reads within
\* MaxSkew, the margin outlasts the request (auth.go:48, 142).
InFlightFresh == stage = "sent" /\ ~bearer => now < token.expiry
=============================================================================
