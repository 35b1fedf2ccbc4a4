----------------------------- MODULE TokenStore ----------------------------
(***************************************************************************)
(* The broker's one stored OAuth token: the keyring record and the         *)
(* persisting token source of internal/auth/store.go, which every request  *)
(* opens anew (gmailapi.New), and `auth login` of cmd/safe-gmaild/main.go  *)
(* with the flow of internal/auth/flow.go, which runs in a process of its  *)
(* own while the daemon serves.  Nothing locks the record.                 *)
(*                                                                         *)
(* Google is external.  A consent is a grant; a grant has one refresh      *)
(* token at a time (rotation counts its replacements, if Google replaces   *)
(* it at every refresh) and any number of access tokens, numbered as they  *)
(* are issued.  A login run is named after its grant.                      *)
(***************************************************************************)
EXTENDS Integers, Sequences, FiniteSets

CONSTANTS
    Requests,        \* requests in flight; each slot serves one at a time
    Logins,          \* runs of `auth login`
    FirstGrant,      \* the grant of a login before these
    Blank,           \* an empty refresh_token
    Accounts, Owner, \* Google accounts; the configured account_email
    MaxIssued,       \* bound: access tokens issued
    MaxFailures,     \* bound: Save calls that fail, refreshes whose answer is
                     \* lost, crashes of the daemon
    None

ASSUME TokenAssumption ==
    /\ FirstGrant \notin Logins /\ Blank \notin Logins \cup {FirstGrant}
    /\ Owner \in Accounts
    /\ {MaxIssued, MaxFailures} \subseteq Nat

Grants == Logins \cup {FirstGrant}

\* oauth2.Token and tokenRecord: the refresh token is a grant and its rotation.
Token == [grant : Grants \cup {Blank}, rotation : Nat, access : Nat]

ASSUME NoneIsNoToken == None \notin Token /\ None \notin Grants

VARIABLES
    stored,      \* the keyring's record
    issued,      \* Google: access tokens issued so far
    live,        \* Google: those that have not expired
    rotation,    \* Google: the rotation of each grant's refresh token
    rotates,     \* Google: whether a refresh replaces the refresh token
    account,     \* Google: the account each consent was given for
    pc, tok,     \* each request: what it does, the token its source holds
    got,         \* each request: what a refresh returned, not yet saved
    lpc,         \* each login: what it does
    pasted,      \* each login: the flow the pasted redirect URL came from
    fetched,     \* each login: the token its code was exchanged for
    logins,      \* history: logins that reported a stored token, in order
    quiet,       \* history: no request was under way when the last one did
    failures

google  == <<issued, live, rotation, rotates, account>>
request == <<pc, tok, got>>
login   == <<lpc, pasted, fetched, logins, quiet>>
vars    == <<stored, google, request, login, failures>>

Issue == issued < MaxIssued /\ issued' = issued + 1 /\ live' = live \cup {issued'}

Init ==
    /\ stored \in {None, [grant |-> FirstGrant, rotation |-> 0, access |-> 0]}
    /\ issued = 0 /\ live \in {{}, {0}}
    /\ rotation = [g \in Grants |-> 0] /\ account \in [Grants -> Accounts]
    /\ rotates \in BOOLEAN /\ account[FirstGrant] = Owner
    /\ pc = [r \in Requests |-> "idle"] /\ tok = [r \in Requests |-> None]
    /\ got = [r \in Requests |-> None]
    /\ lpc = [l \in Logins |-> "new"] /\ pasted = [l \in Logins |-> None]
    /\ fetched = [l \in Logins |-> None] /\ logins = <<>> /\ quiet = TRUE
    /\ failures = 0

-----------------------------------------------------------------------------
(***************************************************************************)
(* Save: a token without a refresh token is refused; the keyring may fail. *)
(***************************************************************************)
SaveFails(t) ==
    \/ t.grant = Blank /\ UNCHANGED failures
    \/ failures < MaxFailures /\ failures' = failures + 1

Save(t) == t.grant # Blank /\ stored' = t /\ UNCHANGED failures

(***************************************************************************)
(* One request's token source.                                             *)
(***************************************************************************)

\* A mutant: the token source outlives its request.
LoadedToken_Cached(r) == IF tok[r] = None THEN stored ELSE tok[r]

\* TokenSource reads the record for every request.
LoadedToken(r) == stored

\* A request opens the Gmail client; without a record it ends there.
Load(r) ==
    /\ pc[r] = "idle" /\ LoadedToken(r) # None
    /\ pc' = [pc EXCEPT ![r] = "open"]
    /\ tok' = [tok EXCEPT ![r] = LoadedToken(r)]
    /\ UNCHANGED <<stored, google, got, login, failures>>

\* Token(): an access token that has not expired is used again, and the record
\* is not written since nothing changed.  One that has is to be refreshed.
NeedRefresh(r) ==
    /\ pc[r] = "open" /\ tok[r].access \notin live
    /\ pc' = [pc EXCEPT ![r] = "refreshing"]
    /\ UNCHANGED <<stored, google, tok, got, login, failures>>

\* Google's answer: a new access token, with the refresh token, or with one that
\* replaces it, or without one.
Refresh(r) ==
    LET g == tok[r].grant IN
    /\ pc[r] = "refreshing" /\ tok[r].rotation = rotation[g]
    /\ Issue
    /\ \E answered \in {g} \cup (IF rotates THEN {} ELSE {Blank}) :
          LET n == IF rotates THEN rotation[g] + 1 ELSE rotation[g] IN
          /\ rotation' = [rotation EXCEPT ![g] = n]
          /\ got' = [got EXCEPT ![r] = [grant |-> answered, rotation |-> n,
                                        access |-> issued']]
    /\ pc' = [pc EXCEPT ![r] = "refreshed"]
    /\ UNCHANGED <<stored, rotates, account, tok, login, failures>>

\* Google has done the same, but its answer is lost, or comes after the 10 s of the
\* HTTP client or the request's 30 s: what replaced the refresh token is unknown.
LoseRefresh(r) ==
    LET g == tok[r].grant IN
    /\ pc[r] = "refreshing" /\ tok[r].rotation = rotation[g]
    /\ failures < MaxFailures /\ failures' = failures + 1
    /\ Issue
    /\ rotation' = [rotation EXCEPT ![g] = IF rotates THEN @ + 1 ELSE @]
    /\ pc' = [pc EXCEPT ![r] = "idle"]
    /\ UNCHANGED <<stored, rotates, account, tok, got, login>>

\* The refresh token is not accepted any more, or Google is not reached.
RefreshFails(r) ==
    /\ pc[r] = "refreshing"
    /\ pc' = [pc EXCEPT ![r] = "idle"]
    /\ UNCHANGED <<stored, google, tok, got, login, failures>>

\* A mutant: the refresh token is kept whatever Google answered.
Normalized_KeepsOld(r) ==
    [got[r] EXCEPT !.grant = tok[r].grant, !.rotation = tok[r].rotation]

\* An answer without a refresh token keeps the one in use.
Normalized(r) ==
    IF got[r].grant = Blank
    THEN [got[r] EXCEPT !.grant = tok[r].grant, !.rotation = tok[r].rotation]
    ELSE got[r]

\* The rest of Token(): what changed is saved, and a failure to is ignored.
Persist(r) ==
    /\ pc[r] = "refreshed"
    /\ IF tok[r] = Normalized(r) THEN UNCHANGED <<stored, failures>>
       ELSE Save(Normalized(r)) \/ (SaveFails(Normalized(r)) /\ UNCHANGED stored)
    /\ tok' = [tok EXCEPT ![r] = Normalized(r)]
    /\ got' = [got EXCEPT ![r] = None]
    /\ pc' = [pc EXCEPT ![r] = "open"]
    /\ UNCHANGED <<google, login>>

EndRequest(r) ==
    /\ pc[r] = "open" /\ pc' = [pc EXCEPT ![r] = "idle"]
    /\ UNCHANGED <<stored, google, tok, got, login, failures>>

\* The daemon exits, whatever its requests are doing, and is started again.
Crash ==
    /\ failures < MaxFailures /\ failures' = failures + 1
    /\ pc' = [r \in Requests |-> "idle"]
    /\ tok' = [r \in Requests |-> None] /\ got' = [r \in Requests |-> None]
    /\ UNCHANGED <<stored, google, login>>

Expire ==
    /\ \E a \in live : live' = live \ {a}
    /\ UNCHANGED <<stored, issued, rotation, rotates, account, request, login, failures>>

-----------------------------------------------------------------------------
(***************************************************************************)
(* A run of `auth login`.                                                  *)
(***************************************************************************)
Moves(l, from, to) == lpc[l] = from /\ lpc' = [lpc EXCEPT ![l] = to]

\* The consent URL is printed; a redirect URL is pasted, of this flow or of
\* another one the operator has open.
Paste(l) ==
    /\ Moves(l, "new", "pasted")
    /\ \E f \in Logins : (f = l \/ lpc[f] # "new") /\ pasted' = [pasted EXCEPT ![l] = f]
    /\ UNCHANGED <<stored, google, request, fetched, logins, quiet, failures>>

\* ExchangeRedirect: the state must be this flow's, the code is redeemed, and
\* Google leaves the refresh token out unless consent was asked for again.
Exchange(l) ==
    /\ pasted[l] = l
    /\ Moves(l, "pasted", "exchanged")
    /\ Issue
    /\ fetched' = [fetched EXCEPT ![l] = [grant |-> l, rotation |-> 0, access |-> issued']]
    /\ UNCHANGED <<stored, rotation, rotates, account, request, pasted, logins, quiet, failures>>

\* A mutant: any account will do.
IsOwner_Any(t) == TRUE

\* The token's Gmail profile is the configured account.
IsOwner(t) == account[t.grant] = Owner

CheckProfile(l) ==
    /\ Moves(l, "exchanged", "checked")
    /\ IsOwner(fetched[l])
    /\ UNCHANGED <<stored, google, request, pasted, fetched, logins, quiet, failures>>

\* The record is written, and the operator is told so.
StoreLogin(l) ==
    /\ Moves(l, "checked", "done")
    /\ Save(fetched[l])
    /\ logins' = Append(logins, l)
    /\ quiet' = (\A r \in Requests : pc[r] = "idle")
    /\ UNCHANGED <<google, request, pasted, fetched>>

\* State mismatch, no refresh token, another account, a call or a save failed.
LoginFails(l) ==
    /\ \/ Moves(l, "pasted", "failed") \/ Moves(l, "exchanged", "failed")
       \/ Moves(l, "checked", "failed")
    /\ UNCHANGED <<stored, google, request, pasted, fetched, logins, quiet, failures>>

Next ==
    \/ \E r \in Requests :
          \/ Load(r) \/ NeedRefresh(r) \/ Refresh(r) \/ LoseRefresh(r)
          \/ RefreshFails(r) \/ Persist(r) \/ EndRequest(r)
    \/ \E l \in Logins :
          Paste(l) \/ Exchange(l) \/ CheckProfile(l) \/ StoreLogin(l) \/ LoginFails(l)
    \/ Crash \/ Expire

Spec == Init /\ [][Next]_vars

-----------------------------------------------------------------------------

TokenOrNone == Token \cup {None}
Refreshable(t) == t # None => t \in Token /\ t.grant # Blank

\* The variables have the types their comments say; what is stored, and what a
\* token source holds, can be refreshed.
TypeOK ==
    /\ Refreshable(stored) /\ \A r \in Requests : Refreshable(tok[r])
    /\ issued \in 0 .. MaxIssued /\ live \subseteq 0 .. issued
    /\ rotation \in [Grants -> Nat] /\ rotates \in BOOLEAN /\ account \in [Grants -> Accounts]
    /\ pc \in [Requests -> {"idle", "open", "refreshing", "refreshed"}]
    /\ DOMAIN tok = Requests /\ got \in [Requests -> TokenOrNone]
    /\ lpc \in [Logins -> {"new", "pasted", "exchanged", "checked", "done", "failed"}]
    /\ pasted \in [Logins -> Logins \cup {None}] /\ fetched \in [Logins -> TokenOrNone]
    /\ logins \in Seq(Logins) /\ quiet \in BOOLEAN
    /\ failures \in 0 .. MaxFailures

\* "If you authorize the wrong Gmail account, the login fails instead of
\* silently storing the wrong token": whatever logins and refreshes overlap, the
\* record never holds a token of another account or one without a refresh token.
OnlyTheOwnersTokenIsStored ==
    stored # None => /\ stored.grant \in Grants
                     /\ account[stored.grant] = Owner

\* Though each refresh may replace the refresh token, as long as saves succeed, no
\* answer to a refresh is lost and nothing crashes, the record's refresh token is
\* the one Google accepts, or a request is about to store that one: concurrent
\* refreshes and logins alone cannot strand the broker with a record that needs a
\* new login.  (A lost answer can, and so can a failed save or a crash.)
RotationDoesNotStrand ==
    (failures = 0 /\ stored # None /\ stored.grant \in Grants
        /\ stored.rotation # rotation[stored.grant])
        => \E r \in Requests : /\ pc[r] = "refreshed"
                               /\ Normalized(r).grant = stored.grant
                               /\ Normalized(r).rotation = rotation[stored.grant]

\* A login that ran while no request was under way takes effect for good and
\* without a restart: no request that began after it puts an earlier token back,
\* whatever fails or crashes (openGmailRuntime opens the store for each request).
QuietLoginStaysStored ==
    (logins # <<>> /\ quiet) => stored.grant = logins[Len(logins)]

=============================================================================
