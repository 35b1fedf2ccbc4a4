-------------------------- MODULE TokenStoreProofs --------------------------
(***************************************************************************)
(* Proofs about TokenStore, for any number of requests, logins, accounts,  *)
(* access tokens and failures.                                             *)
(***************************************************************************)
EXTENDS TokenStore, TLAPS

\* What a request and a login hold while they need it: a refresh answers with
\* the grant it was asked with or with none, and a login with its own.
HoldsWhatItNeeds ==
    /\ \A r \in Requests :
          /\ pc[r] # "idle" => tok[r] # None
          /\ pc[r] = "refreshed" =>
                /\ got[r] # None /\ got[r].grant \in {tok[r].grant, Blank}
                /\ rotates => got[r].grant = tok[r].grant
    /\ \A l \in Logins :
          lpc[l] \in {"exchanged", "checked"} =>
              fetched[l] # None /\ fetched[l].grant = l /\ fetched[l].rotation = 0

\* Every grant in use was given for the owner's account.
OwnersGrants ==
    /\ stored # None => account[stored.grant] = Owner
    /\ \A r \in Requests : tok[r] # None => account[tok[r].grant] = Owner
    /\ \A l \in Logins : lpc[l] = "checked" => account[l] = Owner

\* Nobody holds a refresh token that Google has yet to issue, and a login's
\* grant is not in use before the login is over.
RotationsAreIssued ==
    /\ ~rotates => \A g \in Grants : rotation[g] = 0
    /\ stored # None => stored.rotation <= rotation[stored.grant]
    /\ \A r \in Requests :
          /\ tok[r] # None => tok[r].rotation <= rotation[tok[r].grant]
          /\ pc[r] = "refreshed" => got[r].rotation <= rotation[tok[r].grant]
    /\ \A l \in Logins :
          lpc[l] # "done" =>
              /\ rotation[l] = 0
              /\ stored # None => stored.grant # l
              /\ \A r \in Requests : tok[r] # None => tok[r].grant # l

\* While a request holds a replaced refresh token that it has not saved, it is
\* the only one that does, and so nobody else can have it replaced again.
NewestIsHeldOnce ==
    \A r \in Requests :
        (pc[r] = "refreshed" /\ rotates) =>
            LET g == tok[r].grant
            IN  /\ got[r].rotation = rotation[g]
                /\ (stored # None /\ stored.grant = g) => stored.rotation < rotation[g]
                /\ \A q \in Requests :
                      (tok[q] # None /\ tok[q].grant = g) =>
                          tok[q].rotation < rotation[g] /\ (pc[q] = "refreshed" => q = r)

\* After a quiet login, what requests hold comes from it.
QuietLoginIsEverywhere ==
    (logins # <<>> /\ quiet) =>
        /\ stored # None /\ stored.grant = logins[Len(logins)]
        /\ \A r \in Requests : pc[r] # "idle" => tok[r].grant = logins[Len(logins)]

IInv ==
    /\ TypeOK /\ HoldsWhatItNeeds /\ OwnersGrants
    /\ RotationsAreIssued /\ NewestIsHeldOnce /\ RotationDoesNotStrand
    /\ QuietLoginIsEverywhere

-----------------------------------------------------------------------------
\* At the start only the first grant is in use.
LEMMA InitIInv == Init => IInv
<1> SUFFICES ASSUME Init PROVE IInv
  OBVIOUS
<1> USE TokenAssumption, NoneIsNoToken DEF Init, Grants, Token
<1>1. TypeOK
  BY DEF TypeOK, Refreshable, TokenOrNone
<1>2. HoldsWhatItNeeds /\ OwnersGrants
  BY DEF HoldsWhatItNeeds, OwnersGrants
<1>3. RotationsAreIssued /\ NewestIsHeldOnce
  BY DEF RotationsAreIssued, NewestIsHeldOnce
<1>4. RotationDoesNotStrand /\ QuietLoginIsEverywhere
  BY DEF RotationDoesNotStrand, QuietLoginIsEverywhere
<1> QED
  BY <1>1, <1>2, <1>3, <1>4 DEF IInv

\* What Token() saves: the grant it refreshed, with the rotation of the answer or
\* of the token before.
LEMMA NormalizedIs ==
    ASSUME IInv, NEW r \in Requests, pc[r] = "refreshed"
    PROVE  /\ Normalized(r) \in Token /\ Normalized(r).grant # Blank
           /\ tok[r] \in Token /\ Normalized(r).grant = tok[r].grant
           /\ Normalized(r).rotation <= rotation[tok[r].grant]
           /\ rotates => Normalized(r).rotation = got[r].rotation
<1>1. /\ tok[r] \in Token /\ tok[r].grant # Blank /\ got[r] \in Token
      /\ got[r].grant \in {tok[r].grant, Blank} /\ (rotates => got[r].grant # Blank)
  BY NoneIsNoToken DEF IInv, TypeOK, Refreshable, TokenOrNone, HoldsWhatItNeeds
<1>2. /\ tok[r].rotation <= rotation[tok[r].grant] /\ got[r].rotation <= rotation[tok[r].grant]
  BY <1>1, NoneIsNoToken DEF IInv, RotationsAreIssued
<1>3. CASE got[r].grant = Blank
  <2>1. Normalized(r) = [got[r] EXCEPT !.grant = tok[r].grant, !.rotation = tok[r].rotation]
    BY <1>3 DEF Normalized
  <2>2. Normalized(r) \in Token
    BY <1>1, <2>1 DEF Token
  <2>3. Normalized(r).grant = tok[r].grant /\ Normalized(r).rotation = tok[r].rotation
    BY <1>1, <2>1 DEF Token
  <2> QED
    BY <1>1, <1>2, <1>3, <2>2, <2>3
<1>4. CASE got[r].grant # Blank
  BY <1>1, <1>2, <1>4 DEF Normalized
<1> QED
  BY <1>3, <1>4

\* What a refresh with a lost answer does: the refresh token may be
\* replaced, and nobody holds the one that replaces it.
LEMMA LoseRefreshDoes ==
    ASSUME IInv, NEW r \in Requests, LoseRefresh(r)
    PROVE  LET g == tok[r].grant
               n == IF rotates THEN rotation[g] + 1 ELSE rotation[g]
           IN  /\ g \in Grants /\ tok[r] # None /\ n \in Nat
               /\ pc[r] = "refreshing" /\ tok[r].rotation = rotation[g]
               /\ rotation' = [rotation EXCEPT ![g] = n]
               /\ pc' = [pc EXCEPT ![r] = "idle"]
               /\ failures' = failures + 1 /\ failures' \in 0 .. MaxFailures
               /\ issued' \in 0 .. MaxIssued /\ live' \subseteq 0 .. issued'
               /\ UNCHANGED <<stored, rotates, account, tok, got, lpc, pasted, fetched,
                              logins, quiet>>
<1> DEFINE g == tok[r].grant
<1>1. tok[r] # None /\ tok[r] \in Token /\ g \in Grants /\ rotation \in [Grants -> Nat]
  BY DEF LoseRefresh, IInv, TypeOK, Refreshable, HoldsWhatItNeeds, Token
<1>2. /\ failures' = failures + 1 /\ failures' \in 0 .. MaxFailures
      /\ issued' \in 0 .. MaxIssued /\ live' \subseteq 0 .. issued'
  BY TokenAssumption DEF LoseRefresh, Issue, IInv, TypeOK
<1> QED
  BY <1>1, <1>2 DEF LoseRefresh, login

\* The type invariant.
LEMMA TypeStep == IInv /\ [Next]_vars => TypeOK'
<1> SUFFICES ASSUME IInv, [Next]_vars PROVE TypeOK'
  OBVIOUS
<1> USE TokenAssumption, NoneIsNoToken
    DEF IInv, TypeOK, Refreshable, TokenOrNone, request, google, login
<1>1. ASSUME NEW r \in Requests, Load(r) PROVE TypeOK'
  BY <1>1 DEF Load, LoadedToken
<1>2. ASSUME NEW r \in Requests, NeedRefresh(r) PROVE TypeOK'
  BY <1>2 DEF NeedRefresh
<1>3. ASSUME NEW r \in Requests, Refresh(r) PROVE TypeOK'
  <2> DEFINE g == tok[r].grant
             n == IF rotates THEN rotation[g] + 1 ELSE rotation[g]
  <2>1. tok[r] \in Token /\ g \in Grants /\ n \in Nat
    BY <1>3 DEF Refresh, HoldsWhatItNeeds, Token
  <2>2. issued' = issued + 1 /\ issued' \in 0 .. MaxIssued /\ live' \subseteq 0 .. issued'
    BY <1>3 DEF Refresh, Issue
  <2>3. PICK answered \in {g} \cup (IF rotates THEN {} ELSE {Blank}) :
           /\ rotation' = [rotation EXCEPT ![g] = n]
           /\ got' = [got EXCEPT ![r] = [grant |-> answered, rotation |-> n,
                                         access |-> issued']]
    BY <1>3 DEF Refresh
  <2>4. [grant |-> answered, rotation |-> n, access |-> issued'] \in Token
    BY <2>1, <2>2, <2>3 DEF Token
  <2>5. got' \in [Requests -> TokenOrNone] /\ rotation' \in [Grants -> Nat]
    BY <2>1, <2>3, <2>4
  <2> QED
    BY <1>3, <2>2, <2>5 DEF Refresh
<1>4. ASSUME NEW r \in Requests, RefreshFails(r) PROVE TypeOK'
  BY <1>4 DEF RefreshFails
<1>5. ASSUME NEW r \in Requests, Persist(r) PROVE TypeOK'
  BY <1>5, NormalizedIs DEF Persist, Save, SaveFails
<1>6. ASSUME NEW r \in Requests, EndRequest(r) PROVE TypeOK'
  BY <1>6 DEF EndRequest
<1>7. ASSUME NEW l \in Logins, Paste(l) PROVE TypeOK'
  BY <1>7 DEF Paste, Moves
<1>8. ASSUME NEW l \in Logins, Exchange(l) PROVE TypeOK'
  <2>1. issued' = issued + 1 /\ issued' \in 0 .. MaxIssued /\ live' \subseteq 0 .. issued'
    <3>1. Issue
      BY <1>8 DEF Exchange
    <3> QED
      BY <3>1 DEF Issue
  <2>2. [grant |-> l, rotation |-> 0, access |-> issued'] \in Token
    BY <2>1 DEF Token, Grants
  <2>3. fetched' \in [Logins -> TokenOrNone]
    BY <1>8, <2>2 DEF Exchange
  <2> QED
    BY <1>8, <2>1, <2>3 DEF Exchange, Moves
<1>9. ASSUME NEW l \in Logins, CheckProfile(l) PROVE TypeOK'
  BY <1>9 DEF CheckProfile, IsOwner, Moves
<1>10. ASSUME NEW l \in Logins, StoreLogin(l) PROVE TypeOK'
  BY <1>10 DEF StoreLogin, Save, Moves
<1>11. ASSUME NEW l \in Logins, LoginFails(l) PROVE TypeOK'
  BY <1>11 DEF LoginFails, Moves
<1>12. CASE Crash
  BY <1>12 DEF Crash
<1>13. CASE Expire
  BY <1>13 DEF Expire
<1>14. CASE UNCHANGED vars
  BY <1>14 DEF vars
<1>15. ASSUME NEW r \in Requests, LoseRefresh(r) PROVE TypeOK'
  <2>1. /\ pc' = [pc EXCEPT ![r] = "idle"] /\ failures' \in 0 .. MaxFailures
        /\ issued' \in 0 .. MaxIssued /\ live' \subseteq 0 .. issued'
        /\ UNCHANGED <<stored, rotates, account, tok, got, lpc, pasted, fetched,
                       logins, quiet>>
    BY <1>15, LoseRefreshDoes
  <2>2. PICK n \in Nat : rotation' = [rotation EXCEPT ![tok[r].grant] = n]
    BY <1>15, LoseRefreshDoes
  <2>3. rotation' \in [Grants -> Nat]
    BY <2>2
  <2> QED
    BY <2>1, <2>3
<1> QED
  BY <1>1, <1>2, <1>3, <1>4, <1>5, <1>6, <1>7, <1>8, <1>9, <1>10, <1>11, <1>12, <1>13, <1>14,
     <1>15 DEF Next

\* What requests and logins hold, and whose it is.
LEMMA HoldsStep == IInv /\ [Next]_vars => (HoldsWhatItNeeds /\ OwnersGrants)'
<1> SUFFICES ASSUME IInv, [Next]_vars PROVE (HoldsWhatItNeeds /\ OwnersGrants)'
  OBVIOUS
<1> USE TokenAssumption, NoneIsNoToken
    DEF IInv, TypeOK, Refreshable, TokenOrNone, HoldsWhatItNeeds, OwnersGrants, Token, Grants,
        request, google, login
<1>1. ASSUME NEW r \in Requests, Load(r) PROVE (HoldsWhatItNeeds /\ OwnersGrants)'
  BY <1>1 DEF Load, LoadedToken
<1>2. ASSUME NEW r \in Requests, NeedRefresh(r) PROVE (HoldsWhatItNeeds /\ OwnersGrants)'
  BY <1>2 DEF NeedRefresh
<1>3. ASSUME NEW r \in Requests, Refresh(r) PROVE (HoldsWhatItNeeds /\ OwnersGrants)'
  BY <1>3 DEF Refresh, Issue
<1>4. ASSUME NEW r \in Requests, RefreshFails(r) PROVE (HoldsWhatItNeeds /\ OwnersGrants)'
  BY <1>4 DEF RefreshFails
<1>5. ASSUME NEW r \in Requests, Persist(r) PROVE (HoldsWhatItNeeds /\ OwnersGrants)'
  <2>1. /\ Normalized(r) \in Token /\ Normalized(r).grant = tok[r].grant
        /\ tok[r] # None /\ Normalized(r) # None
    BY <1>5, NormalizedIs DEF Persist
  <2>2. /\ stored' \in {stored, Normalized(r)} /\ tok' = [tok EXCEPT ![r] = Normalized(r)]
        /\ pc' = [pc EXCEPT ![r] = "open"] /\ got' = [got EXCEPT ![r] = None]
        /\ UNCHANGED <<google, login>>
    BY <1>5 DEF Persist, Save, SaveFails
  <2> QED
    BY <2>1, <2>2 DEF google
<1>6. ASSUME NEW r \in Requests, EndRequest(r) PROVE (HoldsWhatItNeeds /\ OwnersGrants)'
  BY <1>6 DEF EndRequest
<1>7. ASSUME NEW l \in Logins, Paste(l) PROVE (HoldsWhatItNeeds /\ OwnersGrants)'
  BY <1>7 DEF Paste, Moves
<1>8. ASSUME NEW l \in Logins, Exchange(l) PROVE (HoldsWhatItNeeds /\ OwnersGrants)'
  BY <1>8 DEF Exchange, Issue, Moves
<1>9. ASSUME NEW l \in Logins, CheckProfile(l) PROVE (HoldsWhatItNeeds /\ OwnersGrants)'
  BY <1>9 DEF CheckProfile, IsOwner, Moves
<1>10. ASSUME NEW l \in Logins, StoreLogin(l) PROVE (HoldsWhatItNeeds /\ OwnersGrants)'
  BY <1>10 DEF StoreLogin, Save, Moves
<1>11. ASSUME NEW l \in Logins, LoginFails(l) PROVE (HoldsWhatItNeeds /\ OwnersGrants)'
  BY <1>11 DEF LoginFails, Moves
<1>12. CASE Crash
  BY <1>12 DEF Crash
<1>13. CASE Expire
  BY <1>13 DEF Expire
<1>14. CASE UNCHANGED vars
  BY <1>14 DEF vars
<1>15. ASSUME NEW r \in Requests, LoseRefresh(r) PROVE (HoldsWhatItNeeds /\ OwnersGrants)'
  BY <1>15, LoseRefreshDoes DEF LoseRefresh
<1> QED
  BY <1>1, <1>2, <1>3, <1>4, <1>5, <1>6, <1>7, <1>8, <1>9, <1>10, <1>11, <1>12, <1>13, <1>14,
     <1>15 DEF Next

\* What saving the token t does: the record may stay as it was only if a save
\* failed, which is counted, or if nothing was new.
Persists(r, t) ==
    /\ t # None /\ t.grant # Blank /\ t.grant = tok[r].grant /\ tok[r] # None
    /\ t.rotation <= rotation[t.grant] /\ (rotates => t.rotation = rotation[t.grant])
    /\ stored' = t \/ (stored' = stored /\ (failures' # 0 \/ tok[r] = t))
    /\ pc[r] = "refreshed" /\ pc' = [pc EXCEPT ![r] = "open"]
    /\ tok' = [tok EXCEPT ![r] = t] /\ got' = [got EXCEPT ![r] = None]
    /\ UNCHANGED <<rotation, rotates, account, lpc, fetched, logins, quiet>>

\* What Persist does: the token source holds a token of the same grant, and the
\* record is that, unless the save failed or there was nothing new to save.
LEMMA PersistDoes ==
    ASSUME IInv, NEW r \in Requests, Persist(r)
    PROVE  \E t \in Token : t = Normalized(r) /\ Persists(r, t)
<1>1. pc[r] = "refreshed" /\ failures \in Nat
  BY TokenAssumption DEF Persist, IInv, TypeOK
<1>2. /\ Normalized(r) \in Token /\ Normalized(r) # None /\ Normalized(r).grant # Blank
      /\ Normalized(r).grant = tok[r].grant /\ tok[r] # None
      /\ Normalized(r).rotation <= rotation[Normalized(r).grant]
      /\ rotates => Normalized(r).rotation = got[r].rotation
  BY <1>1, NormalizedIs, NoneIsNoToken
<1>3. rotates => got[r].rotation = rotation[tok[r].grant]
  BY <1>1 DEF IInv, NewestIsHeldOnce
<1>4. stored' = Normalized(r)
         \/ (stored' = stored /\ (failures' # 0 \/ tok[r] = Normalized(r)))
  BY <1>1, <1>2 DEF Persist, Save, SaveFails
<1>5. /\ pc' = [pc EXCEPT ![r] = "open"]
      /\ tok' = [tok EXCEPT ![r] = Normalized(r)] /\ got' = [got EXCEPT ![r] = None]
      /\ UNCHANGED <<rotation, rotates, account, lpc, fetched, logins, quiet>>
  BY DEF Persist, google, login
<1> QED
  BY <1>1, <1>2, <1>3, <1>4, <1>5 DEF Persists

\* What a refresh does to the refresh token of its grant.
LEMMA RefreshDoes ==
    ASSUME IInv, NEW r \in Requests, Refresh(r)
    PROVE  LET g == tok[r].grant
               n == IF rotates THEN rotation[g] + 1 ELSE rotation[g]
           IN  /\ g \in Grants /\ tok[r] # None /\ n \in Nat
               /\ pc[r] = "refreshing" /\ tok[r].rotation = rotation[g]
               /\ rotation' = [rotation EXCEPT ![g] = n]
               /\ \E t \in Token : /\ got' = [got EXCEPT ![r] = t]
                                   /\ t.rotation = n /\ t.grant \in {g, Blank}
                                   /\ rotates => t.grant = g
               /\ pc' = [pc EXCEPT ![r] = "refreshed"]
               /\ UNCHANGED <<stored, rotates, tok, lpc, logins, quiet, failures>>
<1> DEFINE g == tok[r].grant
           n == IF rotates THEN rotation[g] + 1 ELSE rotation[g]
<1>1. tok[r] # None /\ tok[r] \in Token /\ g \in Grants /\ n \in Nat
  BY DEF Refresh, IInv, TypeOK, Refreshable, HoldsWhatItNeeds, Token
<1>2. PICK answered \in {g} \cup (IF rotates THEN {} ELSE {Blank}) :
         /\ rotation' = [rotation EXCEPT ![g] = n]
         /\ got' = [got EXCEPT ![r] = [grant |-> answered, rotation |-> n, access |-> issued']]
  BY DEF Refresh
<1>3. issued' \in Nat
  <2>1. Issue
    BY DEF Refresh
  <2> QED
    BY <2>1 DEF Issue, IInv, TypeOK
<1>4. [grant |-> answered, rotation |-> n, access |-> issued'] \in Token
  BY <1>1, <1>2, <1>3 DEF Token
<1> QED
  BY <1>1, <1>2, <1>4 DEF Refresh, login

\* What a login stores: a grant nobody used before it.
LEMMA StoreLoginDoes ==
    ASSUME IInv, NEW l \in Logins, StoreLogin(l)
    PROVE  /\ lpc[l] # "done" /\ lpc' = [lpc EXCEPT ![l] = "done"]
           /\ stored' # None /\ stored'.grant = l /\ stored'.rotation = 0
           /\ logins' = Append(logins, l) /\ quiet' = (\A r \in Requests : pc[r] = "idle")
           /\ UNCHANGED <<rotation, rotates, pc, tok, got, failures>>
BY DEF IInv, HoldsWhatItNeeds, StoreLogin, Save, Moves, google, request

\* No step makes anybody hold a refresh token before Google issued it.
LEMMA RotationStep == IInv /\ [Next]_vars => RotationsAreIssued'
<1> SUFFICES ASSUME IInv, [Next]_vars PROVE RotationsAreIssued'
  OBVIOUS
<1>0. ASSUME NEW r \in Requests, Persist(r) PROVE \E t \in Token : Persists(r, t)
  BY <1>0, PersistDoes
<1> USE TokenAssumption, NoneIsNoToken
    DEF IInv, TypeOK, Refreshable, TokenOrNone, HoldsWhatItNeeds, Token, Grants,
        request, google, login, RotationsAreIssued
<1>1. ASSUME NEW r \in Requests, Load(r) PROVE RotationsAreIssued'
  BY <1>1 DEF Load, LoadedToken
<1>2. ASSUME NEW r \in Requests, NeedRefresh(r) PROVE RotationsAreIssued'
  BY <1>2 DEF NeedRefresh
<1>3. ASSUME NEW r \in Requests, Refresh(r) PROVE RotationsAreIssued'
  BY <1>3, RefreshDoes DEF Refresh
<1>4. ASSUME NEW r \in Requests, RefreshFails(r) PROVE RotationsAreIssued'
  BY <1>4 DEF RefreshFails
<1>5. ASSUME NEW r \in Requests, Persist(r) PROVE RotationsAreIssued'
  <2>1. PICK t \in Token : Persists(r, t)
    BY <1>0, <1>5
  <2>2. /\ t.grant = tok[r].grant /\ t.rotation <= rotation[tok[r].grant]
        /\ stored' \in {stored, t} /\ tok' = [tok EXCEPT ![r] = t]
        /\ pc[r] = "refreshed" /\ tok[r] # None /\ pc' = [pc EXCEPT ![r] = "open"]
        /\ got' = [got EXCEPT ![r] = None] /\ UNCHANGED <<rotation, rotates, lpc>>
    BY <2>1 DEF Persists
  <2>3. \A q \in Requests : tok'[q] # None => tok'[q].rotation <= rotation[tok'[q].grant]
    BY <2>1, <2>2
  <2>4. stored' # None => stored'.rotation <= rotation[stored'.grant]
    BY <2>1, <2>2
  <2>5. \A q \in Requests :
           pc'[q] = "refreshed" => got'[q].rotation <= rotation[tok'[q].grant]
    BY <2>1, <2>2
  <2>6. ASSUME NEW l \in Logins, lpc[l] # "done"
        PROVE  /\ stored' # None => stored'.grant # l
               /\ \A q \in Requests : tok'[q] # None => tok'[q].grant # l
    BY <2>1, <2>2, <2>6
  <2> QED
    BY <2>2, <2>3, <2>4, <2>5, <2>6
<1>6. ASSUME NEW r \in Requests, EndRequest(r) PROVE RotationsAreIssued'
  BY <1>6 DEF EndRequest
<1>7. ASSUME NEW l \in Logins, Paste(l) PROVE RotationsAreIssued'
  BY <1>7 DEF Paste, Moves
<1>8. ASSUME NEW l \in Logins, Exchange(l) PROVE RotationsAreIssued'
  BY <1>8 DEF Exchange, Moves
<1>9. ASSUME NEW l \in Logins, CheckProfile(l) PROVE RotationsAreIssued'
  BY <1>9 DEF CheckProfile, Moves
<1>10. ASSUME NEW l \in Logins, StoreLogin(l) PROVE RotationsAreIssued'
  <2>1. /\ lpc[l] # "done" /\ lpc' = [lpc EXCEPT ![l] = "done"]
        /\ stored' # None /\ stored'.grant = l /\ stored'.rotation = 0
        /\ UNCHANGED <<rotation, rotates, pc, tok, got>>
    BY <1>10, StoreLoginDoes
  <2>2. rotation[l] = 0
    BY <2>1
  <2>3. ASSUME NEW k \in Logins, lpc'[k] # "done" PROVE k # l /\ lpc[k] # "done"
    BY <2>1, <2>3
  <2> QED
    BY <2>1, <2>2, <2>3
<1>11. ASSUME NEW l \in Logins, LoginFails(l) PROVE RotationsAreIssued'
  BY <1>11 DEF LoginFails, Moves
<1>12. CASE Crash
  BY <1>12 DEF Crash
<1>13. CASE Expire
  BY <1>13 DEF Expire
<1>14. CASE UNCHANGED vars
  BY <1>14 DEF vars
<1>15. ASSUME NEW r \in Requests, LoseRefresh(r) PROVE RotationsAreIssued'
  BY <1>15, LoseRefreshDoes DEF LoseRefresh
<1> QED
  BY <1>1, <1>2, <1>3, <1>4, <1>5, <1>6, <1>7, <1>8, <1>9, <1>10, <1>11, <1>12, <1>13, <1>14,
     <1>15 DEF Next

\* The request that had a refresh token replaced stays the only one to hold it
\* until it saves it.
LEMMA NewestStep == IInv /\ [Next]_vars => NewestIsHeldOnce'
<1> SUFFICES ASSUME IInv, [Next]_vars PROVE NewestIsHeldOnce'
  OBVIOUS
<1>0. ASSUME NEW r \in Requests, Persist(r) PROVE \E t \in Token : Persists(r, t)
  BY <1>0, PersistDoes
<1> USE TokenAssumption, NoneIsNoToken
    DEF IInv, TypeOK, Refreshable, TokenOrNone, HoldsWhatItNeeds, Token, Grants,
        request, google, login, RotationsAreIssued, NewestIsHeldOnce
<1>1. ASSUME NEW r \in Requests, Load(r) PROVE NewestIsHeldOnce'
  BY <1>1 DEF Load, LoadedToken
<1>2. ASSUME NEW r \in Requests, NeedRefresh(r) PROVE NewestIsHeldOnce'
  BY <1>2 DEF NeedRefresh
<1>3. ASSUME NEW r \in Requests, Refresh(r) PROVE NewestIsHeldOnce'
  <2> DEFINE g == tok[r].grant
             n == IF rotates THEN rotation[g] + 1 ELSE rotation[g]
  <2>1. /\ g \in Grants /\ tok[r] # None /\ pc[r] = "refreshing"
        /\ tok[r].rotation = rotation[g] /\ rotation' = [rotation EXCEPT ![g] = n]
        /\ pc' = [pc EXCEPT ![r] = "refreshed"] /\ UNCHANGED <<stored, rotates, tok>>
    BY <1>3, RefreshDoes
  <2>2. PICK t \in Token : got' = [got EXCEPT ![r] = t] /\ t.rotation = n
    BY <1>3, RefreshDoes
  <2> SUFFICES ASSUME NEW p \in Requests, pc'[p] = "refreshed", rotates
               PROVE  LET h == tok[p].grant
                      IN  /\ got'[p].rotation = rotation'[h]
                          /\ (stored # None /\ stored.grant = h) => stored.rotation < rotation'[h]
                          /\ \A q \in Requests :
                                (tok[q] # None /\ tok[q].grant = h) =>
                                    tok[q].rotation < rotation'[h]
                                    /\ (pc'[q] = "refreshed" => q = p)
    BY <2>1
  <2>3. rotation'[g] = rotation[g] + 1 /\ rotation[g] \in Nat
    BY <2>1
  <2>4. \A q \in Requests : pc[q] = "refreshed" => tok[q].grant # g
    BY <2>1
  <2>5. CASE p = r
    <3>1. got'[r].rotation = rotation'[g]
      BY <2>1, <2>2, <2>3
    <3>2. (stored # None /\ stored.grant = g) => stored.rotation < rotation'[g]
      BY <2>1, <2>3
    <3>3. ASSUME NEW q \in Requests, tok[q] # None, tok[q].grant = g
          PROVE  tok[q].rotation < rotation'[g] /\ (pc'[q] = "refreshed" => q = r)
      BY <2>1, <2>3, <2>4, <3>3
    <3> QED
      BY <2>5, <3>1, <3>2, <3>3
  <2>6. CASE p # r
    <3>1. pc[p] = "refreshed" /\ tok[p].grant # g /\ got'[p] = got[p] /\ tok[p].grant \in Grants
      BY <2>1, <2>2, <2>4, <2>6
    <3>2. rotation'[tok[p].grant] = rotation[tok[p].grant]
      BY <2>1, <3>1
    <3> QED
      BY <2>1, <3>1, <3>2
  <2> QED
    BY <2>5, <2>6
<1>4. ASSUME NEW r \in Requests, RefreshFails(r) PROVE NewestIsHeldOnce'
  BY <1>4 DEF RefreshFails
<1>5. ASSUME NEW r \in Requests, Persist(r) PROVE NewestIsHeldOnce'
  <2>1. PICK t \in Token : Persists(r, t)
    BY <1>0, <1>5
  <2>2. /\ t.grant = tok[r].grant /\ stored' \in {stored, t} /\ tok' = [tok EXCEPT ![r] = t]
        /\ pc[r] = "refreshed" /\ tok[r] # None /\ pc' = [pc EXCEPT ![r] = "open"]
        /\ got' = [got EXCEPT ![r] = None] /\ UNCHANGED <<rotation, rotates>>
    BY <2>1 DEF Persists
  <2> SUFFICES ASSUME NEW p \in Requests, pc'[p] = "refreshed", rotates
               PROVE  LET g == tok'[p].grant
                      IN  /\ got'[p].rotation = rotation[g]
                          /\ (stored' # None /\ stored'.grant = g) => stored'.rotation < rotation[g]
                          /\ \A q \in Requests :
                                (tok'[q] # None /\ tok'[q].grant = g) =>
                                    tok'[q].rotation < rotation[g]
                                    /\ (pc'[q] = "refreshed" => q = p)
    BY <2>2
  <2>3. p # r /\ pc[p] = "refreshed" /\ tok'[p] = tok[p] /\ got'[p] = got[p]
    BY <2>1, <2>2
  <2>4. tok[p].grant # tok[r].grant
    BY <2>2, <2>3
  <2> QED
    BY <2>1, <2>2, <2>3, <2>4
<1>6. ASSUME NEW r \in Requests, EndRequest(r) PROVE NewestIsHeldOnce'
  BY <1>6 DEF EndRequest
<1>7. ASSUME NEW l \in Logins, Paste(l) PROVE NewestIsHeldOnce'
  BY <1>7 DEF Paste, Moves
<1>8. ASSUME NEW l \in Logins, Exchange(l) PROVE NewestIsHeldOnce'
  BY <1>8 DEF Exchange, Moves
<1>9. ASSUME NEW l \in Logins, CheckProfile(l) PROVE NewestIsHeldOnce'
  BY <1>9 DEF CheckProfile, Moves
<1>10. ASSUME NEW l \in Logins, StoreLogin(l) PROVE NewestIsHeldOnce'
  <2>1. /\ lpc[l] # "done" /\ stored'.grant = l
        /\ UNCHANGED <<rotation, rotates, pc, tok, got>>
    BY <1>10, StoreLoginDoes
  <2>2. \A r \in Requests : tok[r] # None => tok[r].grant # l
    BY <2>1
  <2> QED
    BY <2>1, <2>2
<1>11. ASSUME NEW l \in Logins, LoginFails(l) PROVE NewestIsHeldOnce'
  BY <1>11 DEF LoginFails, Moves
<1>12. CASE Crash
  BY <1>12 DEF Crash
<1>13. CASE Expire
  BY <1>13 DEF Expire
<1>14. CASE UNCHANGED vars
  BY <1>14 DEF vars
<1>15. ASSUME NEW r \in Requests, LoseRefresh(r) PROVE NewestIsHeldOnce'
  <2>1. /\ pc[r] = "refreshing" /\ tok[r] # None /\ tok[r].grant \in Grants
        /\ tok[r].rotation = rotation[tok[r].grant]
        /\ \A g \in Grants \ {tok[r].grant} : rotation'[g] = rotation[g]
        /\ pc' = [pc EXCEPT ![r] = "idle"] /\ UNCHANGED <<stored, rotates, tok, got>>
    BY <1>15, LoseRefreshDoes
  <2>2. ASSUME NEW q \in Requests, pc'[q] = "refreshed", rotates
        PROVE  /\ pc[q] = "refreshed" /\ tok[q].grant \in Grants
               /\ tok[q].grant # tok[r].grant
    BY <2>1, <2>2
  <2>3. ASSUME NEW q \in Requests, pc'[q] = "refreshed", rotates
        PROVE  rotation'[tok[q].grant] = rotation[tok[q].grant]
    BY <2>1, <2>2, <2>3
  <2>4. \A q \in Requests : pc'[q] = "refreshed" => pc[q] = "refreshed"
    BY <2>1
  <2> QED
    BY <2>1, <2>2, <2>3, <2>4
<1> QED
  BY <1>1, <1>2, <1>3, <1>4, <1>5, <1>6, <1>7, <1>8, <1>9, <1>10, <1>11, <1>12, <1>13, <1>14,
     <1>15 DEF Next

\* Who is about to store the newest refresh token still is.
LEMMA StrandKept ==
    ASSUME IInv, UNCHANGED <<stored, rotation, failures>>,
           \A q \in Requests : pc[q] = "refreshed" =>
               pc'[q] = "refreshed" /\ tok'[q] = tok[q] /\ got'[q] = got[q]
    PROVE  RotationDoesNotStrand'
BY DEF IInv, RotationDoesNotStrand, Normalized

\* A refresh that leaves the record behind is followed by its own save.
LEMMA StrandStep == IInv /\ [Next]_vars => RotationDoesNotStrand'
<1> SUFFICES ASSUME IInv, [Next]_vars PROVE RotationDoesNotStrand'
  OBVIOUS
<1>0. ASSUME NEW r \in Requests, Persist(r) PROVE \E t \in Token : Persists(r, t)
  BY <1>0, PersistDoes
<1> USE TokenAssumption, NoneIsNoToken
    DEF IInv, TypeOK, Refreshable, TokenOrNone, HoldsWhatItNeeds, Token, Grants,
        request, google, login, RotationsAreIssued, NewestIsHeldOnce, RotationDoesNotStrand, Normalized
<1>1. ASSUME NEW r \in Requests, Load(r) PROVE RotationDoesNotStrand'
  BY <1>1 DEF Load, LoadedToken
<1>2. ASSUME NEW r \in Requests, NeedRefresh(r) PROVE RotationDoesNotStrand'
  BY <1>2, StrandKept DEF NeedRefresh
<1>3. ASSUME NEW r \in Requests, Refresh(r) PROVE RotationDoesNotStrand'
  <2> DEFINE g == tok[r].grant
             n == IF rotates THEN rotation[g] + 1 ELSE rotation[g]
  <2>1. /\ g \in Grants /\ tok[r] # None /\ pc[r] = "refreshing"
        /\ tok[r].rotation = rotation[g] /\ rotation' = [rotation EXCEPT ![g] = n]
        /\ pc' = [pc EXCEPT ![r] = "refreshed"] /\ UNCHANGED <<stored, rotates, tok, failures>>
    BY <1>3, RefreshDoes
  <2>2. PICK t \in Token :
           /\ got' = [got EXCEPT ![r] = t] /\ t.rotation = n /\ (rotates => t.grant = g)
    BY <1>3, RefreshDoes
  <2> SUFFICES ASSUME failures = 0, stored # None, stored.grant \in Grants,
                      stored.rotation # rotation'[stored.grant]
               PROVE  \E q \in Requests :
                         /\ pc'[q] = "refreshed" /\ Normalized(q)'.grant = stored.grant
                         /\ Normalized(q)'.rotation = rotation'[stored.grant]
    BY <2>1
  <2>3. rotates
    BY <2>1
  <2>4. CASE stored.grant = g
    <3>1. Normalized(r)' = t
      BY <2>1, <2>2, <2>3
    <3> QED
      BY <2>1, <2>2, <2>3, <2>4, <3>1
  <2>5. CASE stored.grant # g
    <3>1. rotation'[stored.grant] = rotation[stored.grant]
      BY <2>1, <2>5
    <3>2. PICK q \in Requests : /\ pc[q] = "refreshed" /\ Normalized(q).grant = stored.grant
                               /\ Normalized(q).rotation = rotation[stored.grant]
      BY <3>1
    <3>3. pc'[q] = "refreshed" /\ Normalized(q)' = Normalized(q)
      BY <2>1, <2>2, <3>2
    <3> QED
      BY <3>1, <3>2, <3>3
  <2> QED
    BY <2>4, <2>5
<1>4. ASSUME NEW r \in Requests, RefreshFails(r) PROVE RotationDoesNotStrand'
  BY <1>4, StrandKept DEF RefreshFails
<1>5. ASSUME NEW r \in Requests, Persist(r) PROVE RotationDoesNotStrand'
  <2>1. PICK t \in Token : Persists(r, t)
    BY <1>0, <1>5
  <2>2. CASE t.rotation = rotation[t.grant]
    <3>1. stored' \in {t, stored} /\ rotation' = rotation /\ tok[r].grant = t.grant
      BY <2>1 DEF Persists
    <3>2. CASE stored' = t
      BY <2>2, <3>1, <3>2
    <3>3. CASE stored' = stored /\ failures' # 0
      BY <3>3
    <3>4. CASE stored' = stored /\ tok[r] = t
      BY <2>1, <2>2, <3>4 DEF Persists
    <3> QED
      BY <2>1, <3>2, <3>3, <3>4 DEF Persists
  <2>3. CASE ~rotates
    BY <2>1, <2>3 DEF Persists
  <2> QED
    BY <2>1, <2>2, <2>3 DEF Persists
<1>6. ASSUME NEW r \in Requests, EndRequest(r) PROVE RotationDoesNotStrand'
  BY <1>6, StrandKept DEF EndRequest
<1>7. ASSUME NEW l \in Logins, Paste(l) PROVE RotationDoesNotStrand'
  BY <1>7 DEF Paste, Moves
<1>8. ASSUME NEW l \in Logins, Exchange(l) PROVE RotationDoesNotStrand'
  BY <1>8 DEF Exchange, Moves
<1>9. ASSUME NEW l \in Logins, CheckProfile(l) PROVE RotationDoesNotStrand'
  BY <1>9 DEF CheckProfile, Moves
<1>10. ASSUME NEW l \in Logins, StoreLogin(l) PROVE RotationDoesNotStrand'
  BY <1>10, StoreLoginDoes
<1>11. ASSUME NEW l \in Logins, LoginFails(l) PROVE RotationDoesNotStrand'
  BY <1>11 DEF LoginFails, Moves
<1>12. CASE Crash
  BY <1>12 DEF Crash
<1>13. CASE Expire
  BY <1>13 DEF Expire
<1>14. CASE UNCHANGED vars
  BY <1>14 DEF vars
<1>15. ASSUME NEW r \in Requests, LoseRefresh(r) PROVE RotationDoesNotStrand'
  BY <1>15, LoseRefreshDoes
<1> QED
  BY <1>1, <1>2, <1>3, <1>4, <1>5, <1>6, <1>7, <1>8, <1>9, <1>10, <1>11, <1>12, <1>13, <1>14,
     <1>15 DEF Next

\* What came from the last login stays, and so does what requests made of it.
LEMMA QuietStep == IInv /\ [Next]_vars => QuietLoginIsEverywhere'
<1> SUFFICES ASSUME IInv, [Next]_vars PROVE QuietLoginIsEverywhere'
  OBVIOUS
<1>0. ASSUME NEW r \in Requests, Persist(r) PROVE \E t \in Token : Persists(r, t)
  BY <1>0, PersistDoes
<1> USE TokenAssumption, NoneIsNoToken
    DEF IInv, TypeOK, Refreshable, TokenOrNone, HoldsWhatItNeeds, Token, Grants,
        request, google, login, QuietLoginIsEverywhere
<1>1. ASSUME NEW r \in Requests, Load(r) PROVE QuietLoginIsEverywhere'
  BY <1>1 DEF Load, LoadedToken
<1>2. ASSUME NEW r \in Requests, NeedRefresh(r) PROVE QuietLoginIsEverywhere'
  BY <1>2 DEF NeedRefresh
<1>3. ASSUME NEW r \in Requests, Refresh(r) PROVE QuietLoginIsEverywhere'
  BY <1>3, RefreshDoes DEF Refresh
<1>4. ASSUME NEW r \in Requests, RefreshFails(r) PROVE QuietLoginIsEverywhere'
  BY <1>4 DEF RefreshFails
<1>5. ASSUME NEW r \in Requests, Persist(r) PROVE QuietLoginIsEverywhere'
  <2>1. PICK t \in Token : Persists(r, t)
    BY <1>0, <1>5
  <2> QED
    BY <2>1 DEF Persists
<1>6. ASSUME NEW r \in Requests, EndRequest(r) PROVE QuietLoginIsEverywhere'
  BY <1>6 DEF EndRequest
<1>7. ASSUME NEW l \in Logins, Paste(l) PROVE QuietLoginIsEverywhere'
  BY <1>7 DEF Paste, Moves
<1>8. ASSUME NEW l \in Logins, Exchange(l) PROVE QuietLoginIsEverywhere'
  BY <1>8 DEF Exchange, Moves
<1>9. ASSUME NEW l \in Logins, CheckProfile(l) PROVE QuietLoginIsEverywhere'
  BY <1>9 DEF CheckProfile, Moves
<1>10. ASSUME NEW l \in Logins, StoreLogin(l) PROVE QuietLoginIsEverywhere'
  BY <1>10, StoreLoginDoes
<1>11. ASSUME NEW l \in Logins, LoginFails(l) PROVE QuietLoginIsEverywhere'
  BY <1>11 DEF LoginFails, Moves
<1>12. CASE Crash
  BY <1>12 DEF Crash
<1>13. CASE Expire
  BY <1>13 DEF Expire
<1>14. CASE UNCHANGED vars
  BY <1>14 DEF vars
<1>15. ASSUME NEW r \in Requests, LoseRefresh(r) PROVE QuietLoginIsEverywhere'
  <2>1. pc' = [pc EXCEPT ![r] = "idle"] /\ UNCHANGED <<stored, tok, logins, quiet>>
    BY <1>15, LoseRefreshDoes
  <2> QED
    BY <2>1
<1> QED
  BY <1>1, <1>2, <1>3, <1>4, <1>5, <1>6, <1>7, <1>8, <1>9, <1>10, <1>11, <1>12, <1>13, <1>14,
     <1>15 DEF Next

\* Every step, and a stutter, keeps the invariant.
LEMMA StepIInv == IInv /\ [Next]_vars => IInv'
BY TypeStep, HoldsStep, RotationStep, NewestStep, StrandStep, QuietStep DEF IInv

\* The invariant holds in every reachable state.
LEMMA SpecIInv == Spec => []IInv
BY InitIInv, StepIInv, PTL DEF Spec

-----------------------------------------------------------------------------
\* The variables keep the types their comments give them; what is stored and what
\* a token source holds can be refreshed.
THEOREM TypeCorrect == Spec => []TypeOK
<1>1. IInv => TypeOK
  BY DEF IInv
<1> QED
  BY <1>1, SpecIInv, PTL

\* Whatever logins, refreshes, failed saves and crashes overlap, the record never
\* holds a token of another account, or one that cannot be refreshed.
THEOREM OwnersTokenOnly == Spec => []OnlyTheOwnersTokenIsStored
<1>1. IInv => OnlyTheOwnersTokenIsStored
  BY DEF IInv, TypeOK, Refreshable, OwnersGrants, OnlyTheOwnersTokenIsStored, Token
<1> QED
  BY <1>1, SpecIInv, PTL

\* However many requests refresh side by side while logins replace the record, no
\* order of their saves leaves a record that Google no longer accepts, as long as
\* no save fails, no answer of Google's to a refresh is lost and nothing crashes.
THEOREM NobodyIsStranded == Spec => []RotationDoesNotStrand
<1>1. IInv => RotationDoesNotStrand
  BY DEF IInv
<1> QED
  BY <1>1, SpecIInv, PTL

\* A login that ran alone is never undone by a request, whatever fails.
THEOREM QuietLoginLasts == Spec => []QuietLoginStaysStored
<1>1. IInv => QuietLoginStaysStored
  BY DEF IInv, QuietLoginIsEverywhere, QuietLoginStaysStored
<1> QED
  BY <1>1, SpecIInv, PTL

=============================================================================
