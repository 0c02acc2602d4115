--------------------------- MODULE TokenClient_proofs ---------------------------
(***************************************************************************)
(* Proofs about TokenClient, as MCStorage runs it, for every set of        *)
(* processes, every set of calls and any number of grants and clients.     *)
(* TokenInv is the inductive invariant: which grant each process and the   *)
(* file know of, and that a grant which is still on its way to the file is *)
(* known to one process alone.                                             *)
(***************************************************************************)
EXTENDS MCStorage

TokenRecords == [access : Nat, refresh : Nat, client : Nat]
Steps == {"idle", "clear", "load", "check", "credentials", "refresh", "refreshed",
          "discover", "client", "register", "browser", "loggedIn", "done", "threw"}
Calls == [pc : Steps, mode : Modes \cup {"none"}, config : Nat, seen : TokenRecords,
          got : TokenRecords, client : Nat, secret : BOOLEAN, goal : {"none", "refresh", "browser"},
          result : Nat, fresh : BOOLEAN]

TokenTypeOK ==
  /\ tokenFile \in TokenRecords
  /\ clientFile \in Nat /\ metadata \in BOOLEAN
  /\ workerCall \in [Workers -> Calls]
  /\ issued \in 0..MaxGrants
  /\ live \subseteq 1..issued
  /\ owner \in [1..MaxGrants -> Nat]
  /\ clients \in Nat
  /\ past \in [lost : BOOLEAN, login : BOOLEAN]

\* The tokens hold nothing that was not issued, and name the client they were issued to;
\* those that name none were there before.
Issued(tokens) ==
  /\ tokens.access <= issued /\ tokens.refresh <= issued
  /\ tokens.refresh # 0 =>
       IF tokens.client = 0 THEN owner[tokens.refresh] \in 1..Known
                            ELSE owner[tokens.refresh] = tokens.client

Pending(w) == workerCall[w].pc \in {"refreshed", "loggedIn"}

\* A process that is about to refresh, or looks for a client to refresh with.
Refreshes(w) ==
  \/ workerCall[w].pc \in {"credentials", "refresh"}
  \/ workerCall[w].pc \in {"client", "register"} /\ workerCall[w].goal = "refresh"

\* All tokens in use were issued; what is refreshed has a refresh token.
AllIssued ==
  /\ Issued(tokenFile)
  /\ \A w \in Workers :
       /\ Issued(workerCall[w].seen)
       /\ Issued(workerCall[w].got)
       /\ Refreshes(w) => workerCall[w].seen.refresh # 0

Registered == clientFile \in 1..Known

\* A request names a client: that of the tokens, or else the configured one, or else that
\* of client.json, which stays there once it is one of those known at the start.
ClientsKnown ==
  /\ clients >= Known
  /\ \A w \in Workers : LET c == workerCall[w] IN
       /\ c.pc \in {"refresh", "browser", "register"} => c.client # 0
       /\ c.pc \in {"client", "register"} =>
            c.goal = "browser" \/ (c.goal = "refresh" /\ c.seen.client = 0)
       /\ c.pc = "register" => c.client > Known /\ c.config = 0 /\ ~Registered
       /\ c.pc = "refresh" =>
            CASE c.seen.client # 0 -> c.client = c.seen.client
              [] c.seen.client = 0 /\ c.config # 0 -> c.client = c.config
              [] OTHER -> Registered => c.client = clientFile

\* Nobody but the process that is about to save it knows a new refresh token, so that
\* nobody can use it up.
NewIsPrivate ==
  \A w \in Workers : Pending(w) /\ workerCall[w].got.refresh # 0 =>
    /\ workerCall[w].got.refresh \in live
    /\ workerCall[w].got.refresh # tokenFile.refresh
    /\ \A x \in Workers :
         /\ workerCall[x].seen.refresh # workerCall[w].got.refresh
         /\ Pending(x) /\ x # w => workerCall[x].got.refresh # workerCall[w].got.refresh

TokenInv == TokenTypeOK /\ AllIssued /\ ClientsKnown /\ NewIsPrivate /\ T!FileRefreshLive

\* With rotation and without another login there is one chain of grants, and the last of
\* them is the one on its way to the file, if any is.
OneChain ==
  Rotates /\ ~past.login =>
    /\ live \subseteq {issued}
    /\ \A w \in Workers : workerCall[w].pc # "loggedIn"
    /\ \A w \in Workers : workerCall[w].pc = "refreshed" =>
         workerCall[w].got.access = issued /\ workerCall[w].got.refresh = issued

-------------------------------------------------------------------------------
\* Before the first step the file holds the first grant, or nothing.
LEMMA TokenStart == T!Init => TokenInv /\ OneChain
<1> SUFFICES ASSUME T!Init PROVE TokenInv /\ OneChain
  OBVIOUS
<1> PICK start \in Starts : T!InitFrom(start)
  BY DEF T!Init
<1>0. /\ start.owner \in 0..Known /\ start.cached \in 0..Known /\ start.metadata \in BOOLEAN
      /\ Known \in Nat
  BY TokenConstants
<1> USE DEF T!InitFrom, T!Idle, T!Tokens, T!NoTokens, T!Grants
<1>1. TokenTypeOK
  BY <1>0, TokenConstants DEF TokenTypeOK, TokenRecords, Calls, Steps
<1>2. AllIssued /\ ClientsKnown
  BY <1>0, TokenConstants DEF AllIssued, Issued, Refreshes, ClientsKnown
<1>3. NewIsPrivate
  BY DEF NewIsPrivate, Pending
<1>4. T!FileRefreshLive
  BY DEF T!FileRefreshLive
<1>5. OneChain
  BY DEF OneChain
<1> QED
  BY <1>1, <1>2, <1>3, <1>4, <1>5 DEF TokenInv

\* What is put together as tokens is tokens.
LEMMA TokensAre ==
  /\ \A a, r, c \in Nat : T!Tokens(a, r, c) \in TokenRecords
  /\ T!NoTokens \in TokenRecords
  /\ T!Idle \in Calls
  /\ \A t \in TokenRecords : t.access \in Nat /\ t.refresh \in Nat /\ t.client \in Nat
BY DEF T!Tokens, T!NoTokens, T!Idle, TokenRecords, Calls, Steps

\* The steps by name.
LEMMA StepNames ==
  /\ "idle" \in Steps /\ "clear" \in Steps /\ "load" \in Steps /\ "check" \in Steps
  /\ "credentials" \in Steps /\ "refresh" \in Steps /\ "refreshed" \in Steps
  /\ "discover" \in Steps /\ "client" \in Steps /\ "register" \in Steps
  /\ "browser" \in Steps /\ "loggedIn" \in Steps /\ "done" \in Steps /\ "threw" \in Steps
BY DEF Steps

\* A call remains a call when it moves on, and so do the calls of all processes.
LEMMA CallUpdates ==
  ASSUME NEW c \in Calls, NEW pc \in Steps
  PROVE  /\ \A m \in Modes, n \in Nat : [c EXCEPT !.mode = m, !.config = n, !.pc = pc] \in Calls
         /\ \A n \in Nat, b \in BOOLEAN : [c EXCEPT !.pc = pc, !.client = n, !.secret = b] \in Calls
         /\ \A n \in Nat : [c EXCEPT !.pc = pc, !.client = n] \in Calls
BY DEF Calls

LEMMA CallsUpdate ==
  ASSUME NEW f \in [Workers -> Calls], NEW w \in Workers, NEW pc \in Steps
  PROVE  /\ \A m \in Modes, n \in Nat :
              [f EXCEPT ![w].mode = m, ![w].config = n, ![w].pc = pc] \in [Workers -> Calls]
         /\ \A n \in Nat, b \in BOOLEAN :
              [f EXCEPT ![w].pc = pc, ![w].client = n, ![w].secret = b] \in [Workers -> Calls]
         /\ \A n \in Nat : [f EXCEPT ![w].pc = pc, ![w].client = n] \in [Workers -> Calls]
BY CallUpdates

\* Each step of a process leaves the calls of the processes calls.
LEMMA CallsTyped ==
  ASSUME TokenTypeOK, ClientsKnown, T!Next PROVE workerCall' \in [Workers -> Calls]
<1> DEFINE Typed == workerCall' \in [Workers -> Calls]
<1>0. workerCall \in [Workers -> Calls]
  BY DEF TokenTypeOK
<1> USE <1>0, StepNames
<1>1. ASSUME NEW w \in Workers, NEW pc \in Steps, T!Goes(w, pc) PROVE Typed
  BY <1>1 DEF T!Goes, Calls
<1>2. ASSUME NEW w \in Workers, T!GiveUp(w) \/ T!Throws(w) PROVE Typed
  <2>1. T!Idle \in Calls /\ workerCall[w] \in Calls
    BY TokensAre
  <2>2. \A pc \in Steps : [T!Idle EXCEPT !.pc = pc] \in Calls
    BY <2>1 DEF Calls
  <2>3. [T!Idle EXCEPT !.pc = "done", !.result = 0, !.fresh = FALSE] \in Calls
    BY <2>1 DEF Calls
  <2>4. [T!Idle EXCEPT !.pc = "discover", !.mode = workerCall[w].mode,
                       !.config = workerCall[w].config] \in Calls
    BY <2>1 DEF Calls
  <2> QED
    BY <1>2, <2>2, <2>3, <2>4 DEF T!GiveUp, T!Throws, T!Returns
<1>3. ASSUME NEW w \in Workers, NEW m \in Modes, NEW c \in Configs, T!Begin(w, m, c) PROVE Typed
  <2>1. c \in Nat /\ (IF m = "force" THEN "clear" ELSE "load") \in Steps
    BY TokenConstants
  <2>2. workerCall' = [workerCall EXCEPT ![w].mode = m, ![w].config = c,
                         ![w].pc = IF m = "force" THEN "clear" ELSE "load"]
    BY <1>3 DEF T!Begin
  <2> QED
    BY <2>1, <2>2, CallsUpdate
<1>22. ASSUME NEW w \in Workers, NEW token \in Nat, NEW fresh \in BOOLEAN, T!Returns(w, token, fresh)
       PROVE  Typed
  <2>1. [T!Idle EXCEPT !.pc = "done", !.result = token, !.fresh = fresh] \in Calls
    BY TokensAre DEF Calls
  <2> QED
    BY <1>22, <2>1 DEF T!Returns
<1>23. ASSUME NEW w \in Workers, NEW n \in Nat, T!Takes(w, n), workerCall[w].goal # "none" PROVE Typed
  <2>1. workerCall[w].goal \in Steps
    BY <1>23 DEF Calls
  <2>2. workerCall' = [workerCall EXCEPT ![w].pc = workerCall[w].goal, ![w].client = n, ![w].secret = TRUE]
    BY <1>23 DEF T!Takes
  <2> QED
    BY <1>23, <2>1, <2>2, CallsUpdate
<1>4. ASSUME NEW w \in Workers, T!Clear(w) PROVE Typed
  BY <1>1, <1>4 DEF T!Clear
<1>5. ASSUME NEW w \in Workers, T!LoadTokens(w) PROVE Typed
  <2>1. tokenFile \in TokenRecords
    BY DEF TokenTypeOK
  <2>2. CASE workerCall' = [workerCall EXCEPT ![w].seen = tokenFile, ![w].pc = "check"]
    BY <2>1, <2>2 DEF Calls
  <2> QED
    BY <1>2, <1>5, <2>2 DEF T!LoadTokens
<1>6. ASSUME NEW w \in Workers, T!CheckValid(w) PROVE Typed
  <2>1. T!Valid(workerCall[w].seen) \in BOOLEAN
    BY DEF T!Valid
  <2>2. workerCall[w].seen.access \in Nat
    BY DEF Calls, TokenRecords
  <2> QED
    BY <1>1, <1>2, <1>22, <1>6, <2>1, <2>2 DEF T!CheckValid
<1>7. ASSUME NEW w \in Workers, T!Credentials(w) PROVE Typed
  <2>1. workerCall[w].seen.client \in Nat /\ (clientFile = workerCall[w].seen.client) \in BOOLEAN
    BY DEF Calls, TokenRecords
  <2>2. ASSUME NEW secret \in BOOLEAN,
               workerCall' = [workerCall EXCEPT ![w].pc = "refresh",
                                ![w].client = workerCall[w].seen.client, ![w].secret = secret]
        PROVE  Typed
    BY <2>1, <2>2, CallsUpdate
  <2>3. CASE workerCall' = [workerCall EXCEPT ![w].pc = "client", ![w].goal = "refresh"]
    BY <2>3 DEF Calls
  <2> QED
    BY <1>2, <1>7, <2>1, <2>2, <2>3 DEF T!Credentials
<1>8. ASSUME NEW w \in Workers, T!Refresh(w) PROVE Typed
  <2>1. T!NewTokens(w) \in TokenRecords
    <3>1. issued + 1 \in Nat /\ workerCall[w].client \in Nat
      BY TokenConstants DEF TokenTypeOK, Calls
    <3> QED
      BY <3>1 DEF T!NewTokens, T!Tokens, TokenRecords
  <2>2. workerCall' = [workerCall EXCEPT ![w].pc = "refreshed", ![w].got = T!NewTokens(w)]
    BY <1>8 DEF T!Refresh
  <2> QED
    BY <2>1, <2>2 DEF Calls
<1>9. ASSUME NEW w \in Workers, T!RefreshRejected(w) \/ T!RefreshLost(w) \/ T!SaveRefreshedFails(w)
      PROVE  Typed
  BY <1>2, <1>9 DEF T!RefreshRejected, T!RefreshLost, T!SaveRefreshedFails
<1>10. ASSUME NEW w \in Workers, T!SaveRefreshed(w) \/ T!SaveLogin(w) PROVE Typed
  <2>1. workerCall[w].got.access \in Nat
    BY DEF Calls, TokenRecords
  <2> QED
    BY <1>10, <1>22, <2>1 DEF T!SaveRefreshed, T!SaveLogin
<1>11. ASSUME NEW w \in Workers, T!Discover(w) \/ T!LoginThrows(w) \/ T!NoClient(w) PROVE Typed
  <2>1. CASE workerCall' = [workerCall EXCEPT ![w].pc = "client", ![w].goal = "browser"]
    BY <2>1 DEF Calls
  <2> QED
    BY <1>2, <1>11, <2>1 DEF T!Discover, T!LoginThrows, T!NoClient
<1>12. ASSUME NEW w \in Workers, T!ConfiguredClient(w) \/ T!CachedClient(w) \/ T!SaveClient(w)
       PROVE  Typed
  <2>1. clientFile \in Nat /\ workerCall[w].config \in Nat /\ workerCall[w].client \in Nat
    BY DEF TokenTypeOK, Calls
  <2>2. workerCall[w].goal # "none"
    BY <1>12 DEF ClientsKnown, T!ConfiguredClient, T!CachedClient, T!SaveClient
  <2> QED
    BY <1>12, <1>23, <2>1, <2>2 DEF T!ConfiguredClient, T!CachedClient, T!SaveClient
<1>13. ASSUME NEW w \in Workers, T!RegisterClient(w) PROVE Typed
  <2>1. clients + 1 \in Nat
    BY DEF TokenTypeOK
  <2>2. workerCall' = [workerCall EXCEPT ![w].pc = "register", ![w].client = clients + 1]
    BY <1>13 DEF T!RegisterClient
  <2> QED
    BY <2>1, <2>2, CallsUpdate
<1>14. ASSUME NEW w \in Workers, T!Login(w) PROVE Typed
  <2> DEFINE tokens == T!Tokens(issued + 1, issued + 1, workerCall[w].client)
  <2>1. tokens \in TokenRecords
    BY TokenConstants DEF TokenTypeOK, Calls, T!Tokens, TokenRecords
  <2>2. workerCall' = [workerCall EXCEPT ![w].pc = "loggedIn", ![w].got = tokens]
    BY <1>14 DEF T!Login
  <2> HIDE DEF tokens
  <2> QED
    BY <2>1, <2>2 DEF Calls
<1>15. ASSUME NEW w \in Workers, T!Return(w) \/ T!Crash(w) PROVE Typed
  <2>1. T!Idle \in Calls
    BY TokensAre
  <2> QED
    BY <1>15, <2>1 DEF T!Return, T!Crash
<1>16. ASSUME NEW g \in T!Grants, T!Expire(g) PROVE Typed
  BY <1>16 DEF T!Expire
<1> QED
  BY <1>3, <1>4, <1>5, <1>6, <1>7, <1>8, <1>9, <1>10, <1>11, <1>12, <1>13, <1>14, <1>15, <1>16
     DEF T!Next

-------------------------------------------------------------------------------
(* What a step of process w does to the tokens and to who knows them. *)

Others(w) == \A x \in Workers : x # w => workerCall'[x] = workerCall[x]

\* No grant is issued or used up, and what is lost remains lost.
NoGrant == /\ UNCHANGED <<issued, live, owner>>
           /\ past'.login = past.login
           /\ past.lost => past'.lost

KeepsTokens(w) ==
  /\ Others(w)
  /\ workerCall'[w].seen = workerCall[w].seen
  /\ workerCall'[w].got = workerCall[w].got

\* w forgets the tokens it has.
Forgets(w) ==
  /\ Others(w)
  /\ workerCall'[w].seen = T!NoTokens /\ workerCall'[w].got = T!NoTokens
  /\ workerCall'[w].pc \in {"idle", "done", "threw", "discover"}

\* w moves on with the tokens it has.
Moves(w) ==
  /\ NoGrant /\ KeepsTokens(w) /\ UNCHANGED tokenFile
  /\ workerCall[w].pc # "refreshed"
  /\ workerCall'[w].pc \notin {"refreshed", "loggedIn"}
  /\ Refreshes(w)' => Refreshes(w) \/ workerCall[w].seen.refresh # 0

Loads(w) ==
  /\ NoGrant /\ Others(w) /\ UNCHANGED tokenFile
  /\ workerCall[w].pc = "load" /\ workerCall'[w].pc = "check"
  /\ workerCall'[w].seen = tokenFile /\ workerCall'[w].got = workerCall[w].got

\* w's call ends, or its refresh does, and nothing is saved.
Resets(w) ==
  /\ NoGrant /\ Forgets(w) /\ UNCHANGED tokenFile
  /\ workerCall[w].pc = "refreshed" => past'.lost

Clears(w) ==
  /\ NoGrant /\ KeepsTokens(w)
  /\ workerCall[w].pc = "clear" /\ workerCall'[w].pc = "load"
  /\ tokenFile' = T!NoTokens

Saves(w) ==
  /\ NoGrant /\ Forgets(w)
  /\ Pending(w)
  /\ tokenFile' = workerCall[w].got

\* A refresh is granted, and the answer arrives or is lost.
Granted(w) ==
  /\ T!GrantRefresh(w)
  /\ past'.login = past.login
  /\ \/ /\ Others(w)
        /\ workerCall'[w].seen = workerCall[w].seen
        /\ workerCall'[w].pc = "refreshed" /\ workerCall'[w].got = T!NewTokens(w)
        /\ past' = past
     \/ Forgets(w) /\ past'.lost

LogsIn(w) ==
  /\ T!Login(w) /\ Others(w)
  /\ workerCall[w].pc = "browser" /\ workerCall'[w].pc = "loggedIn"
  /\ workerCall'[w].seen = workerCall[w].seen
  /\ workerCall'[w].got = T!Tokens(issued + 1, issued + 1, workerCall[w].client)
  /\ past'.login /\ past'.lost = past.lost

NoEffect == UNCHANGED <<tokenFile, workerCall, issued, live, owner, past>>

\* A call that ends, gives up or throws forgets its tokens.
LEMMA EndsForget ==
  ASSUME TokenTypeOK, NEW w \in Workers,
         T!GiveUp(w) \/ T!Throws(w) \/ (\E n, b : T!Returns(w, n, b))
  PROVE  Forgets(w)
<1>1. w \in DOMAIN workerCall
  BY DEF TokenTypeOK
<1>2. ASSUME NEW c, workerCall' = [workerCall EXCEPT ![w] = c], c.seen = T!NoTokens,
             c.got = T!NoTokens, c.pc \in {"done", "threw", "discover"}
      PROVE  Forgets(w)
  BY <1>1, <1>2 DEF Forgets, Others, TokenTypeOK
<1>3. ASSUME NEW n, NEW b, T!Returns(w, n, b) PROVE Forgets(w)
  <2>1. workerCall' = [workerCall EXCEPT ![w] =
                         [T!Idle EXCEPT !.pc = "done", !.result = n, !.fresh = b]]
    BY <1>3 DEF T!Returns
  <2> DEFINE c == [T!Idle EXCEPT !.pc = "done", !.result = n, !.fresh = b]
  <2>2. c.seen = T!NoTokens /\ c.got = T!NoTokens /\ c.pc = "done"
    BY DEF T!Idle
  <2> HIDE DEF c
  <2> QED
    BY <1>2, <2>1, <2>2 DEF c
<1>4. ASSUME T!Throws(w) PROVE Forgets(w)
  <2>1. workerCall' = [workerCall EXCEPT ![w] = [T!Idle EXCEPT !.pc = "threw"]]
    BY <1>4 DEF T!Throws
  <2> DEFINE c == [T!Idle EXCEPT !.pc = "threw"]
  <2>2. c.seen = T!NoTokens /\ c.got = T!NoTokens /\ c.pc = "threw"
    BY DEF T!Idle
  <2> HIDE DEF c
  <2> QED
    BY <1>2, <2>1, <2>2 DEF c
<1>5. CASE workerCall' = [workerCall EXCEPT ![w] =
             [T!Idle EXCEPT !.pc = "discover", !.mode = workerCall[w].mode,
                            !.config = workerCall[w].config]]
  <2> DEFINE c == [T!Idle EXCEPT !.pc = "discover", !.mode = workerCall[w].mode,
                                 !.config = workerCall[w].config]
  <2>2. c.seen = T!NoTokens /\ c.got = T!NoTokens /\ c.pc = "discover"
    BY DEF T!Idle
  <2> HIDE DEF c
  <2> QED
    BY <1>2, <1>5, <2>2 DEF c
<1> QED
  BY <1>3, <1>4, <1>5 DEF T!GiveUp

\* Every step has one of these effects.
LEMMA StepEffects ==
  ASSUME TokenTypeOK, ClientsKnown, T!Next
  PROVE  \/ NoEffect
         \/ \E w \in Workers : \/ Moves(w) \/ Loads(w) \/ Resets(w) \/ Clears(w) \/ Saves(w)
                               \/ Granted(w) \/ LogsIn(w)
<1>0. workerCall \in [Workers -> Calls] /\ past \in [lost : BOOLEAN, login : BOOLEAN]
  BY DEF TokenTypeOK
<1> USE <1>0
<1>1. ASSUME NEW w \in Workers, NEW m \in Modes, NEW c \in Configs, T!Begin(w, m, c) PROVE Moves(w)
  BY <1>1 DEF T!Begin, T!serverVars, T!fileVars, Moves, NoGrant, KeepsTokens, Others, Refreshes, Calls
<1>2. ASSUME NEW w \in Workers, T!Clear(w) PROVE Clears(w)
  BY <1>2 DEF T!Clear, T!Goes, T!serverVars, Clears, NoGrant, KeepsTokens, Others, Calls
<1>3. ASSUME NEW w \in Workers, T!LoadTokens(w) PROVE Resets(w) \/ Loads(w)
  <2>1. CASE T!GiveUp(w)
    BY <1>3, <2>1, EndsForget DEF T!LoadTokens, T!serverVars, T!fileVars, Resets, NoGrant
  <2>2. CASE ~T!GiveUp(w)
    BY <1>3, <2>2 DEF T!LoadTokens, T!serverVars, T!fileVars, Loads, NoGrant, Others, Calls
  <2> QED
    BY <2>1, <2>2
<1>4. ASSUME NEW w \in Workers, T!CheckValid(w) PROVE Moves(w) \/ Resets(w)
  <2>1. CASE Forgets(w)
    BY <1>4, <2>1 DEF T!CheckValid, T!serverVars, T!fileVars, Resets, NoGrant
  <2>2. CASE T!Goes(w, "credentials") /\ workerCall[w].seen.refresh # 0
    BY <1>4, <2>2 DEF T!CheckValid, T!Goes, T!serverVars, T!fileVars, Moves, NoGrant,
                      KeepsTokens, Others, Calls
  <2> QED
    BY <1>4, <2>1, <2>2, EndsForget DEF T!CheckValid
<1>5. ASSUME NEW w \in Workers, T!Credentials(w) PROVE Moves(w) \/ Resets(w)
  <2>1. CASE T!GiveUp(w)
    BY <1>5, <2>1, EndsForget DEF T!Credentials, T!serverVars, T!fileVars, Resets, NoGrant
  <2>2. CASE ~T!GiveUp(w)
    BY <1>5, <2>2 DEF T!Credentials, T!serverVars, T!fileVars, Moves, NoGrant,
                      KeepsTokens, Others, Refreshes, Calls
  <2> QED
    BY <2>1, <2>2
<1>6. ASSUME NEW w \in Workers, T!Refresh(w) PROVE Granted(w)
  BY <1>6 DEF T!Refresh, Granted, Others, Calls
<1>7. ASSUME NEW w \in Workers, T!RefreshRejected(w) PROVE Resets(w)
  BY <1>7, EndsForget DEF T!RefreshRejected, T!serverVars, T!fileVars, Resets, NoGrant
<1>8. ASSUME NEW w \in Workers, T!RefreshLost(w) PROVE Resets(w) \/ Granted(w)
  <2>1. CASE T!GrantRefresh(w) /\ past' = [past EXCEPT !.lost = TRUE]
    BY <1>8, <2>1, EndsForget DEF T!RefreshLost, Granted
  <2>2. CASE workerCall[w].pc = "refresh" /\ UNCHANGED <<T!fileVars, T!serverVars, past>>
    BY <1>8, <2>2, EndsForget DEF T!RefreshLost, T!serverVars, T!fileVars, Resets, NoGrant
  <2> QED
    BY <1>8, <2>1, <2>2 DEF T!RefreshLost
<1>9. ASSUME NEW w \in Workers, T!SaveRefreshed(w) \/ T!SaveLogin(w) PROVE Saves(w)
  BY <1>9, EndsForget DEF T!SaveRefreshed, T!SaveLogin, T!serverVars, Saves, NoGrant, Pending
<1>10. ASSUME NEW w \in Workers, T!SaveRefreshedFails(w) PROVE Resets(w)
  BY <1>10, EndsForget DEF T!SaveRefreshedFails, T!serverVars, T!fileVars, Resets, NoGrant
<1>11. ASSUME NEW w \in Workers, T!NoClient(w) \/ T!LoginThrows(w) PROVE Resets(w)
  BY <1>11, EndsForget DEF T!NoClient, T!LoginThrows, T!serverVars, T!fileVars, Resets, NoGrant
<1>12. ASSUME NEW w \in Workers, T!Discover(w) \/ T!RegisterClient(w) PROVE Moves(w)
  BY <1>12 DEF T!Discover, T!RegisterClient, T!serverVars, T!fileVars,
               Moves, NoGrant, KeepsTokens, Others, Refreshes, Calls
<1>16. ASSUME NEW w \in Workers, T!ConfiguredClient(w) \/ T!CachedClient(w) \/ T!SaveClient(w)
       PROVE  Moves(w)
  <2>1. /\ workerCall[w].pc \in {"client", "register"} /\ workerCall[w].goal \in {"refresh", "browser"}
        /\ \E n : workerCall' = [workerCall EXCEPT ![w].pc = workerCall[w].goal, ![w].client = n,
                                                  ![w].secret = TRUE]
    BY <1>16 DEF T!ConfiguredClient, T!CachedClient, T!SaveClient, T!Takes, ClientsKnown
  <2>2. KeepsTokens(w) /\ workerCall'[w].pc = workerCall[w].goal
    BY <2>1 DEF KeepsTokens, Others, Calls
  <2>3. NoGrant /\ UNCHANGED tokenFile
    BY <1>16 DEF T!ConfiguredClient, T!CachedClient, T!SaveClient, T!serverVars, T!fileVars, NoGrant
  <2> QED
    BY <2>1, <2>2, <2>3 DEF Moves, Refreshes
<1>13. ASSUME NEW w \in Workers, T!Login(w) PROVE LogsIn(w)
  BY <1>13 DEF T!Login, LogsIn, Others, Calls
<1>14. ASSUME NEW w \in Workers, T!Return(w) \/ T!Crash(w) PROVE Resets(w)
  <2>1. workerCall' = [workerCall EXCEPT ![w] = T!Idle]
    BY <1>14 DEF T!Return, T!Crash
  <2>2. Forgets(w)
    BY <2>1 DEF Forgets, Others, T!Idle
  <2>3. NoGrant /\ tokenFile' = tokenFile /\ (workerCall[w].pc = "refreshed" => past'.lost)
    BY <1>14 DEF T!Return, T!Crash, T!serverVars, T!fileVars, NoGrant
  <2> QED
    BY <2>2, <2>3 DEF Resets
<1>15. ASSUME NEW g \in T!Grants, T!Expire(g) PROVE NoEffect
  BY <1>15 DEF T!Expire, T!serverVars, T!fileVars, NoEffect
<1> QED
  BY <1>1, <1>2, <1>3, <1>4, <1>5, <1>6, <1>7, <1>8, <1>9, <1>10, <1>11, <1>12, <1>13, <1>14,
     <1>15, <1>16 DEF T!Next

-------------------------------------------------------------------------------
\* The other files and the registered clients.
LEMMA FilesTyped ==
  ASSUME TokenTypeOK, T!Next PROVE clientFile' \in Nat /\ metadata' \in BOOLEAN /\ clients' \in Nat
<1> DEFINE Same == UNCHANGED <<clientFile, metadata, clients>>
           Typed == clientFile' \in Nat /\ metadata' \in BOOLEAN /\ clients' \in Nat
<1>0. Same => Typed
  BY DEF TokenTypeOK
<1>1. ASSUME NEW w \in Workers, T!SaveClient(w) PROVE Typed
  BY <1>1 DEF T!SaveClient, T!serverVars, TokenTypeOK, Calls
<1>2. ASSUME NEW w \in Workers, T!RegisterClient(w) PROVE Typed
  BY <1>2 DEF T!RegisterClient, T!fileVars, TokenTypeOK
<1>3. ASSUME NEW w \in Workers, T!Discover(w) PROVE Typed
  BY <1>3 DEF T!Discover, T!serverVars, TokenTypeOK
<1>4. ASSUME NEW w \in Workers, T!GrantRefresh(w) PROVE Same
  BY <1>4 DEF T!GrantRefresh, T!fileVars
<1>5. ASSUME NEW w \in Workers, T!Refresh(w) \/ T!RefreshLost(w) PROVE Same
  BY <1>4, <1>5 DEF T!Refresh, T!RefreshLost, T!fileVars, T!serverVars
<1>6. ASSUME NEW w \in Workers, NEW m \in Modes, NEW c \in Configs, T!Begin(w, m, c) PROVE Same
  BY <1>6 DEF T!Begin, T!fileVars, T!serverVars
<1>7. ASSUME NEW w \in Workers,
             \/ T!Clear(w) \/ T!LoadTokens(w) \/ T!CheckValid(w) \/ T!Credentials(w)
             \/ T!RefreshRejected(w) \/ T!SaveRefreshed(w) \/ T!SaveRefreshedFails(w)
             \/ T!ConfiguredClient(w) \/ T!CachedClient(w) \/ T!NoClient(w)
      PROVE  Same
  BY <1>7 DEF T!Clear, T!LoadTokens, T!CheckValid, T!Credentials, T!RefreshRejected,
              T!SaveRefreshed, T!SaveRefreshedFails, T!ConfiguredClient, T!CachedClient,
              T!NoClient, T!fileVars, T!serverVars
<1>8. ASSUME NEW w \in Workers,
             \/ T!Login(w) \/ T!SaveLogin(w) \/ T!LoginThrows(w) \/ T!Return(w) \/ T!Crash(w)
      PROVE  Same
  BY <1>8 DEF T!Login, T!SaveLogin, T!LoginThrows, T!Return, T!Crash, T!fileVars, T!serverVars
<1>9. ASSUME NEW g \in T!Grants, T!Expire(g) PROVE Same
  BY <1>9 DEF T!Expire, T!fileVars, T!serverVars
<1> QED
  BY <1>0, <1>1, <1>2, <1>3, <1>5, <1>6, <1>7, <1>8, <1>9 DEF T!Next

\* The history keeps its type.
LEMMA PastTyped == ASSUME TokenTypeOK, T!Next PROVE past' \in [lost : BOOLEAN, login : BOOLEAN]
<1>0. past \in [lost : BOOLEAN, login : BOOLEAN]
  BY DEF TokenTypeOK
<1> DEFINE Typed == past' \in [lost : BOOLEAN, login : BOOLEAN]
<1>1. ASSUME NEW w \in Workers, T!Refresh(w) \/ T!RefreshLost(w) \/ T!SaveRefreshedFails(w) PROVE Typed
  BY <1>0, <1>1 DEF T!Refresh, T!RefreshLost, T!SaveRefreshedFails
<1>2. ASSUME NEW w \in Workers, T!Login(w) \/ T!Crash(w) PROVE Typed
  BY <1>0, <1>2 DEF T!Login, T!Crash
<1>3. ASSUME NEW w \in Workers, NEW m \in Modes, NEW c \in Configs, T!Begin(w, m, c) PROVE Typed
  BY <1>0, <1>3 DEF T!Begin
<1>4. ASSUME NEW w \in Workers,
             \/ T!Clear(w) \/ T!LoadTokens(w) \/ T!CheckValid(w) \/ T!Credentials(w)
             \/ T!RefreshRejected(w) \/ T!SaveRefreshed(w) \/ T!Discover(w) \/ T!CachedClient(w)
             \/ T!RegisterClient(w) \/ T!SaveClient(w) \/ T!SaveLogin(w) \/ T!LoginThrows(w)
             \/ T!Return(w) \/ T!ConfiguredClient(w) \/ T!NoClient(w)
      PROVE  Typed
  BY <1>0, <1>4 DEF T!Clear, T!LoadTokens, T!CheckValid, T!Credentials, T!RefreshRejected,
              T!SaveRefreshed, T!Discover, T!CachedClient, T!RegisterClient, T!SaveClient,
              T!SaveLogin, T!LoginThrows, T!Return, T!ConfiguredClient, T!NoClient
<1>5. ASSUME NEW g \in T!Grants, T!Expire(g) PROVE Typed
  BY <1>0, <1>5 DEF T!Expire
<1> QED
  BY <1>1, <1>2, <1>3, <1>4, <1>5 DEF T!Next

\* What a grant does to the server's books.
LEMMA GrantBooks ==
  ASSUME TokenTypeOK, NEW w \in Workers, T!GrantRefresh(w) \/ T!Login(w)
  PROVE  /\ issued' = issued + 1 /\ issued + 1 \in 1..MaxGrants
         /\ owner' = [owner EXCEPT ![issued + 1] = workerCall[w].client]
         /\ owner'[issued + 1] = workerCall[w].client
         /\ \A g \in 1..issued : owner'[g] = owner[g]
         /\ live' \subseteq 1..issued'
         /\ tokenFile' = tokenFile
BY TokenConstants DEF T!GrantRefresh, T!Login, T!fileVars, TokenTypeOK

\* Every step keeps the state well typed.
LEMMA TokenTypeStep == TokenTypeOK /\ ClientsKnown /\ T!Next => TokenTypeOK'
<1> SUFFICES ASSUME TokenTypeOK, ClientsKnown, T!Next PROVE TokenTypeOK'
  OBVIOUS
<1>1. workerCall' \in [Workers -> Calls]
  BY CallsTyped
<1>2. /\ clientFile' \in Nat /\ metadata' \in BOOLEAN /\ clients' \in Nat
      /\ past' \in [lost : BOOLEAN, login : BOOLEAN]
  BY FilesTyped, PastTyped
<1> DEFINE Books == /\ tokenFile' \in TokenRecords
                    /\ issued' \in 0..MaxGrants /\ live' \subseteq 1..issued'
                    /\ owner' \in [1..MaxGrants -> Nat]
<1>3. ASSUME NoEffect PROVE Books
  BY <1>3 DEF NoEffect, TokenTypeOK
<1>4. ASSUME NEW w \in Workers, Moves(w) \/ Loads(w) \/ Resets(w) PROVE Books
  <2>1. UNCHANGED <<tokenFile, issued, live, owner>>
    BY <1>4 DEF Moves, Loads, Resets, NoGrant
  <2> QED
    BY <2>1 DEF TokenTypeOK
<1>5. ASSUME NEW w \in Workers, Clears(w) \/ Saves(w) PROVE Books
  <2>1. UNCHANGED <<issued, live, owner>> /\ tokenFile' \in {T!NoTokens, workerCall[w].got}
    BY <1>5 DEF Clears, Saves, NoGrant
  <2>2. workerCall[w].got \in TokenRecords
    BY DEF TokenTypeOK, Calls
  <2> QED
    BY <2>1, <2>2, TokensAre DEF TokenTypeOK
<1>6. ASSUME NEW w \in Workers, Granted(w) \/ LogsIn(w) PROVE Books
  <2>1. T!GrantRefresh(w) \/ T!Login(w)
    BY <1>6 DEF Granted, LogsIn
  <2>2. workerCall[w].client \in Nat
    BY DEF TokenTypeOK, Calls
  <2> QED
    BY <2>1, <2>2, GrantBooks, TokenConstants DEF TokenTypeOK
<1>7. Books
  BY <1>3, <1>4, <1>5, <1>6, StepEffects
<1> QED
  BY <1>1, <1>2, <1>7 DEF TokenTypeOK

-------------------------------------------------------------------------------
\* Tokens that were issued remain so when another grant is issued.
LEMMA IssuedStays ==
  ASSUME TokenTypeOK, NEW t \in TokenRecords, Issued(t),
         issued' \in {issued, issued + 1}, \A g \in 1..issued : owner'[g] = owner[g]
  PROVE  Issued(t)'
<1>1. /\ t.access \in Nat /\ t.refresh \in Nat /\ issued \in Nat
      /\ t.access <= issued /\ t.refresh <= issued
  BY TokensAre, TokenConstants DEF Issued, TokenTypeOK
<1>2. t.access <= issued' /\ t.refresh <= issued'
  BY <1>1
<1>3. t.refresh # 0 => owner'[t.refresh] = owner[t.refresh]
  BY <1>1
<1> QED
  BY <1>2, <1>3 DEF Issued

\* Nothing is used that was not issued, and refreshes name their own client.
LEMMA AllIssuedStep == TokenTypeOK /\ AllIssued /\ ClientsKnown /\ T!Next => AllIssued'
<1> SUFFICES ASSUME TokenTypeOK, AllIssued, ClientsKnown, T!Next PROVE AllIssued'
  OBVIOUS
<1>0. /\ workerCall \in [Workers -> Calls] /\ tokenFile \in TokenRecords
      /\ \A w \in Workers : workerCall[w].seen \in TokenRecords /\ workerCall[w].got \in TokenRecords
  BY DEF TokenTypeOK, Calls
<1>1. ASSUME NoEffect PROVE AllIssued'
  BY <1>1 DEF NoEffect, AllIssued, Issued, Refreshes
<1>2. ASSUME NoGrant PROVE \A t \in TokenRecords : Issued(t) => Issued(t)'
  BY <1>2 DEF NoGrant, Issued
<1>0a. Issued(T!NoTokens)
  BY TokenConstants DEF Issued, T!NoTokens, T!Tokens, TokenTypeOK
<1>9. ASSUME NoGrant, NEW w \in Workers, Others(w),
             Issued(tokenFile'), Issued(workerCall'[w].seen), Issued(workerCall'[w].got),
             Refreshes(w)' => workerCall'[w].seen.refresh # 0
      PROVE  AllIssued'
  BY <1>0, <1>9 DEF Others, AllIssued, NoGrant, Issued, Refreshes
<1>3. ASSUME NEW w \in Workers, Moves(w) PROVE AllIssued'
  BY <1>0, <1>3, <1>9 DEF Moves, KeepsTokens, AllIssued
<1>4. ASSUME NEW w \in Workers, Loads(w) PROVE AllIssued'
  BY <1>0, <1>4, <1>9 DEF Loads, AllIssued, Refreshes
<1>5. ASSUME NEW w \in Workers, Resets(w) PROVE AllIssued'
  BY <1>0, <1>0a, <1>5, <1>9 DEF Resets, Forgets, AllIssued, Refreshes
<1>6. ASSUME NEW w \in Workers, Clears(w) PROVE AllIssued'
  BY <1>0, <1>0a, <1>6, <1>9 DEF Clears, KeepsTokens, AllIssued, Refreshes
<1>7. ASSUME NEW w \in Workers, Saves(w) PROVE AllIssued'
  BY <1>0, <1>0a, <1>7, <1>9 DEF Saves, Forgets, AllIssued, Refreshes
<1>8. ASSUME NEW w \in Workers, Granted(w) \/ LogsIn(w) PROVE AllIssued'
  <2>1. T!GrantRefresh(w) \/ T!Login(w)
    BY <1>8 DEF Granted, LogsIn
  <2>2. \A t \in TokenRecords : Issued(t) => Issued(t)'
    BY <2>1, GrantBooks, IssuedStays
  <2>3. Issued(tokenFile)'
    BY <1>0, <2>1, <2>2, GrantBooks DEF AllIssued, Issued
  <2>4. ASSUME NEW x \in Workers, x # w
        PROVE  /\ Issued(workerCall[x].seen)' /\ Issued(workerCall[x].got)'
               /\ Refreshes(x)' => workerCall'[x].seen.refresh # 0
    <3>1. workerCall'[x] = workerCall[x]
      BY <1>8, <2>4 DEF Granted, LogsIn, Others, Forgets
    <3> QED
      BY <1>0, <2>2, <3>1 DEF AllIssued, Issued, Refreshes
  <2>5. Issued(workerCall[w].seen)' /\ ~Refreshes(w)'
    <3>1. workerCall'[w].seen \in {workerCall[w].seen, T!NoTokens}
      BY <1>8 DEF Granted, LogsIn, Forgets
    <3>2. Issued(workerCall[w].seen) /\ T!NoTokens \in TokenRecords
      BY TokensAre DEF AllIssued
    <3>3. Issued(workerCall[w].seen)'
      BY <1>0, <1>0a, <2>2, <3>1, <3>2 DEF Issued
    <3> QED
      BY <1>8, <3>3 DEF Granted, LogsIn, Forgets, Refreshes
  <2>6. Issued(workerCall[w].got)'
    <3>1. CASE workerCall'[w].got = T!NoTokens
      <4>1. T!NoTokens \in TokenRecords
        BY TokensAre
      <4> QED
        BY <1>0a, <2>2, <3>1, <4>1 DEF Issued
    <3>2. CASE workerCall'[w].got \in {T!NewTokens(w), T!Tokens(issued + 1, issued + 1, workerCall[w].client)}
      <4> DEFINE t == workerCall'[w].got
      <4>1. /\ t.access = issued + 1 /\ t.refresh \in {0, issued + 1}
            /\ t.client = workerCall[w].client
        BY <3>2 DEF T!NewTokens, T!Tokens
      <4>2. workerCall[w].client # 0
        BY <2>1 DEF ClientsKnown, T!GrantRefresh, T!Login
      <4> QED
        BY <2>1, <4>1, <4>2, GrantBooks, TokenConstants DEF Issued, TokenTypeOK
    <3> QED
      BY <1>8, <3>1, <3>2 DEF Granted, LogsIn, Forgets
  <2> QED
    BY <2>3, <2>4, <2>5, <2>6 DEF AllIssued
<1> QED
  BY <1>1, <1>3, <1>4, <1>5, <1>6, <1>7, <1>8, StepEffects

\* Requests keep naming the client they should: what is configured, stored or known does
\* not change under a process that has taken it.
LEMMA ClientsStep == TokenTypeOK /\ ClientsKnown /\ T!Next => ClientsKnown'
<1> SUFFICES ASSUME TokenTypeOK, ClientsKnown, T!Next PROVE ClientsKnown'
  OBVIOUS
<1> DEFINE Right(c, file) ==
      /\ c.pc \in {"refresh", "browser", "register"} => c.client # 0
      /\ c.pc \in {"client", "register"} =>
           c.goal = "browser" \/ (c.goal = "refresh" /\ c.seen.client = 0)
      /\ c.pc = "register" => c.client > Known /\ c.config = 0 /\ file \notin 1..Known
      /\ c.pc = "refresh" =>
           CASE c.seen.client # 0 -> c.client = c.seen.client
             [] c.seen.client = 0 /\ c.config # 0 -> c.client = c.config
             [] OTHER -> file \in 1..Known => c.client = file
<1>0. /\ workerCall \in [Workers -> Calls] /\ clients \in Nat /\ clients >= Known /\ Known \in Nat
      /\ clientFile \in Nat
      /\ \A w \in Workers : Right(workerCall[w], clientFile) /\ workerCall[w] \in Calls
  BY TokenConstants DEF TokenTypeOK, ClientsKnown, Registered
<1>1. (\A w \in Workers : Right(workerCall'[w], clientFile')) /\ clients' >= Known => ClientsKnown'
  BY DEF ClientsKnown, Registered
<1> HIDE DEF Right
\* What the step of w has to show.
<1>2. ASSUME NEW w \in Workers, Others(w), clientFile' = clientFile, clients' >= Known,
             Right(workerCall'[w], clientFile)
      PROVE  ClientsKnown'
  BY <1>0, <1>1, <1>2 DEF Others
<1>3. ASSUME NEW w \in Workers, Forgets(w) PROVE Right(workerCall'[w], clientFile)
  BY <1>3 DEF Forgets, Right
<1>4. ASSUME NEW w \in Workers, T!GiveUp(w) \/ T!Throws(w) \/ (\E n, b : T!Returns(w, n, b))
      PROVE  Others(w) /\ Right(workerCall'[w], clientFile)
  BY <1>3, <1>4, EndsForget DEF Forgets
<1>5. ASSUME NEW w \in Workers, NEW pc \in {"load", "check", "clear", "credentials", "refreshed", "loggedIn"},
             Others(w), workerCall'[w].pc = pc
      PROVE  Right(workerCall'[w], clientFile)
  BY <1>5 DEF Right
<1>6. ASSUME NEW w \in Workers, NEW m \in Modes, NEW c \in Configs, T!Begin(w, m, c) PROVE ClientsKnown'
  <2>1. Others(w) /\ workerCall'[w].pc \in {"clear", "load"}
    BY <1>0, <1>6 DEF T!Begin, Others, Calls
  <2> QED
    BY <1>0, <1>2, <1>5, <1>6, <2>1 DEF T!Begin, T!fileVars, T!serverVars
<1>7. ASSUME NEW w \in Workers, T!Clear(w) PROVE ClientsKnown'
  <2>1. Others(w) /\ workerCall'[w].pc = "load"
    BY <1>0, <1>7 DEF T!Clear, T!Goes, Others, Calls
  <2> QED
    BY <1>0, <1>2, <1>5, <1>7, <2>1 DEF T!Clear, T!serverVars
<1>8. ASSUME NEW w \in Workers, T!LoadTokens(w) \/ T!CheckValid(w) PROVE ClientsKnown'
  <2>1. clientFile' = clientFile /\ clients' = clients
    BY <1>8 DEF T!LoadTokens, T!CheckValid, T!fileVars, T!serverVars
  <2>2. CASE Others(w) /\ workerCall'[w].pc \in {"check", "credentials"}
    BY <1>0, <1>2, <1>5, <2>1, <2>2
  <2>3. CASE T!GiveUp(w) \/ (\E n, b : T!Returns(w, n, b))
    BY <1>0, <1>2, <1>4, <2>1, <2>3
  <2>4. CASE T!Goes(w, "credentials")
          \/ workerCall' = [workerCall EXCEPT ![w].seen = tokenFile, ![w].pc = "check"]
    <3>1. Others(w) /\ workerCall'[w].pc \in {"check", "credentials"}
      BY <1>0, <2>4 DEF T!Goes, Others, Calls
    <3> QED
      BY <2>2, <3>1
  <2> QED
    BY <1>8, <2>3, <2>4 DEF T!LoadTokens, T!CheckValid
<1>9. ASSUME NEW w \in Workers, T!Credentials(w) PROVE ClientsKnown'
  <2>1. clientFile' = clientFile /\ clients' = clients
    BY <1>9 DEF T!Credentials, T!fileVars, T!serverVars
  <2>2. CASE T!GiveUp(w)
    BY <1>0, <1>2, <1>4, <2>1, <2>2
  <2>3. ASSUME NEW secret, workerCall[w].seen.client # 0,
               workerCall' = [workerCall EXCEPT ![w].pc = "refresh",
                                ![w].client = workerCall[w].seen.client, ![w].secret = secret]
        PROVE  ClientsKnown'
    <3>1. Others(w) /\ workerCall'[w].pc = "refresh" /\ workerCall'[w].client = workerCall[w].seen.client
          /\ workerCall'[w].seen = workerCall[w].seen
      BY <1>0, <2>3 DEF Others, Calls
    <3>2. Right(workerCall'[w], clientFile)
      BY <2>3, <3>1 DEF Right
    <3> QED
      BY <1>0, <1>2, <2>1, <3>1, <3>2
  <2>4. CASE /\ workerCall[w].seen.client = 0
             /\ workerCall' = [workerCall EXCEPT ![w].pc = "client", ![w].goal = "refresh"]
    <3>1. /\ Others(w) /\ workerCall'[w].pc = "client" /\ workerCall'[w].goal = "refresh"
          /\ workerCall'[w].seen.client = 0
      BY <1>0, <2>4 DEF Others, Calls
    <3>2. Right(workerCall'[w], clientFile)
      BY <3>1 DEF Right
    <3> QED
      BY <1>0, <1>2, <2>1, <3>1, <3>2
  <2> QED
    BY <1>9, <2>2, <2>3, <2>4 DEF T!Credentials
<1>10. ASSUME NEW w \in Workers, T!Discover(w) PROVE ClientsKnown'
  <2>1. /\ Others(w) /\ workerCall'[w].pc = "client" /\ workerCall'[w].goal = "browser"
        /\ clientFile' = clientFile /\ clients' = clients
    BY <1>0, <1>10 DEF T!Discover, T!serverVars, Others, Calls
  <2>2. Right(workerCall'[w], clientFile)
    <3>1. workerCall'[w].pc \notin {"refresh", "browser", "register"}
      BY <2>1
    <3> QED
      BY <2>1, <3>1 DEF Right
  <2> QED
    BY <1>0, <1>2, <2>1, <2>2
<1>11. ASSUME NEW w \in Workers, T!Refresh(w) \/ T!Login(w) PROVE ClientsKnown'
  <2>1. /\ Others(w) /\ workerCall'[w].pc \in {"refreshed", "loggedIn"}
        /\ clientFile' = clientFile /\ clients' = clients
    BY <1>0, <1>11 DEF T!Refresh, T!GrantRefresh, T!Login, T!fileVars, Others, Calls
  <2> QED
    BY <1>0, <1>2, <1>5, <2>1
<1>12. ASSUME NEW w \in Workers,
              \/ T!RefreshRejected(w) \/ T!RefreshLost(w) \/ T!SaveRefreshed(w)
              \/ T!SaveRefreshedFails(w) \/ T!NoClient(w) \/ T!SaveLogin(w) \/ T!LoginThrows(w)
       PROVE  ClientsKnown'
  <2>1. clientFile' = clientFile /\ clients' = clients
    BY <1>12 DEF T!RefreshRejected, T!RefreshLost, T!GrantRefresh, T!SaveRefreshed,
                 T!SaveRefreshedFails, T!NoClient, T!SaveLogin, T!LoginThrows, T!fileVars, T!serverVars
  <2>2. T!GiveUp(w) \/ T!Throws(w) \/ (\E n, b : T!Returns(w, n, b))
    BY <1>12 DEF T!RefreshRejected, T!RefreshLost, T!SaveRefreshed,
                 T!SaveRefreshedFails, T!NoClient, T!SaveLogin, T!LoginThrows
  <2> QED
    BY <1>0, <1>2, <1>4, <2>1, <2>2
<1>13. ASSUME NEW w \in Workers, T!ConfiguredClient(w) \/ T!CachedClient(w) PROVE ClientsKnown'
  <2>1. /\ clientFile' = clientFile /\ clients' = clients
        /\ T!Takes(w, T!Fallback(w)) /\ T!Fallback(w) # 0 /\ workerCall[w].pc = "client"
    BY <1>13 DEF T!ConfiguredClient, T!CachedClient, T!Fallback, T!fileVars, T!serverVars
  <2>2. /\ Others(w) /\ workerCall'[w].pc = workerCall[w].goal
        /\ workerCall'[w].client = T!Fallback(w)
        /\ workerCall'[w].seen = workerCall[w].seen /\ workerCall'[w].config = workerCall[w].config
    BY <1>0, <2>1 DEF T!Takes, Others, Calls
  <2>3. workerCall[w].config = 0 => T!Fallback(w) = clientFile
    BY DEF T!Fallback
  <2>4. workerCall[w].config # 0 => T!Fallback(w) = workerCall[w].config
    BY DEF T!Fallback
  <2>5. workerCall[w].goal = "browser" \/ (workerCall[w].goal = "refresh" /\ workerCall[w].seen.client = 0)
    BY <1>0, <2>1 DEF Right
  <2>6. Right(workerCall'[w], clientFile)
    BY <2>1, <2>2, <2>3, <2>4, <2>5 DEF Right
  <2> QED
    BY <1>0, <1>2, <2>1, <2>2, <2>6
<1>14. ASSUME NEW w \in Workers, T!RegisterClient(w) PROVE ClientsKnown'
  <2>1. /\ Others(w) /\ workerCall'[w].pc = "register" /\ workerCall'[w].client = clients + 1
        /\ workerCall'[w].goal = workerCall[w].goal /\ workerCall'[w].config = workerCall[w].config
        /\ workerCall'[w].seen = workerCall[w].seen
        /\ workerCall[w].pc = "client" /\ workerCall[w].config = 0 /\ clientFile = 0
        /\ clientFile' = clientFile /\ clients' = clients + 1
    BY <1>0, <1>14 DEF T!RegisterClient, T!fileVars, Others, Calls
  <2>2. Right(workerCall'[w], clientFile)
    BY <1>0, <2>1 DEF Right
  <2> QED
    BY <1>0, <1>2, <2>1, <2>2
<1>15. ASSUME NEW w \in Workers, T!SaveClient(w) PROVE ClientsKnown'
  <2>1. /\ Others(w) /\ workerCall'[w].pc = workerCall[w].goal
        /\ workerCall'[w].client = workerCall[w].client
        /\ workerCall'[w].seen = workerCall[w].seen /\ workerCall'[w].config = workerCall[w].config
        /\ workerCall[w].pc = "register"
        /\ clientFile' = workerCall[w].client /\ clients' = clients
    BY <1>0, <1>15 DEF T!SaveClient, T!Takes, T!serverVars, Others, Calls
  <2>2. clientFile' > Known /\ clientFile' \notin 1..Known /\ clientFile \notin 1..Known
    BY <1>0, <2>1 DEF Right, Calls
  <2>3. ASSUME NEW x \in Workers, x # w PROVE Right(workerCall'[x], clientFile')
    BY <1>0, <2>1, <2>2, <2>3 DEF Right, Others
  <2>4. Right(workerCall'[w], clientFile')
    BY <1>0, <2>1, <2>2 DEF Right
  <2> QED
    BY <1>0, <1>1, <2>1, <2>3, <2>4
<1>16. ASSUME NEW w \in Workers, T!Return(w) \/ T!Crash(w) PROVE ClientsKnown'
  <2>1. /\ Others(w) /\ workerCall'[w].pc = "idle"
        /\ clientFile' = clientFile /\ clients' = clients
    BY <1>0, <1>16 DEF T!Return, T!Crash, T!fileVars, T!serverVars, Others, T!Idle
  <2>2. Right(workerCall'[w], clientFile)
    BY <2>1 DEF Right
  <2> QED
    BY <1>0, <1>2, <2>1, <2>2
<1>17. ASSUME NEW g \in T!Grants, T!Expire(g) PROVE ClientsKnown'
  BY <1>0, <1>1, <1>17 DEF T!Expire, T!fileVars, T!serverVars
<1> QED
  BY <1>6, <1>7, <1>8, <1>9, <1>10, <1>11, <1>12, <1>13, <1>14, <1>15, <1>16, <1>17 DEF T!Next

\* A step that neither grants nor makes a token pending, and that shows no process a
\* pending refresh token, keeps those private.
LEMMA StaysPrivate ==
  ASSUME NewIsPrivate, NoGrant,
         tokenFile'.refresh \in {0, tokenFile.refresh},
         \A x \in Workers :
           /\ Pending(x)' => Pending(x) /\ workerCall'[x].got = workerCall[x].got
           /\ workerCall'[x].seen.refresh \in {0, workerCall[x].seen.refresh, tokenFile.refresh}
  PROVE  NewIsPrivate'
BY DEF NewIsPrivate, NoGrant, Pending

\* A refresh token on its way to the file stays live and private.
LEMMA PrivateStep == TokenTypeOK /\ AllIssued /\ ClientsKnown /\ NewIsPrivate /\ T!Next => NewIsPrivate'
<1> SUFFICES ASSUME TokenTypeOK, AllIssued, ClientsKnown, NewIsPrivate, T!Next PROVE NewIsPrivate'
  OBVIOUS
<1>1. ASSUME NoEffect PROVE NewIsPrivate'
  BY <1>1 DEF NoEffect, NewIsPrivate, Pending
<1>2. ASSUME NEW w \in Workers, Moves(w) PROVE NewIsPrivate'
  BY <1>2, StaysPrivate DEF Moves, KeepsTokens, Others, Pending
<1>3. ASSUME NEW w \in Workers, Loads(w) PROVE NewIsPrivate'
  BY <1>3, StaysPrivate DEF Loads, Others, Pending
<1>4. ASSUME NEW w \in Workers, Resets(w) PROVE NewIsPrivate'
  BY <1>4, StaysPrivate DEF Resets, Forgets, Others, Pending, T!NoTokens, T!Tokens
<1>5. ASSUME NEW w \in Workers, Clears(w) PROVE NewIsPrivate'
  BY <1>5, StaysPrivate DEF Clears, KeepsTokens, Others, Pending, T!NoTokens, T!Tokens
<1>6. ASSUME NEW w \in Workers, Saves(w) PROVE NewIsPrivate'
  <2> SUFFICES ASSUME NEW x \in Workers, Pending(x)', workerCall'[x].got.refresh # 0
               PROVE  /\ workerCall'[x].got.refresh \in live'
                      /\ workerCall'[x].got.refresh # tokenFile'.refresh
                      /\ \A y \in Workers :
                           /\ workerCall'[y].seen.refresh # workerCall'[x].got.refresh
                           /\ Pending(y)' /\ y # x =>
                                workerCall'[y].got.refresh # workerCall'[x].got.refresh
    BY DEF NewIsPrivate, Pending
  <2>1. x # w /\ Pending(x) /\ Pending(w)
        /\ \A y \in Workers : y # w => workerCall'[y] = workerCall[y]
        /\ workerCall'[w].seen.refresh = 0 /\ ~Pending(w)'
    BY <1>6 DEF Saves, Forgets, Others, Pending, T!NoTokens, T!Tokens
  <2>2. workerCall[w].got.refresh # workerCall[x].got.refresh
    BY <2>1 DEF NewIsPrivate
  <2> QED
    BY <1>6, <2>1, <2>2 DEF Saves, NoGrant, NewIsPrivate, Pending
<1>7. ASSUME NEW w \in Workers, Granted(w) \/ LogsIn(w) PROVE NewIsPrivate'
  <2>1. /\ T!GrantRefresh(w) \/ T!Login(w)
        /\ \A x \in Workers : x # w => workerCall'[x] = workerCall[x]
        /\ workerCall'[w].seen.refresh \in {0, workerCall[w].seen.refresh}
    BY <1>7 DEF Granted, LogsIn, Forgets, Others, T!NoTokens, T!Tokens
  <2>2. tokenFile' = tokenFile /\ issued' = issued + 1 /\ issued \in Nat
    BY <2>1, GrantBooks, TokenConstants DEF TokenTypeOK
  <2>3. /\ tokenFile.refresh <= issued
        /\ \A x \in Workers : workerCall[x].seen.refresh <= issued /\ workerCall[x].got.refresh <= issued
    BY DEF AllIssued, Issued
  <2>4. \A g : g \in live /\ g # workerCall[w].seen.refresh => g \in live'
    BY <2>1 DEF T!GrantRefresh, T!Login
  <2>5. ASSUME NEW x \in Workers, x # w, Pending(x), workerCall[x].got.refresh # 0
        PROVE  /\ workerCall[x].got.refresh \in live'
               /\ workerCall[x].got.refresh # tokenFile.refresh
               /\ \A y \in Workers :
                    /\ workerCall[y].seen.refresh # workerCall[x].got.refresh
                    /\ Pending(y) /\ y # x => workerCall[y].got.refresh # workerCall[x].got.refresh
    BY <2>4, <2>5 DEF NewIsPrivate
  <2>6. Pending(w)' /\ workerCall'[w].got.refresh # 0 =>
          workerCall'[w].got.refresh = issued + 1 /\ issued + 1 \in live'
    BY <1>7, <2>2, TokenConstants DEF Granted, LogsIn, Forgets, T!NewTokens, T!Tokens, T!GrantRefresh, T!Login, Pending
  <2>7. \A x \in Workers : x # w => (Pending(x)' <=> Pending(x))
    BY <2>1 DEF Pending
  <2>8. \A x \in Workers : /\ workerCall'[x].seen.refresh \in {0, workerCall[x].seen.refresh}
                          /\ workerCall'[x].seen.refresh # issued + 1
                          /\ workerCall[x].got.refresh # issued + 1
    <3>1. TAKE x \in Workers
    <3>2. workerCall[x].seen.refresh \in Nat /\ workerCall[x].got.refresh \in Nat
      BY DEF TokenTypeOK, Calls, TokenRecords
    <3> QED
      BY <2>1, <2>2, <2>3, <3>2
  <2>9. tokenFile.refresh # issued + 1
    BY <2>2, <2>3 DEF TokenTypeOK, TokenRecords
  <2> SUFFICES ASSUME NEW x \in Workers, Pending(x)', workerCall'[x].got.refresh # 0
               PROVE  /\ workerCall'[x].got.refresh \in live'
                      /\ workerCall'[x].got.refresh # tokenFile'.refresh
                      /\ \A y \in Workers :
                           /\ workerCall'[y].seen.refresh # workerCall'[x].got.refresh
                           /\ Pending(y)' /\ y # x =>
                                workerCall'[y].got.refresh # workerCall'[x].got.refresh
    BY DEF NewIsPrivate, Pending
  <2>10. CASE x = w
    BY <2>1, <2>2, <2>6, <2>8, <2>9, <2>10
  <2>11. CASE x # w
    <3>1. workerCall'[x] = workerCall[x] /\ Pending(x)
      BY <2>1, <2>7, <2>11
    <3>2. ASSUME NEW y \in Workers, Pending(y)', y # x
          PROVE  workerCall'[y].got.refresh # workerCall[x].got.refresh
      <4>1. CASE y = w
        BY <2>6, <2>8, <3>1, <3>2, <4>1
      <4>2. CASE y # w
        BY <2>1, <2>5, <2>7, <2>11, <3>1, <3>2, <4>2
      <4> QED
        BY <4>1, <4>2
    <3> QED
      BY <2>2, <2>5, <2>8, <2>11, <3>1, <3>2
  <2> QED
    BY <2>10, <2>11
<1> QED
  BY <1>1, <1>2, <1>3, <1>4, <1>5, <1>6, <1>7, StepEffects

\* The file's refresh token is live, lost, or about to be replaced.
LEMMA LiveStep ==
  TokenTypeOK /\ ClientsKnown /\ NewIsPrivate /\ T!FileRefreshLive /\ T!Next => T!FileRefreshLive'
<1> SUFFICES ASSUME TokenTypeOK, ClientsKnown, NewIsPrivate, T!FileRefreshLive, T!Next
             PROVE  T!FileRefreshLive'
  OBVIOUS
<1> USE DEF T!FileRefreshLive
<1>1. ASSUME NoEffect PROVE T!FileRefreshLive'
  BY <1>1 DEF NoEffect
<1>2. ASSUME NEW w \in Workers, Moves(w) PROVE T!FileRefreshLive'
  BY <1>2 DEF Moves, NoGrant, KeepsTokens, Others
<1>3. ASSUME NEW w \in Workers, Loads(w) PROVE T!FileRefreshLive'
  BY <1>3 DEF Loads, NoGrant, Others
<1>4. ASSUME NEW w \in Workers, Resets(w) PROVE T!FileRefreshLive'
  BY <1>4 DEF Resets, Forgets, NoGrant, Others
<1>5. ASSUME NEW w \in Workers, Clears(w) PROVE T!FileRefreshLive'
  BY <1>5 DEF Clears, T!NoTokens, T!Tokens
<1>6. ASSUME NEW w \in Workers, Saves(w) PROVE T!FileRefreshLive'
  BY <1>6 DEF Saves, NoGrant, NewIsPrivate
<1>7. ASSUME NEW w \in Workers, LogsIn(w) PROVE T!FileRefreshLive'
  BY <1>7 DEF LogsIn, T!Login, T!fileVars, Others
<1>8. ASSUME NEW w \in Workers, Granted(w) PROVE T!FileRefreshLive'
  <2>1. /\ tokenFile' = tokenFile /\ workerCall[w].pc = "refresh"
        /\ live' \in {live, (live \ {workerCall[w].seen.refresh}) \cup {issued + 1}}
        /\ \/ workerCall'[w].pc = "refreshed" /\ workerCall'[w].seen = workerCall[w].seen
           \/ past'.lost
        /\ past.lost => past'.lost
    BY <1>8 DEF Granted, T!GrantRefresh, T!fileVars
  <2>2. \A x \in Workers : workerCall[x].pc = "refreshed" => workerCall'[x] = workerCall[x]
    BY <1>8, <2>1 DEF Granted, Forgets, Others
  <2> QED
    BY <2>1, <2>2
<1> QED
  BY <1>1, <1>2, <1>3, <1>4, <1>5, <1>6, <1>7, <1>8, StepEffects

\* The chain of grants: only the last grant can be refreshed, and who holds it is alone.
LEMMA ChainStep ==
  TokenTypeOK /\ AllIssued /\ ClientsKnown /\ NewIsPrivate /\ OneChain /\ T!Next => OneChain'
<1> SUFFICES ASSUME TokenTypeOK, AllIssued, ClientsKnown, NewIsPrivate, OneChain, T!Next,
                    Rotates, ~past'.login
             PROVE  /\ live' \subseteq {issued'}
                    /\ \A w \in Workers : workerCall'[w].pc # "loggedIn"
                    /\ \A w \in Workers : workerCall'[w].pc = "refreshed" =>
                         workerCall'[w].got.access = issued' /\ workerCall'[w].got.refresh = issued'
  BY DEF OneChain
<1> DEFINE Goal == /\ live' \subseteq {issued'}
                   /\ \A w \in Workers : workerCall'[w].pc # "loggedIn"
                   /\ \A w \in Workers : workerCall'[w].pc = "refreshed" =>
                        workerCall'[w].got.access = issued' /\ workerCall'[w].got.refresh = issued'
<1>1. ASSUME NoEffect PROVE Goal
  BY <1>1 DEF NoEffect, OneChain
<1>2. ASSUME NEW w \in Workers, Moves(w) PROVE Goal
  BY <1>2 DEF Moves, NoGrant, KeepsTokens, Others, OneChain
<1>3. ASSUME NEW w \in Workers, Loads(w) PROVE Goal
  BY <1>3 DEF Loads, NoGrant, Others, OneChain
<1>4. ASSUME NEW w \in Workers, Resets(w) PROVE Goal
  BY <1>4 DEF Resets, Forgets, NoGrant, Others, OneChain
<1>5. ASSUME NEW w \in Workers, Clears(w) \/ Saves(w) PROVE Goal
  BY <1>5 DEF Clears, Saves, Forgets, NoGrant, KeepsTokens, Others, OneChain
<1>6. ASSUME NEW w \in Workers, LogsIn(w) PROVE FALSE
  BY <1>6 DEF LogsIn
<1>7. ASSUME NEW w \in Workers, Granted(w) PROVE Goal
  <2>1. /\ ~past.login /\ live \subseteq {issued}
        /\ \A x \in Workers : workerCall[x].pc # "loggedIn"
        /\ \A x \in Workers : workerCall[x].pc = "refreshed" =>
             workerCall[x].got.access = issued /\ workerCall[x].got.refresh = issued
    BY <1>7 DEF Granted, OneChain
  <2>2. workerCall[w].seen.refresh = issued /\ issued \in live /\ issued # 0
    <3>1. workerCall[w].seen.refresh \in live
      BY <1>7 DEF Granted, T!GrantRefresh, T!Accepts
    <3>2. live \subseteq 1..issued
      BY DEF TokenTypeOK
    <3>3. 0 \notin live
      BY <3>2
    <3> QED
      BY <2>1, <3>1, <3>3
  <2>3. live' \subseteq {issued'} /\ issued' = issued + 1
    BY <1>7, <2>1, <2>2 DEF Granted, T!GrantRefresh
  <2>4. \A x \in Workers : workerCall[x].pc # "refreshed"
    BY <2>1, <2>2 DEF NewIsPrivate, Pending
  <2>5. \A x \in Workers : x # w => workerCall'[x] = workerCall[x]
    BY <1>7 DEF Granted, Forgets, Others
  <2>6. CASE workerCall'[w].pc = "refreshed" /\ workerCall'[w].got = T!NewTokens(w)
    BY <2>1, <2>3, <2>4, <2>5, <2>6 DEF T!NewTokens, T!Tokens
  <2>7. CASE workerCall'[w].pc \notin {"refreshed", "loggedIn"}
    BY <2>1, <2>3, <2>4, <2>5, <2>7
  <2> QED
    BY <1>7, <2>6, <2>7 DEF Granted, Forgets
<1> QED
  BY <1>1, <1>2, <1>3, <1>4, <1>5, <1>6, <1>7, StepEffects

\* Only a process that saves what it was granted, or clears the file, changes it.
LEMMA SavesGoOn ==
  ASSUME TokenInv, OneChain, Rotates, T!Next
  PROVE  \/ past.login
         \/ tokenFile'.access >= tokenFile.access
         \/ \E w \in Workers : workerCall[w].pc = "clear"
<1> USE DEF TokenInv
<1>0. tokenFile.access \in Nat /\ issued \in Nat /\ tokenFile.access <= issued
  BY TokenConstants, TokensAre DEF TokenTypeOK, AllIssued, Issued
<1>1. CASE tokenFile' = tokenFile
  BY <1>0, <1>1
<1>2. ASSUME NEW w \in Workers, Clears(w) PROVE workerCall[w].pc = "clear"
  BY <1>2 DEF Clears
<1>3. ASSUME NEW w \in Workers, Saves(w), ~past.login PROVE tokenFile'.access >= tokenFile.access
  <2>1. tokenFile' = workerCall[w].got /\ workerCall[w].pc = "refreshed"
    BY <1>3 DEF Saves, Pending, OneChain
  <2>2. workerCall[w].got.access = issued
    BY <1>3, <2>1 DEF OneChain
  <2> QED
    BY <1>0, <2>1, <2>2
<1>4. ASSUME NEW w \in Workers, Moves(w) \/ Loads(w) \/ Resets(w) PROVE tokenFile' = tokenFile
  BY <1>4 DEF Moves, Loads, Resets
<1>5. ASSUME NEW w \in Workers, Granted(w) \/ LogsIn(w) PROVE tokenFile' = tokenFile
  BY <1>5 DEF Granted, LogsIn, T!GrantRefresh, T!Login, T!fileVars
<1>6. ASSUME NoEffect PROVE tokenFile' = tokenFile
  BY <1>6 DEF NoEffect
<1> QED
  BY <1>1, <1>2, <1>3, <1>4, <1>5, <1>6, StepEffects

-------------------------------------------------------------------------------
(* The same in the run, where a behaviour may be one of the state file instead. *)

StorageInv == part = "tokens" => TokenInv /\ OneChain

\* The invariant holds in every state of the run.
THEOREM TokensCorrect == MCSpec => []StorageInv
<1>1. MCInit => StorageInv
  BY TokenStart DEF MCInit, StorageInv
<1>2. StorageInv /\ [MCNext]_allVars => StorageInv'
  <2> SUFFICES ASSUME StorageInv, [MCNext]_allVars, part' = "tokens" PROVE TokenInv' /\ OneChain'
    BY DEF StorageInv
  <2>1. CASE part = "tokens" /\ T!Next
    BY <2>1, TokenTypeStep, AllIssuedStep, ClientsStep, PrivateStep, LiveStep, ChainStep
       DEF StorageInv, TokenInv
  <2>2. CASE UNCHANGED allVars
    <3>1. part = "tokens" /\ TokenInv /\ OneChain /\ UNCHANGED tokenVars
      BY <2>2 DEF allVars, StorageInv
    <3> QED
      BY <3>1 DEF tokenVars, TokenInv, OneChain, TokenTypeOK, AllIssued, Issued, Refreshes,
                  ClientsKnown, Registered, NewIsPrivate, Pending, T!FileRefreshLive
  <2> QED
    BY <2>1, <2>2 DEF MCNext
<1> QED
  BY <1>1, <1>2, PTL DEF MCSpec

\* The refresh token in the file is one the server accepts, or a grant was lost, or who
\* used it up is about to replace it, for any number of processes without a lock.
THEOREM FileStaysUsable == MCSpec => []FileRefreshLive
<1>1. StorageInv => FileRefreshLive
  BY DEF StorageInv, TokenInv, FileRefreshLive
<1> QED
  BY <1>1, TokensCorrect, PTL

\* Every refresh request names the client its refresh token was issued to, unless the
\* tokens name none and the configured client, or else that of client.json, is another.
THEOREM RefreshesNameOwner == MCSpec => []OwnClient
<1>1. ASSUME TokenInv, NEW w \in Workers, workerCall[w].pc = "refresh",
             workerCall[w].seen.client = 0,
             T!Fallback(w) = owner[workerCall[w].seen.refresh]
      PROVE  workerCall[w].client = owner[workerCall[w].seen.refresh]
  <2>1. owner[workerCall[w].seen.refresh] \in 1..Known
    BY <1>1 DEF TokenInv, AllIssued, Issued, Refreshes
  <2>2. CASE workerCall[w].config # 0
    BY <1>1, <2>2 DEF TokenInv, ClientsKnown, T!Fallback
  <2>3. CASE workerCall[w].config = 0
    <3>1. Registered /\ clientFile = owner[workerCall[w].seen.refresh]
      BY <1>1, <2>1, <2>3 DEF T!Fallback, Registered
    <3> QED
      BY <1>1, <2>3, <3>1 DEF TokenInv, ClientsKnown
  <2> QED
    BY <2>2, <2>3
<1>2. ASSUME TokenInv, NEW w \in Workers, workerCall[w].pc = "refresh",
             workerCall[w].seen.client # 0
      PROVE  workerCall[w].client = owner[workerCall[w].seen.refresh]
  BY <1>2 DEF TokenInv, AllIssued, Issued, Refreshes, ClientsKnown
<1>3. StorageInv => OwnClient
  BY <1>1, <1>2 DEF StorageInv, OwnClient, T!OwnClient
<1> QED
  BY <1>3, TokensCorrect, PTL

\* When the server rotates refresh tokens, the file never goes back to older tokens
\* unless somebody logs in again or clears it.
THEOREM FileGoesOn == ASSUME Rotates PROVE MCSpec => NeverBackwards
<1>1. StorageInv /\ [MCNext]_allVars =>
        [part = "tokens" => (past.login \/ tokenFile'.access >= tokenFile.access
                               \/ \E w \in Workers : workerCall[w].pc = "clear")]_tokenVars
  BY SavesGoOn DEF StorageInv, MCNext, allVars
<1> QED
  BY <1>1, TokensCorrect, PTL DEF MCSpec, NeverBackwards
===============================================================================
