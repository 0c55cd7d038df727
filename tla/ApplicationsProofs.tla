------------------------- MODULE ApplicationsProofs -------------------------
(***************************************************************************)
(* Applications and API keys for every number of admin requests, clients   *)
(* and tries: no application without a key, authentication only by one's   *)
(* own live key, and one success per revoked key (TypeOK,                  *)
(* ApplicationsHaveKeys, AuthenticatedByOwnKey, DeadKeysAreRefused,        *)
(* RevokedOnce and HandedOutKeyIsAccepted of Applications).                *)
(***************************************************************************)
EXTENDS Applications, TLAPS

\* The request whose revocation took effect is or will be told so.
Revoking(r) ==
    /\ pc[r] = "answer" \/ outcome[r] = "204"
    /\ request[r].op = "revoke"

\* What a handler works on at each statement, and when its rows appear.
RequestInv(r) ==
    /\ pc[r] # "waiting" => request[r] \in Inputs
    /\ pc[r] \in {"insertApplication", "insertKey", "commit"} =>
          request[r].op = "create" /\ slug[r] \in Slugs
    /\ pc[r] = "getApplication" => request[r].op \in {"issue", "rotate"}
    /\ pc[r] = "issueKey" => request[r].op = "issue" /\ Created(request[r].app)
    /\ pc[r] = "updateSecret" => request[r].op = "rotate" /\ Created(request[r].app)
    /\ pc[r] = "revokeKey" => request[r].op = "revoke"
    /\ pc[r] # "done" => outcome[r] = "none"
    /\ outcome[r] = "204" => request[r].op = "revoke"
    /\ Created(r) \/ (\E k \in KeyIds : k[1] = r /\ Stored(k)) => pc[r] \in {"answer", "done"}
    /\ Created(r) => \E k \in KeyIds : Stored(k) /\ api_keys[k].application = r
    /\ Revoking(r) => Stored(request[r].key) /\ api_keys[request[r].key].revoked

\* Two requests never revoke one key.
RevokesApart(r, q) == Revoking(r) /\ Revoking(q) => request[r].key # request[q].key

\* A prefix names one stored key, or one that is about to be.
PrefixInv ==
    /\ \A k \in KeyIds : Stored(k) => prefix[k] \in Prefixes
    /\ \A k, l \in KeyIds : Stored(k) /\ Stored(l) /\ prefix[k] = prefix[l] => k = l
    /\ \A r \in Requests : pc[r] = "commit" =>
          prefix[KeyOf(r)] \in Prefixes /\ ~PrefixTaken(prefix[KeyOf(r)])
    /\ \A r, q \in Requests : pc[r] = "commit" /\ pc[q] = "commit" /\ r # q =>
          prefix[KeyOf(r)] # prefix[KeyOf(q)]

\* What a client's handler knows after each read.  A key that was dead when it was
\* presented still is, and after the read of its row only the application can be
\* the reason.
ClientInv(c) ==
    /\ clients[c].at # "idle" => clients[c].key \in KeyIds
    /\ clients[c].at \in {"readApplication", "authenticated"} =>
          /\ Stored(clients[c].key)
          /\ api_keys[clients[c].key].application = clients[c].app
    /\ clients[c].dead =>
          /\ clients[c].at = "readKey" => Dead(clients[c].key)
          /\ clients[c].at = "readApplication" =>
                applications[clients[c].app].status = "disabled"
          /\ clients[c].at # "authenticated"

AppInv ==
    /\ TypeOK
    /\ PrefixInv
    /\ \A r \in Requests : RequestInv(r)
    /\ \A r, q \in Requests : r # q => RevokesApart(r, q)
    /\ \A c \in Clients : ClientInv(c)

---------------------------------------------------------------------------
\* The tables and locals, one by one.
LEMMA AppTypes ==
    ASSUME TypeOK
    PROVE  /\ applications \in [Requests -> ApplicationRows \cup {Null}]
           /\ api_keys \in [KeyIds -> KeyRows \cup {Null}]
           /\ prefix \in [KeyIds -> Prefixes \cup {Null}]
           /\ expired \subseteq KeyIds
           /\ request \in [Requests -> Inputs \cup {Null}]
           /\ pc \in [Requests -> Labels]
           /\ tries \in [Requests -> 0 .. SlugAttempts - 1]
           /\ slug \in [Requests -> Slugs \cup {Null}]
           /\ outcome \in [Requests -> Outcomes]
  BY DEF TypeOK

\* NULL is no row.
LEMMA RowsAreNotNull == Null \notin ApplicationRows /\ Null \notin KeyRows
  BY NullAssumption

\* What is stored is a row, and the key's application is stored too.
LEMMA StoredRows ==
    ASSUME TypeOK
    PROVE  /\ \A a \in Requests : Created(a) => applications[a] \in ApplicationRows
           /\ \A k \in KeyIds : Stored(k) =>
                 /\ api_keys[k] \in KeyRows
                 /\ api_keys[k].application \in Requests
                 /\ Created(api_keys[k].application)
<1>1. ASSUME NEW a \in Requests, Created(a)
      PROVE  applications[a] \in ApplicationRows
  BY <1>1, AppTypes DEF Created
<1>2. ASSUME NEW k \in KeyIds, Stored(k)
      PROVE  /\ api_keys[k] \in KeyRows
             /\ api_keys[k].application \in Requests
             /\ Created(api_keys[k].application)
  <2>1. api_keys[k] \in KeyRows
    BY <1>2, AppTypes DEF Stored
  <2> QED BY <1>2, <2>1 DEF TypeOK, KeyRows
<1> QED BY <1>1, <1>2

\* The key a request generates in its current try.
LEMMA KeyOfRequest ==
    ASSUME TypeOK, NEW r \in Requests
    PROVE  KeyOf(r) \in KeyIds /\ KeyOf(r)[1] = r
  BY AppTypes DEF KeyOf, KeyIds

\* The fields of each kind of request.
LEMMA InputParts ==
    ASSUME NEW in \in Inputs
    PROVE  /\ in.op \in {"create", "issue", "revoke", "rotate"}
           /\ in.op = "create" => in.name \in Names
           /\ in.op # "create" => in.app \in Requests
           /\ in.op = "issue" => in.expires \in BOOLEAN
           /\ in.op = "revoke" => in.key \in KeyIds
  BY DEF Inputs

\* What a rotation and an operator change in the row of an application.
LEMMA ChangedApplication ==
    ASSUME NEW row \in ApplicationRows, NEW secret \in Requests
    PROVE  /\ [row EXCEPT !.webhook_secret = secret] \in ApplicationRows
           /\ [row EXCEPT !.webhook_secret = secret].status = row.status
           /\ [row EXCEPT !.status = "disabled"] \in ApplicationRows
           /\ [row EXCEPT !.status = "disabled"].status = "disabled"
<1>1. [row EXCEPT !.webhook_secret = secret] \in ApplicationRows
  BY DEF ApplicationRows
<1>2. [row EXCEPT !.webhook_secret = secret].status = row.status
  BY DEF ApplicationRows
<1>3. [row EXCEPT !.status = "disabled"] \in ApplicationRows
  BY DEF ApplicationRows
<1>4. [row EXCEPT !.status = "disabled"].status = "disabled"
  BY DEF ApplicationRows
<1> QED BY <1>1, <1>2, <1>3, <1>4

\* A revocation marks the row of the key and leaves its application.
LEMMA ChangedKey ==
    ASSUME NEW row \in KeyRows
    PROVE  /\ [row EXCEPT !.revoked = TRUE] \in KeyRows
           /\ [row EXCEPT !.revoked = TRUE].revoked
           /\ [row EXCEPT !.revoked = TRUE].application = row.application
<1>1. [row EXCEPT !.revoked = TRUE] \in KeyRows
  BY DEF KeyRows
<1>2. [row EXCEPT !.revoked = TRUE].revoked
  BY DEF KeyRows
<1>3. [row EXCEPT !.revoked = TRUE].application = row.application
  BY DEF KeyRows
<1> QED BY <1>1, <1>2, <1>3

---------------------------------------------------------------------------
(* What every step respects.                                               *)

\* Rows are added and marked, never removed or handed over.
Grows ==
    /\ \A a \in Requests : Created(a) =>
          /\ applications'[a] # Null
          /\ applications[a].status = "disabled" => applications'[a].status = "disabled"
    /\ \A k \in KeyIds : Stored(k) =>
          /\ api_keys'[k] # Null
          /\ api_keys'[k].application = api_keys[k].application
          /\ api_keys[k].revoked => api_keys'[k].revoked
    /\ expired \subseteq expired'

\* A step of r leaves the other requests and the clients alone.
MovesAlone(r) ==
    /\ \A q \in Requests \ {r} :
          /\ pc'[q] = pc[q] /\ request'[q] = request[q] /\ tries'[q] = tries[q]
          /\ slug'[q] = slug[q] /\ outcome'[q] = outcome[q]
    /\ clients' = clients

\* Tables that stay as they are have grown.
LEMMA SameTablesGrow ==
    ASSUME UNCHANGED <<applications, api_keys, expired>>
    PROVE  Grows
  BY DEF Grows, Created, Stored

\* A dead key stays dead.
LEMMA DeadStaysDead ==
    ASSUME TypeOK, Grows, NEW k \in KeyIds, Dead(k)
    PROVE  Dead(k)'
<1>1. Stored(k) /\ api_keys[k].application \in Requests /\ Created(api_keys[k].application)
  BY StoredRows DEF Dead
<1> QED BY <1>1 DEF Dead, Grows, Stored

\* What a client relies on survives every step that is not its own.
LEMMA ClientsKeep ==
    ASSUME TypeOK, Grows, NEW c \in Clients, ClientInv(c), clients'[c] = clients[c]
    PROVE  ClientInv(c)'
<1>1. CASE clients[c].at \in {"readApplication", "authenticated"}
  <2>1. /\ clients[c].key \in KeyIds /\ Stored(clients[c].key)
        /\ api_keys[clients[c].key].application = clients[c].app
        /\ clients[c].app \in Requests /\ Created(clients[c].app)
    BY <1>1, StoredRows DEF ClientInv
  <2> QED BY <1>1, <2>1 DEF ClientInv, Grows, Stored
<1>2. CASE clients[c].at = "readKey"
  <2>1. PICK k \in KeyIds : k = clients[c].key
    BY <1>2 DEF ClientInv
  <2>2. clients[c].dead => Dead(k)
    BY <1>2, <2>1 DEF ClientInv
  <2>3. clients[c].dead => Dead(k)'
    BY <2>2, DeadStaysDead
  <2> QED BY <1>2, <2>1, <2>3 DEF ClientInv, Dead, Stored
<1>3. CASE clients[c].at \notin {"readKey", "readApplication", "authenticated"}
  BY <1>3 DEF ClientInv
<1> QED BY <1>1, <1>2, <1>3

\* A step of r has the invariant to restore for r only.
LEMMA OneRequestMoves ==
    ASSUME AppInv, TypeOK', NEW r \in Requests, Grows, MovesAlone(r), PrefixInv',
           RequestInv(r)', \A q \in Requests \ {r} : RevokesApart(r, q)',
           \A a \in Requests \ {r} : applications'[a] # Null => Created(a),
           \A k \in KeyIds : k[1] # r /\ api_keys'[k] # Null => Stored(k)
    PROVE  AppInv'
<1>1. ASSUME NEW q \in Requests \ {r}
      PROVE  RequestInv(q)'
  <2>1. RequestInv(q)
    BY DEF AppInv
  <2>2. /\ pc'[q] = pc[q] /\ request'[q] = request[q] /\ slug'[q] = slug[q]
        /\ outcome'[q] = outcome[q]
    BY DEF MovesAlone
  <2>3. pc[q] \in {"issueKey", "updateSecret"} =>
           request[q].app \in Requests /\ Created(request[q].app)
    <3>1. pc[q] \in {"issueKey", "updateSecret"} =>
             request[q] \in Inputs /\ request[q].op # "create" /\ Created(request[q].app)
      BY <2>1 DEF RequestInv
    <3> QED BY <3>1, InputParts
  <2>4. pc[q] \in {"issueKey", "updateSecret"} => applications'[request[q].app] # Null
    BY <2>3 DEF Grows
  <2>5. Revoking(q) =>
           /\ request[q].key \in KeyIds
           /\ api_keys'[request[q].key] # Null /\ api_keys'[request[q].key].revoked
    <3>1. Revoking(q) =>
             /\ request[q] \in Inputs /\ request[q].op = "revoke"
             /\ Stored(request[q].key) /\ api_keys[request[q].key].revoked
      BY <2>1 DEF RequestInv, Revoking
    <3> QED BY <3>1, InputParts DEF Grows
  <2>6. applications'[q] # Null =>
           \E k \in KeyIds : api_keys'[k] # Null /\ api_keys'[k].application = q
    <3>1. applications'[q] # Null =>
             \E k \in KeyIds : Stored(k) /\ api_keys[k].application = q
      BY <2>1 DEF RequestInv
    <3> QED BY <3>1 DEF Grows
  <2>7. applications'[q] # Null \/ (\E k \in KeyIds : k[1] = q /\ api_keys'[k] # Null)
           => pc[q] \in {"answer", "done"}
    BY <2>1 DEF RequestInv
  <2>8. Revoking(q)' <=> Revoking(q)
    BY <2>2 DEF Revoking
  <2> QED BY <2>1, <2>2, <2>4, <2>5, <2>6, <2>7, <2>8 DEF RequestInv, Created, Stored
<1>2. ASSUME NEW q \in Requests \ {r}
      PROVE  RevokesApart(q, r)'
  BY DEF RevokesApart
<1>3. ASSUME NEW q \in Requests \ {r}, NEW t \in Requests \ {r}, q # t
      PROVE  RevokesApart(q, t)'
  <2>1. RevokesApart(q, t)
    BY <1>3 DEF AppInv
  <2> QED BY <2>1 DEF RevokesApart, Revoking, MovesAlone
<1>4. \A q \in Requests : RequestInv(q)'
  BY <1>1
<1>5. \A q, t \in Requests : q # t => RevokesApart(q, t)'
  BY <1>2, <1>3
<1>6. \A c \in Clients : ClientInv(c)'
  BY ClientsKeep DEF AppInv, MovesAlone
<1> QED BY <1>4, <1>5, <1>6 DEF AppInv

\* A request that does not revoke is apart from those that do.
LEMMA NoNewRevocation ==
    ASSUME AppInv, NEW r \in Requests, NEW q \in Requests \ {r}, MovesAlone(r),
           Revoking(r)' => Revoking(r) /\ request'[r] = request[r]
    PROVE  RevokesApart(r, q)'
<1>1. RevokesApart(r, q)
  BY DEF AppInv
<1>2. Revoking(q)' => Revoking(q) /\ request'[q] = request[q]
  BY DEF Revoking, MovesAlone
<1>3. ASSUME Revoking(r)', Revoking(q)'
      PROVE  request'[r].key # request'[q].key
  BY <1>1, <1>2, <1>3 DEF RevokesApart
<1> QED BY <1>3 DEF RevokesApart

\* Prefixes keep their owners when no key is stored and none gets ready.
LEMMA NoNewKey ==
    ASSUME AppInv, NEW r \in Requests, MovesAlone(r), TypeOK',
           \A k \in KeyIds : api_keys'[k] # Null => Stored(k),
           \A k \in KeyIds : Stored(k) => prefix'[k] = prefix[k],
           \A q \in Requests \ {r} : prefix'[KeyOf(q)] = prefix[KeyOf(q)],
           pc'[r] # "commit"
    PROVE  PrefixInv'
<1>1. \A q \in Requests : pc'[q] = "commit" =>
         /\ q # r /\ pc[q] = "commit" /\ KeyOf(q)' = KeyOf(q)
         /\ prefix'[KeyOf(q)'] = prefix[KeyOf(q)]
  BY DEF MovesAlone, KeyOf
<1>2. \A k \in KeyIds : Stored(k)' => Stored(k) /\ prefix'[k] = prefix[k]
  BY DEF Stored
<1>3. \A p : PrefixTaken(p)' => PrefixTaken(p)
  BY <1>2 DEF PrefixTaken
<1> QED BY <1>1, <1>2, <1>3 DEF AppInv, PrefixInv

\* The prefix of the key that r generates is all that changes.
PrefixMoves(r) ==
    \/ prefix' = prefix
    \/ /\ pc[r] \in {"insertKey", "issueKey"}
       /\ \E p \in Prefixes : prefix' = [prefix EXCEPT ![KeyOf(r)] = p]

\* That key is not stored and no other request's.
LEMMA PrefixesStay ==
    ASSUME AppInv, NEW r \in Requests, PrefixMoves(r)
    PROVE  /\ prefix' \in [KeyIds -> Prefixes \cup {Null}]
           /\ \A k \in KeyIds : Stored(k) => prefix'[k] = prefix[k]
           /\ \A q \in Requests \ {r} : prefix'[KeyOf(q)] = prefix[KeyOf(q)]
<1>1. TypeOK /\ RequestInv(r) /\ prefix \in [KeyIds -> Prefixes \cup {Null}]
  BY AppTypes DEF AppInv
<1>2. CASE prefix' = prefix
  BY <1>1, <1>2
<1>3. ASSUME pc[r] \in {"insertKey", "issueKey"}, NEW p \in Prefixes,
             prefix' = [prefix EXCEPT ![KeyOf(r)] = p]
      PROVE  /\ prefix' \in [KeyIds -> Prefixes \cup {Null}]
             /\ \A k \in KeyIds : Stored(k) => prefix'[k] = prefix[k]
             /\ \A q \in Requests \ {r} : prefix'[KeyOf(q)] = prefix[KeyOf(q)]
  <2>1. \A k \in KeyIds : k # KeyOf(r) => prefix'[k] = prefix[k]
    BY <1>1, <1>3
  <2>2. ~Stored(KeyOf(r))
    BY <1>1, <1>3, KeyOfRequest DEF RequestInv
  <2>3. \A q \in Requests \ {r} : KeyOf(q) \in KeyIds /\ KeyOf(q) # KeyOf(r)
    BY <1>1, KeyOfRequest
  <2> QED BY <1>1, <1>3, <2>1, <2>2, <2>3
<1> QED BY <1>2, <1>3 DEF PrefixMoves

\* A step that writes no row has little to restore.
LEMMA QuietStep ==
    ASSUME AppInv, TypeOK', NEW r \in Requests, MovesAlone(r), PrefixMoves(r),
           UNCHANGED <<applications, api_keys, expired>>,
           RequestInv(r)', pc'[r] # "commit",
           Revoking(r)' => Revoking(r) /\ request'[r] = request[r]
    PROVE  AppInv'
<1>1. Grows
  BY SameTablesGrow
<1>2. PrefixInv'
  BY PrefixesStay, NoNewKey DEF Stored
<1>3. \A q \in Requests \ {r} : RevokesApart(r, q)'
  BY NoNewRevocation
<1> QED BY <1>1, <1>2, <1>3, OneRequestMoves DEF Created, Stored

---------------------------------------------------------------------------
(* The invariant, action by action.                                        *)

\* An answer changes no row; success of a revocation follows its effect.
LEMMA RespondApp ==
    ASSUME AppInv, NEW r \in Requests, NEW answer \in Outcomes, Respond(r, answer),
           pc[r] # "waiting", answer = "204" => pc[r] = "answer" /\ request[r].op = "revoke",
           PrefixMoves(r),
           UNCHANGED <<applications, api_keys, expired, request, tries, slug, clients>>
    PROVE  AppInv'
<1>1. TypeOK /\ RequestInv(r)
  BY DEF AppInv
<1>2. /\ pc'[r] = "done" /\ outcome'[r] = answer /\ MovesAlone(r)
      /\ pc' \in [Requests -> Labels] /\ outcome' \in [Requests -> Outcomes]
  BY <1>1, AppTypes DEF Respond, Goto, MovesAlone, Labels
<1>3. TypeOK'
  BY <1>1, <1>2, PrefixesStay DEF TypeOK, Stored, Created
<1>4. Revoking(r)' => Revoking(r) /\ request'[r] = request[r]
  BY <1>2 DEF Revoking
<1>5. RequestInv(r)'
  BY <1>1, <1>2, <1>4 DEF RequestInv, Created, Stored
<1> QED BY <1>2, <1>3, <1>4, <1>5, QuietStep

\* A unique violation restarts the transaction with another slug, or ends it.
LEMMA NextTryApp ==
    ASSUME AppInv, NEW r \in Requests, NextTry(r),
           pc[r] \in {"insertApplication", "insertKey"}, PrefixMoves(r),
           UNCHANGED <<applications, api_keys, expired, request, clients>>
    PROVE  AppInv'
<1>1. /\ TypeOK /\ RequestInv(r) /\ request[r] \in Inputs /\ request[r].op = "create"
      /\ request[r].name \in Names /\ pc[r] # "waiting"
  BY InputParts DEF AppInv, RequestInv
<1>2. CASE LastTry(r)
  <2>1. "ErrConflict" \in Outcomes
    BY DEF Outcomes
  <2> QED BY <1>1, <1>2, <2>1, RespondApp DEF NextTry, locals
<1>3. CASE ~LastTry(r)
  <2>1. PICK s \in Suffixes : slug' = [slug EXCEPT ![r] = <<request[r].name, s>>]
    BY <1>3 DEF NextTry
  <2>2. /\ tries' = [tries EXCEPT ![r] = tries[r] + 1]
        /\ pc' = [pc EXCEPT ![r] = "insertApplication"] /\ outcome' = outcome
    BY <1>3 DEF NextTry, Goto
  <2>3. tries[r] + 1 \in 0 .. SlugAttempts - 1
    <3>1. tries[r] \in 0 .. SlugAttempts - 1 /\ tries[r] + 1 # SlugAttempts
      BY <1>1, <1>3, AppTypes DEF LastTry
    <3> QED BY <3>1, SlugAttemptsAssumption
  <2>4. <<request[r].name, s>> \in Slugs
    BY <1>1 DEF Slugs
  <2>5. /\ pc'[r] = "insertApplication" /\ slug'[r] \in Slugs /\ MovesAlone(r)
        /\ pc' \in [Requests -> Labels]
        /\ tries' \in [Requests -> 0 .. SlugAttempts - 1]
        /\ slug' \in [Requests -> Slugs \cup {Null}]
    BY <1>1, <2>1, <2>2, <2>3, <2>4, AppTypes DEF MovesAlone, Labels
  <2>6. TypeOK'
    BY <1>1, <2>2, <2>5, PrefixesStay DEF TypeOK, Stored, Created
  <2>7. outcome[r] = "none"
    BY <1>1 DEF RequestInv
  <2>8. ~Revoking(r)'
    BY <2>2, <2>5, <2>7 DEF Revoking
  <2>9. RequestInv(r)'
    BY <1>1, <2>2, <2>5, <2>7, <2>8 DEF RequestInv, Created, Stored
  <2> QED BY <2>5, <2>6, <2>8, <2>9, QuietStep
<1> QED BY <1>2, <1>3

\* A request is received once, before any of its rows exist.
LEMMA ReceiveApp ==
    ASSUME AppInv, NEW r \in Requests, NEW in \in Inputs, Receive(r, in)
    PROVE  AppInv'
<1>1. /\ TypeOK /\ RequestInv(r) /\ pc[r] = "waiting" /\ outcome[r] = "none"
      /\ UNCHANGED <<applications, api_keys, prefix, expired, tries, clients>>
      /\ request' = [request EXCEPT ![r] = in]
  BY DEF AppInv, RequestInv, Receive, tables, generated
<1>2. CASE /\ Goto(r, FirstStatement(in)) /\ UNCHANGED outcome
           /\ slug' = [slug EXCEPT ![r] =
                          IF in.op = "create" THEN <<in.name, Null>> ELSE Null]
  <2>1. PICK first : slug' = [slug EXCEPT ![r] = first]
                       /\ first \in Slugs \cup {Null} /\ (in.op = "create" => first \in Slugs)
    <3>1. CASE in.op = "create"
      <4>1. <<in.name, Null>> \in Slugs
        BY <3>1, InputParts DEF Slugs
      <4>2. slug' = [slug EXCEPT ![r] = <<in.name, Null>>]
        BY <1>2, <3>1
      <4> QED BY <4>1, <4>2
    <3>2. CASE in.op # "create"
      <4>1. slug' = [slug EXCEPT ![r] = Null]
        BY <1>2, <3>2
      <4> QED BY <3>2, <4>1
    <3> QED BY <3>1, <3>2
  <2>2. PICK label \in {"insertApplication", "revokeKey", "getApplication"} :
          /\ pc' = [pc EXCEPT ![r] = label]
          /\ label = "insertApplication" => in.op = "create"
          /\ label = "revokeKey" => in.op = "revoke"
          /\ label = "getApplication" => in.op \in {"issue", "rotate"}
    BY <1>2, InputParts DEF Goto, FirstStatement
  <2>3. /\ pc'[r] = label /\ request'[r] = in /\ slug'[r] = first /\ MovesAlone(r)
        /\ outcome'[r] = "none"
        /\ pc' \in [Requests -> Labels] /\ request' \in [Requests -> Inputs \cup {Null}]
        /\ slug' \in [Requests -> Slugs \cup {Null}]
    BY <1>1, <1>2, <2>1, <2>2, AppTypes DEF MovesAlone, Labels
  <2>4. TypeOK'
    BY <1>1, <1>2, <2>3 DEF TypeOK, Stored, Created
  <2>5. ~Revoking(r)'
    BY <2>3 DEF Revoking
  <2>6. RequestInv(r)'
    BY <1>1, <2>1, <2>2, <2>3, <2>5 DEF RequestInv, Created, Stored
  <2> QED BY <1>1, <2>3, <2>4, <2>5, <2>6, QuietStep DEF PrefixMoves
<1>3. CASE in.op = "create" /\ Respond(r, "ErrValidation") /\ UNCHANGED slug
  <2>1. /\ pc'[r] = "done" /\ request'[r] = in /\ outcome'[r] = "ErrValidation"
        /\ MovesAlone(r)
        /\ pc' \in [Requests -> Labels] /\ request' \in [Requests -> Inputs \cup {Null}]
        /\ outcome' \in [Requests -> Outcomes]
    BY <1>1, <1>3, AppTypes DEF Respond, Goto, MovesAlone, Labels, Outcomes
  <2>2. TypeOK'
    BY <1>1, <1>3, <2>1 DEF TypeOK, Stored, Created
  <2>3. ~Revoking(r)'
    BY <2>1 DEF Revoking
  <2>4. RequestInv(r)'
    BY <1>1, <2>1, <2>3 DEF RequestInv, Created, Stored
  <2> QED BY <1>1, <2>1, <2>2, <2>3, <2>4, QuietStep DEF PrefixMoves
<1> QED BY <1>2, <1>3 DEF Receive

\* The slug is free, or the request tries another.
LEMMA InsertApplicationApp ==
    ASSUME AppInv, NEW r \in Requests, InsertApplication(r)
    PROVE  AppInv'
<1>1. /\ TypeOK /\ RequestInv(r) /\ pc[r] = "insertApplication"
      /\ UNCHANGED <<applications, api_keys, prefix, expired, request, clients>>
  BY DEF AppInv, InsertApplication, tables, generated
<1>2. CASE NextTry(r)
  BY <1>1, <1>2, NextTryApp DEF PrefixMoves
<1>3. CASE Goto(r, "insertKey") /\ UNCHANGED <<locals, outcome>>
  <2>1. /\ pc'[r] = "insertKey" /\ MovesAlone(r) /\ UNCHANGED <<tries, slug, outcome>>
        /\ pc' \in [Requests -> Labels]
    BY <1>1, <1>3, AppTypes DEF Goto, MovesAlone, Labels, locals
  <2>2. TypeOK'
    BY <1>1, <2>1 DEF TypeOK, Stored, Created
  <2>3. ~Revoking(r)'
    BY <1>1, <2>1 DEF RequestInv, Revoking
  <2>4. RequestInv(r)'
    BY <1>1, <2>1, <2>3 DEF RequestInv, Created, Stored
  <2> QED BY <1>1, <2>1, <2>2, <2>3, <2>4, QuietStep DEF PrefixMoves
<1> QED BY <1>2, <1>3 DEF InsertApplication

\* The key gets a prefix that no stored key has and nobody is about to store.
LEMMA InsertKeyApp ==
    ASSUME AppInv, NEW r \in Requests, InsertKey(r)
    PROVE  AppInv'
<1>1. /\ TypeOK /\ RequestInv(r) /\ PrefixInv /\ pc[r] = "insertKey"
      /\ UNCHANGED <<applications, api_keys, expired, request, clients>>
  BY DEF AppInv, InsertKey, tables
<1>2. PICK p \in Prefixes :
        /\ ~PrefixWaits(r, p)
        /\ prefix' = [prefix EXCEPT ![KeyOf(r)] = p]
        /\ IF PrefixTaken(p)
           THEN NextTry(r)
           ELSE Goto(r, "commit") /\ UNCHANGED <<locals, outcome>>
  BY DEF InsertKey
<1>3. PrefixMoves(r)
  BY <1>1, <1>2 DEF PrefixMoves
<1>4. CASE NextTry(r)
  BY <1>1, <1>3, <1>4, NextTryApp
<1>5. CASE ~PrefixTaken(p) /\ Goto(r, "commit") /\ UNCHANGED <<locals, outcome>>
  <2>1. /\ pc'[r] = "commit" /\ MovesAlone(r) /\ UNCHANGED <<tries, slug, outcome>>
        /\ pc' \in [Requests -> Labels]
    BY <1>1, <1>5, AppTypes DEF Goto, MovesAlone, Labels, locals
  <2>2. TypeOK'
    BY <1>1, <1>3, <2>1, PrefixesStay DEF TypeOK, Stored, Created
  <2>3. ~Revoking(r)'
    BY <1>1, <2>1 DEF RequestInv, Revoking
  <2>4. RequestInv(r)'
    BY <1>1, <2>1, <2>3 DEF RequestInv, Created, Stored
  <2>5. PrefixInv'
    <3>1. \A k \in KeyIds : Stored(k)' => Stored(k) /\ prefix'[k] = prefix[k]
      BY <1>1, <1>3, PrefixesStay DEF Stored
    <3>2. \A q \in Requests : tries'[q] = tries[q]
      BY <2>1
    <3>3. prefix'[KeyOf(r)] = p
      BY <1>1, <1>2, KeyOfRequest, AppTypes
    <3>4. \A q \in Requests \ {r} : pc'[q] = "commit" =>
            /\ pc[q] = "commit" /\ prefix'[KeyOf(q)] = prefix[KeyOf(q)]
            /\ prefix[KeyOf(q)] # p
      BY <1>2, <1>3, <2>1, PrefixesStay DEF MovesAlone, PrefixWaits
    <3>5. \A k \in KeyIds : Stored(k)' => prefix'[k] \in Prefixes
      BY <1>1, <3>1 DEF PrefixInv
    <3>6. \A k, l \in KeyIds : Stored(k)' /\ Stored(l)' /\ prefix'[k] = prefix'[l] => k = l
      BY <1>1, <3>1 DEF PrefixInv
    <3>7. \A q \in Requests : pc'[q] = "commit" =>
            /\ prefix'[KeyOf(q)] \in Prefixes
            /\ \A k \in KeyIds : Stored(k)' => prefix'[k] # prefix'[KeyOf(q)]
      BY <1>1, <1>5, <3>1, <3>3, <3>4 DEF PrefixInv, PrefixTaken
    <3>8. \A q, t \in Requests : pc'[q] = "commit" /\ pc'[t] = "commit" /\ q # t =>
            prefix'[KeyOf(q)] # prefix'[KeyOf(t)]
      BY <1>1, <3>3, <3>4 DEF PrefixInv
    <3> QED BY <3>2, <3>5, <3>6, <3>7, <3>8 DEF PrefixInv, PrefixTaken, KeyOf
  <2>6. \A q \in Requests \ {r} : RevokesApart(r, q)'
    BY <2>3 DEF RevokesApart
  <2> QED BY <1>1, <2>1, <2>2, <2>4, <2>5, <2>6, SameTablesGrow, OneRequestMoves
          DEF Created, Stored
<1> QED BY <1>2, <1>4, <1>5

\* The application a request names is looked up before it is used.
LEMMA GetApplicationApp ==
    ASSUME AppInv, NEW r \in Requests, GetApplication(r)
    PROVE  AppInv'
<1>1. /\ TypeOK /\ RequestInv(r) /\ pc[r] = "getApplication"
      /\ request[r] \in Inputs /\ request[r].op \in {"issue", "rotate"} /\ outcome[r] = "none"
      /\ UNCHANGED <<applications, api_keys, prefix, expired, request, tries, slug, clients>>
  BY DEF AppInv, RequestInv, GetApplication, tables, generated, locals
<1>2. CASE Respond(r, "ErrNotFound")
  <2>1. "ErrNotFound" \in Outcomes
    BY DEF Outcomes
  <2> QED BY <1>1, <1>2, <2>1, RespondApp DEF PrefixMoves
<1>3. CASE /\ Created(request[r].app) /\ UNCHANGED outcome
           /\ Goto(r, IF request[r].op = "issue" THEN "issueKey" ELSE "updateSecret")
  <2>1. /\ pc'[r] \in {"issueKey", "updateSecret"} /\ MovesAlone(r)
        /\ pc'[r] = "issueKey" => request[r].op = "issue"
        /\ pc'[r] = "updateSecret" => request[r].op = "rotate"
        /\ pc' \in [Requests -> Labels]
    BY <1>1, <1>3, AppTypes DEF Goto, MovesAlone, Labels
  <2>2. TypeOK'
    BY <1>1, <1>3, <2>1 DEF TypeOK, Stored, Created
  <2>3. ~Revoking(r)'
    BY <1>1, <1>3, <2>1 DEF Revoking
  <2>4. RequestInv(r)'
    BY <1>1, <1>3, <2>1, <2>3 DEF RequestInv, Created, Stored
  <2> QED BY <1>1, <2>1, <2>2, <2>3, <2>4, QuietStep DEF PrefixMoves
<1> QED BY <1>2, <1>3 DEF GetApplication

\* The answer follows the effect of the request.
LEMMA AnswerApp ==
    ASSUME AppInv, NEW r \in Requests, Answer(r)
    PROVE  AppInv'
<1>1. /\ pc[r] = "answer"
      /\ UNCHANGED <<applications, api_keys, prefix, expired, request, tries, slug, clients>>
  BY DEF Answer, tables, generated, locals
<1>2. PICK answer \in Outcomes :
        Respond(r, answer) /\ (answer = "204" => request[r].op = "revoke")
  BY DEF Answer, Outcomes
<1> QED BY <1>1, <1>2, RespondApp DEF PrefixMoves

\* A failed request leaves nothing but what it has committed.
LEMMA FailApp ==
    ASSUME AppInv, NEW r \in Requests, Fail(r)
    PROVE  AppInv'
<1>1. "internalError" \in Outcomes
  BY DEF Outcomes
<1> QED BY <1>1, RespondApp DEF Fail, PrefixMoves, tables, generated, locals

\* A new key takes no other's place and no other's prefix.
LEMMA KeyStored ==
    ASSUME AppInv, NEW r \in Requests, pc[r] \in {"commit", "issueKey"},
           NEW a \in Requests, NEW e \in BOOLEAN, api_keys' = NewKey(r, a, e),
           NEW p \in Prefixes, PrefixMoves(r), prefix'[KeyOf(r)] = p, ~PrefixTaken(p),
           \A q \in Requests \ {r} : pc[q] = "commit" => prefix[KeyOf(q)] # p,
           pc'[r] = "answer", MovesAlone(r), tries' = tries
    PROVE  /\ api_keys' \in [KeyIds -> KeyRows \cup {Null}]
           /\ ~Stored(KeyOf(r)) /\ api_keys'[KeyOf(r)] # Null
           /\ api_keys'[KeyOf(r)].application = a
           /\ \A k \in KeyIds \ {KeyOf(r)} : api_keys'[k] = api_keys[k]
           /\ PrefixInv'
<1> DEFINE row == [application |-> a, expires |-> e, revoked |-> FALSE]
<1>1. /\ TypeOK /\ PrefixInv /\ KeyOf(r) \in KeyIds /\ KeyOf(r)[1] = r
      /\ api_keys \in [KeyIds -> KeyRows \cup {Null}]
  BY KeyOfRequest, AppTypes DEF AppInv
<1>2. row \in KeyRows /\ row.application = a
  BY DEF KeyRows
<1>3. api_keys' = [api_keys EXCEPT ![KeyOf(r)] = row]
  BY DEF NewKey
<1> HIDE DEF row
<1>4. /\ api_keys' \in [KeyIds -> KeyRows \cup {Null}]
      /\ api_keys'[KeyOf(r)] = row
      /\ \A k \in KeyIds \ {KeyOf(r)} : api_keys'[k] = api_keys[k]
  BY <1>1, <1>2, <1>3
<1>5. ~Stored(KeyOf(r))
  <2>1. RequestInv(r)
    BY DEF AppInv
  <2> QED BY <1>1, <2>1 DEF RequestInv
<1>6. PrefixInv'
  <2>1. \A k \in KeyIds : Stored(k)' =>
          \/ k = KeyOf(r) /\ prefix'[k] = p
          \/ Stored(k) /\ prefix'[k] = prefix[k] /\ prefix[k] # p
    BY <1>4, PrefixesStay DEF Stored, PrefixTaken
  <2>2. \A q \in Requests : pc'[q] = "commit" =>
          /\ pc[q] = "commit" /\ prefix'[KeyOf(q)] = prefix[KeyOf(q)]
          /\ prefix[KeyOf(q)] # p
    BY PrefixesStay DEF MovesAlone
  <2>3. \A k \in KeyIds : Stored(k)' => prefix'[k] \in Prefixes
    BY <1>1, <2>1 DEF PrefixInv
  <2>4. \A k, l \in KeyIds : Stored(k)' /\ Stored(l)' /\ prefix'[k] = prefix'[l] => k = l
    BY <1>1, <2>1 DEF PrefixInv
  <2>5. \A q \in Requests : pc'[q] = "commit" =>
          /\ prefix'[KeyOf(q)] \in Prefixes
          /\ \A k \in KeyIds : Stored(k)' => prefix'[k] # prefix'[KeyOf(q)]
    BY <1>1, <2>1, <2>2 DEF PrefixInv, PrefixTaken
  <2>6. \A q, t \in Requests : pc'[q] = "commit" /\ pc'[t] = "commit" /\ q # t =>
          prefix'[KeyOf(q)] # prefix'[KeyOf(t)]
    BY <1>1, <2>2 DEF PrefixInv
  <2> QED BY <2>3, <2>4, <2>5, <2>6 DEF PrefixInv, PrefixTaken, KeyOf
<1> QED BY <1>2, <1>4, <1>5, <1>6, RowsAreNotNull

\* The application and its first key appear together.
LEMMA CommitApp ==
    ASSUME AppInv, NEW r \in Requests, Commit(r)
    PROVE  AppInv'
<1> DEFINE row == [slug |-> slug[r], status |-> "active", webhook_secret |-> r]
<1>1. /\ TypeOK /\ RequestInv(r) /\ PrefixInv /\ pc[r] = "commit" /\ slug[r] \in Slugs
      /\ UNCHANGED <<prefix, expired, request, tries, slug, outcome, clients>>
      /\ api_keys' = NewKey(r, r, FALSE)
  BY DEF AppInv, RequestInv, Commit, KeysAfterCommit, generated, locals
<1>2. row \in ApplicationRows
  BY <1>1 DEF ApplicationRows
<1>3. applications' = [applications EXCEPT ![r] = row]
  BY DEF Commit
<1> HIDE DEF row
<1>4. /\ applications' \in [Requests -> ApplicationRows \cup {Null}]
      /\ applications'[r] # Null /\ ~Created(r)
      /\ \A a \in Requests \ {r} : applications'[a] = applications[a]
  BY <1>1, <1>2, <1>3, AppTypes, RowsAreNotNull DEF RequestInv
<1>5. /\ pc'[r] = "answer" /\ MovesAlone(r) /\ pc' \in [Requests -> Labels]
  BY <1>1, AppTypes DEF Commit, Goto, MovesAlone, Labels
<1>6. PICK p \in Prefixes :
        /\ prefix'[KeyOf(r)] = p /\ ~PrefixTaken(p)
        /\ \A q \in Requests \ {r} : pc[q] = "commit" => prefix[KeyOf(q)] # p
  BY <1>1 DEF PrefixInv
<1>7. PrefixMoves(r)
  BY <1>1 DEF PrefixMoves
<1>8. /\ api_keys' \in [KeyIds -> KeyRows \cup {Null}]
      /\ ~Stored(KeyOf(r)) /\ api_keys'[KeyOf(r)] # Null
      /\ api_keys'[KeyOf(r)].application = r
      /\ \A k \in KeyIds \ {KeyOf(r)} : api_keys'[k] = api_keys[k]
      /\ PrefixInv'
  BY <1>1, <1>5, <1>6, <1>7, KeyStored
<1>9. Grows
  BY <1>1, <1>4, <1>8 DEF Grows, Created, Stored
<1>10. TypeOK'
  <2>1. ASSUME NEW k \in KeyIds, api_keys'[k] # Null
        PROVE  applications'[api_keys'[k].application] # Null
    <3>1. CASE k = KeyOf(r)
      BY <1>4, <1>8, <3>1
    <3>2. CASE k # KeyOf(r)
      <4>1. Stored(k) /\ api_keys'[k] = api_keys[k]
        BY <1>8, <2>1, <3>2 DEF Stored
      <4>2. api_keys[k].application \in Requests /\ Created(api_keys[k].application)
        BY <1>1, <4>1, StoredRows
      <4> QED BY <1>9, <4>1, <4>2 DEF Grows
    <3> QED BY <3>1, <3>2
  <2> QED BY <1>1, <1>4, <1>5, <1>8, <2>1 DEF TypeOK, Stored, Created
<1>11. ~Revoking(r)'
  BY <1>1, <1>5 DEF RequestInv, Revoking
<1>12. RequestInv(r)'
  BY <1>1, <1>5, <1>8, <1>11, KeyOfRequest DEF RequestInv, Created, Stored
<1>13. \A q \in Requests \ {r} : RevokesApart(r, q)'
  BY <1>11 DEF RevokesApart
<1>14. \A k \in KeyIds : k[1] # r /\ api_keys'[k] # Null => Stored(k)
  BY <1>1, <1>8, KeyOfRequest DEF Stored
<1> QED BY <1>4, <1>5, <1>8, <1>9, <1>10, <1>12, <1>13, <1>14, OneRequestMoves DEF Created

\* A further key of an application that exists.
LEMMA IssueKeyApp ==
    ASSUME AppInv, NEW r \in Requests, IssueKey(r)
    PROVE  AppInv'
<1>1. /\ TypeOK /\ RequestInv(r) /\ PrefixInv /\ pc[r] = "issueKey"
      /\ request[r] \in Inputs /\ request[r].op = "issue" /\ Created(request[r].app)
      /\ request[r].app \in Requests /\ request[r].expires \in BOOLEAN /\ outcome[r] = "none"
      /\ UNCHANGED <<applications, expired, request, tries, slug, clients>>
  BY InputParts DEF AppInv, RequestInv, IssueKey, locals
<1>2. PICK p \in Prefixes :
        /\ ~PrefixWaits(r, p)
        /\ prefix' = [prefix EXCEPT ![KeyOf(r)] = p]
        /\ IF PrefixTaken(p)
           THEN Respond(r, "internalError") /\ UNCHANGED api_keys
           ELSE /\ Goto(r, "answer")
                /\ api_keys' = NewKey(r, request[r].app, request[r].expires)
                /\ UNCHANGED outcome
  BY DEF IssueKey
<1>3. PrefixMoves(r)
  BY <1>1, <1>2 DEF PrefixMoves
<1>4. CASE Respond(r, "internalError") /\ UNCHANGED api_keys
  <2>1. "internalError" \in Outcomes
    BY DEF Outcomes
  <2> QED BY <1>1, <1>3, <1>4, <2>1, RespondApp
<1>5. CASE /\ ~PrefixTaken(p) /\ Goto(r, "answer") /\ UNCHANGED outcome
           /\ api_keys' = NewKey(r, request[r].app, request[r].expires)
  <2>1. /\ pc'[r] = "answer" /\ MovesAlone(r) /\ pc' \in [Requests -> Labels]
    BY <1>1, <1>5, AppTypes DEF Goto, MovesAlone, Labels
  <2>2. prefix'[KeyOf(r)] = p
    BY <1>1, <1>2, KeyOfRequest, AppTypes
  <2>3. \A q \in Requests \ {r} : pc[q] = "commit" => prefix[KeyOf(q)] # p
    BY <1>2 DEF PrefixWaits
  <2>4. /\ api_keys' \in [KeyIds -> KeyRows \cup {Null}]
        /\ ~Stored(KeyOf(r)) /\ api_keys'[KeyOf(r)] # Null
        /\ api_keys'[KeyOf(r)].application = request[r].app
        /\ \A k \in KeyIds \ {KeyOf(r)} : api_keys'[k] = api_keys[k]
        /\ PrefixInv'
    BY <1>1, <1>3, <1>5, <2>1, <2>2, <2>3, KeyStored
  <2>5. Grows
    BY <1>1, <2>4 DEF Grows, Created, Stored
  <2>6. TypeOK'
    <3>1. \A k \in KeyIds : api_keys'[k] # Null => applications'[api_keys'[k].application] # Null
      BY <1>1, <2>4, StoredRows DEF Created, Stored
    <3> QED BY <1>1, <1>3, <1>5, <2>1, <2>4, <3>1, PrefixesStay DEF TypeOK, Stored, Created
  <2>7. ~Revoking(r)'
    BY <1>1, <1>5 DEF Revoking
  <2>8. RequestInv(r)'
    <3>1. applications'[r] # Null =>
            \E k \in KeyIds : api_keys'[k] # Null /\ api_keys'[k].application = r
      <4>1. applications'[r] # Null =>
              \E k \in KeyIds : Stored(k) /\ api_keys[k].application = r
        BY <1>1 DEF RequestInv, Created
      <4> QED BY <2>5, <4>1 DEF Grows
    <3> QED BY <1>1, <1>5, <2>1, <2>7, <3>1 DEF RequestInv, Created, Stored
  <2>9. \A q \in Requests \ {r} : RevokesApart(r, q)'
    BY <2>7 DEF RevokesApart
  <2>10. \A k \in KeyIds : k[1] # r /\ api_keys'[k] # Null => Stored(k)
    BY <1>1, <2>4, KeyOfRequest DEF Stored
  <2> QED BY <1>1, <2>1, <2>4, <2>5, <2>6, <2>8, <2>9, <2>10, OneRequestMoves DEF Created
<1> QED BY <1>2, <1>4, <1>5

\* A rotated secret is written to an application that exists.
LEMMA UpdateSecretApp ==
    ASSUME AppInv, NEW r \in Requests, UpdateWebhookSecret(r)
    PROVE  AppInv'
<1>1. /\ TypeOK /\ RequestInv(r) /\ pc[r] = "updateSecret" /\ outcome[r] = "none"
      /\ request[r] \in Inputs /\ request[r].op = "rotate" /\ Created(request[r].app)
      /\ UNCHANGED <<api_keys, prefix, expired, request, tries, slug, outcome, clients>>
  BY DEF AppInv, RequestInv, UpdateWebhookSecret, generated, locals
<1>2. PICK a \in Requests : a = request[r].app
  BY <1>1, InputParts
<1>3. applications[a] \in ApplicationRows
  BY <1>1, <1>2, StoredRows
<1>4. applications' = [applications EXCEPT ![a] = [applications[a] EXCEPT !.webhook_secret = r]]
  BY <1>2 DEF UpdateWebhookSecret
<1>5. PICK row \in ApplicationRows :
        row = [applications[a] EXCEPT !.webhook_secret = r] /\ row.status = applications[a].status
  BY <1>3, ChangedApplication
<1>6. /\ applications' \in [Requests -> ApplicationRows \cup {Null}]
      /\ applications'[a] # Null /\ applications'[a].status = applications[a].status
      /\ \A b \in Requests \ {a} : applications'[b] = applications[b]
  BY <1>1, <1>4, <1>5, AppTypes, RowsAreNotNull
<1>7. Grows
  BY <1>1, <1>6 DEF Grows, Created, Stored
<1>8. \A b \in Requests : applications'[b] # Null <=> Created(b)
  BY <1>1, <1>2, <1>6 DEF Created
<1>9. /\ pc'[r] = "answer" /\ MovesAlone(r) /\ pc' \in [Requests -> Labels]
  BY <1>1, AppTypes DEF UpdateWebhookSecret, Goto, MovesAlone, Labels
<1>10. TypeOK'
  <2>1. \A k \in KeyIds : api_keys'[k] # Null => applications'[api_keys'[k].application] # Null
    BY <1>1, <1>8, StoredRows DEF Stored
  <2> QED BY <1>1, <1>6, <1>9, <2>1 DEF TypeOK, Stored, Created
<1>11. PrefixInv'
  BY <1>1, <1>9, <1>10, NoNewKey DEF Stored
<1>12. ~Revoking(r)'
  BY <1>1 DEF Revoking
<1>13. RequestInv(r)'
  BY <1>1, <1>8, <1>9, <1>12 DEF RequestInv, Created, Stored
<1>14. \A q \in Requests \ {r} : RevokesApart(r, q)'
  BY <1>12 DEF RevokesApart
<1> QED BY <1>1, <1>7, <1>8, <1>9, <1>10, <1>11, <1>13, <1>14, OneRequestMoves DEF Stored

\* The first revocation of a key is the only one that affects a row.
LEMMA RevokeKeyApp ==
    ASSUME AppInv, NEW r \in Requests, RevokeKey(r)
    PROVE  AppInv'
<1>1. /\ TypeOK /\ RequestInv(r) /\ pc[r] = "revokeKey" /\ outcome[r] = "none"
      /\ request[r] \in Inputs /\ request[r].op = "revoke"
      /\ UNCHANGED <<applications, prefix, expired, request, tries, slug, clients>>
  BY DEF AppInv, RequestInv, RevokeKey, generated, locals
<1>2. PICK k \in KeyIds : k = request[r].key
  BY <1>1, InputParts
<1>3. CASE Respond(r, "ErrNotFound") /\ UNCHANGED api_keys
  <2>1. "ErrNotFound" \in Outcomes
    BY DEF Outcomes
  <2> QED BY <1>1, <1>3, <2>1, RespondApp DEF PrefixMoves
<1>4. CASE /\ Stored(k) /\ ~api_keys[k].revoked
           /\ api_keys' = [api_keys EXCEPT ![k] = [api_keys[k] EXCEPT !.revoked = TRUE]]
           /\ Goto(r, "answer") /\ UNCHANGED outcome
  <2>1. api_keys[k] \in KeyRows
    BY <1>1, <1>4, StoredRows
  <2>2. PICK row \in KeyRows :
          /\ row = [api_keys[k] EXCEPT !.revoked = TRUE]
          /\ row.revoked /\ row.application = api_keys[k].application
    BY <2>1, ChangedKey
  <2>3. /\ api_keys' \in [KeyIds -> KeyRows \cup {Null}]
        /\ api_keys'[k] # Null /\ api_keys'[k].revoked
        /\ api_keys'[k].application = api_keys[k].application
        /\ \A l \in KeyIds \ {k} : api_keys'[l] = api_keys[l]
    BY <1>1, <1>4, <2>2, AppTypes, RowsAreNotNull
  <2>4. Grows
    BY <1>1, <2>3 DEF Grows, Created, Stored
  <2>5. \A l \in KeyIds : api_keys'[l] # Null <=> Stored(l)
    BY <1>4, <2>3 DEF Stored
  <2>6. /\ pc'[r] = "answer" /\ MovesAlone(r) /\ pc' \in [Requests -> Labels]
    BY <1>1, <1>4, AppTypes DEF Goto, MovesAlone, Labels
  <2>7. TypeOK'
    <3>1. \A l \in KeyIds : api_keys'[l] # Null => applications'[api_keys'[l].application] # Null
      BY <1>1, <2>3, <2>5, StoredRows DEF Created, Stored
    <3> QED BY <1>1, <1>4, <2>3, <2>6, <3>1 DEF TypeOK, Stored, Created
  <2>8. PrefixInv'
    BY <1>1, <2>5, <2>6, <2>7, NoNewKey
  <2>9. RequestInv(r)'
    <3>1. applications'[r] # Null =>
            \E l \in KeyIds : api_keys'[l] # Null /\ api_keys'[l].application = r
      <4>1. applications'[r] # Null =>
              \E l \in KeyIds : Stored(l) /\ api_keys[l].application = r
        BY <1>1 DEF RequestInv, Created
      <4> QED BY <2>4, <4>1 DEF Grows
    <3> QED BY <1>1, <1>2, <1>4, <2>3, <2>6, <3>1 DEF RequestInv, Revoking, Created, Stored
  <2>10. ASSUME NEW q \in Requests \ {r}
         PROVE  RevokesApart(r, q)'
    <3>1. Revoking(q) => api_keys[request[q].key].revoked
      BY DEF AppInv, RequestInv
    <3>2. Revoking(q) => request[q].key # request[r].key
      BY <1>2, <1>4, <3>1
    <3> QED BY <1>1, <2>6, <3>2 DEF RevokesApart, Revoking, MovesAlone
  <2> QED BY <1>1, <2>4, <2>5, <2>6, <2>7, <2>8, <2>9, <2>10, OneRequestMoves DEF Created
<1> QED BY <1>2, <1>3, <1>4 DEF RevokeKey, Revokes

\* Nobody waits for what an operator does.
LEMMA DisableApp ==
    ASSUME AppInv, NEW a \in Requests, Disable(a)
    PROVE  AppInv'
<1>1. /\ TypeOK /\ RequestInv(a) /\ Created(a) /\ applications[a] \in ApplicationRows
      /\ UNCHANGED <<api_keys, prefix, expired, request, pc, tries, slug, outcome, clients>>
      /\ applications' = [applications EXCEPT ![a] = [applications[a] EXCEPT !.status = "disabled"]]
  BY StoredRows DEF AppInv, Disable, generated, locals
<1>2. PICK row \in ApplicationRows :
        row = [applications[a] EXCEPT !.status = "disabled"] /\ row.status = "disabled"
  BY <1>1, ChangedApplication
<1>3. /\ applications' \in [Requests -> ApplicationRows \cup {Null}]
      /\ applications'[a] # Null /\ applications'[a].status = "disabled"
      /\ \A b \in Requests \ {a} : applications'[b] = applications[b]
  BY <1>1, <1>2, AppTypes, RowsAreNotNull
<1>4. Grows /\ MovesAlone(a)
  BY <1>1, <1>3 DEF Grows, MovesAlone, Created, Stored
<1>5. \A b \in Requests : applications'[b] # Null <=> Created(b)
  BY <1>1, <1>3 DEF Created
<1>6. TypeOK'
  <2>1. \A k \in KeyIds : api_keys'[k] # Null => applications'[api_keys'[k].application] # Null
    BY <1>1, <1>5, StoredRows DEF Stored
  <2> QED BY <1>1, <1>3, <2>1 DEF TypeOK, Stored, Created
<1>7. PrefixInv'
  BY <1>1 DEF AppInv, PrefixInv, PrefixTaken, Stored, KeyOf
<1>8. RequestInv(a)'
  <2>1. pc[a] \in {"issueKey", "updateSecret"} =>
           request[a].app \in Requests /\ Created(request[a].app)
    <3>1. pc[a] \in {"issueKey", "updateSecret"} =>
             request[a] \in Inputs /\ request[a].op # "create" /\ Created(request[a].app)
      BY <1>1 DEF RequestInv
    <3> QED BY <3>1, InputParts
  <2> QED BY <1>1, <1>5, <2>1 DEF RequestInv, Revoking, Created, Stored
<1>9. \A q \in Requests \ {a} : RevokesApart(a, q)'
  BY <1>1 DEF AppInv, RevokesApart, Revoking
<1> QED BY <1>1, <1>4, <1>5, <1>6, <1>7, <1>8, <1>9, OneRequestMoves DEF Stored

\* Nor for the expiry of a key.
LEMMA ExpireApp ==
    ASSUME AppInv, NEW k \in KeyIds, Expire(k)
    PROVE  AppInv'
<1>1. /\ TypeOK /\ expired' = expired \cup {k}
      /\ UNCHANGED <<applications, api_keys, prefix, request, pc, tries, slug, outcome, clients>>
  BY DEF AppInv, Expire, tables, locals
<1>2. TypeOK' /\ Grows
  BY <1>1 DEF TypeOK, Grows, Stored, Created
<1>3. \A c \in Clients : ClientInv(c)'
  BY <1>1, <1>2, ClientsKeep DEF AppInv
<1>4. PrefixInv'
  BY <1>1 DEF AppInv, PrefixInv, PrefixTaken, Stored, KeyOf
<1>5. \A r \in Requests : RequestInv(r)'
  BY <1>1 DEF AppInv, RequestInv, Revoking, Stored, Created
<1>6. \A r, q \in Requests : r # q => RevokesApart(r, q)'
  BY <1>1 DEF AppInv, RevokesApart, Revoking
<1> QED BY <1>2, <1>3, <1>4, <1>5, <1>6 DEF AppInv

---------------------------------------------------------------------------
(* Clients.                                                                *)

ClientStates ==
    [at : {"idle", "readKey", "readApplication", "authenticated", "refused"},
     key : KeyIds \cup {Null}, app : Requests \cup {Null}, dead : BOOLEAN]

\* Nothing but a client's own state moves.
ClientMoves(c, state) ==
    /\ SetClient(c, state)
    /\ UNCHANGED <<applications, api_keys, prefix, expired, request, pc, tries, slug, outcome>>

\* A step of a client has the invariant to restore for that client only.
LEMMA OneClientMoves ==
    ASSUME AppInv, NEW c \in Clients, NEW state \in ClientStates, ClientMoves(c, state),
           state.at # "idle" => state.key \in KeyIds,
           state.at \in {"readApplication", "authenticated"} =>
              Stored(state.key) /\ api_keys[state.key].application = state.app,
           state.dead =>
              /\ state.at = "readKey" => Dead(state.key)
              /\ state.at = "readApplication" => applications[state.app].status = "disabled"
              /\ state.at # "authenticated"
    PROVE  AppInv'
<1>1. TypeOK /\ clients \in [Clients -> ClientStates]
  BY DEF AppInv, TypeOK, ClientStates
<1>2. /\ clients' \in [Clients -> ClientStates] /\ clients'[c] = state
      /\ \A d \in Clients \ {c} : clients'[d] = clients[d]
  BY <1>1 DEF ClientMoves, SetClient
<1>3. UNCHANGED <<applications, api_keys, prefix, expired, request, pc, tries, slug, outcome>>
  BY DEF ClientMoves
<1>4. TypeOK'
  BY <1>1, <1>2, <1>3 DEF TypeOK, Stored, Created, ClientStates
<1>5. PrefixInv'
  BY <1>3 DEF AppInv, PrefixInv, PrefixTaken, Stored, KeyOf
<1>6. \A r \in Requests : RequestInv(r)'
  BY <1>3 DEF AppInv, RequestInv, Revoking, Stored, Created
<1>7. \A r, q \in Requests : r # q => RevokesApart(r, q)'
  BY <1>3 DEF AppInv, RevokesApart, Revoking
<1>8. ASSUME NEW d \in Clients \ {c}
      PROVE  ClientInv(d)'
  BY <1>1, <1>2, <1>3, SameTablesGrow, ClientsKeep DEF AppInv
<1>9. ClientInv(c)'
  BY <1>2, <1>3 DEF ClientInv, Dead, Stored
<1> QED BY <1>4, <1>5, <1>6, <1>7, <1>8, <1>9 DEF AppInv

\* A client's state after a read.
LEMMA ClientFields ==
    ASSUME NEW state \in ClientStates, NEW a \in Requests
    PROVE  /\ [state EXCEPT !.at = "refused"] \in ClientStates
           /\ [state EXCEPT !.at = "refused"].at = "refused"
           /\ [state EXCEPT !.at = "refused"].key = state.key
           /\ [state EXCEPT !.at = "authenticated"] \in ClientStates
           /\ [state EXCEPT !.at = "authenticated"].at = "authenticated"
           /\ [state EXCEPT !.at = "authenticated"].key = state.key
           /\ [state EXCEPT !.at = "authenticated"].app = state.app
           /\ [state EXCEPT !.at = "authenticated"].dead = state.dead
           /\ [state EXCEPT !.at = "readApplication", !.app = a] \in ClientStates
           /\ [state EXCEPT !.at = "readApplication", !.app = a].at = "readApplication"
           /\ [state EXCEPT !.at = "readApplication", !.app = a].key = state.key
           /\ [state EXCEPT !.at = "readApplication", !.app = a].app = a
           /\ [state EXCEPT !.at = "readApplication", !.app = a].dead = state.dead
<1>1. /\ [state EXCEPT !.at = "refused"] \in ClientStates
      /\ [state EXCEPT !.at = "authenticated"] \in ClientStates
      /\ [state EXCEPT !.at = "readApplication", !.app = a] \in ClientStates
  BY DEF ClientStates
<1>2. /\ [state EXCEPT !.at = "refused"].at = "refused"
      /\ [state EXCEPT !.at = "refused"].key = state.key
  BY DEF ClientStates
<1>3. /\ [state EXCEPT !.at = "authenticated"].at = "authenticated"
      /\ [state EXCEPT !.at = "authenticated"].key = state.key
      /\ [state EXCEPT !.at = "authenticated"].app = state.app
      /\ [state EXCEPT !.at = "authenticated"].dead = state.dead
  BY DEF ClientStates
<1>4. /\ [state EXCEPT !.at = "readApplication", !.app = a].at = "readApplication"
      /\ [state EXCEPT !.at = "readApplication", !.app = a].key = state.key
      /\ [state EXCEPT !.at = "readApplication", !.app = a].app = a
      /\ [state EXCEPT !.at = "readApplication", !.app = a].dead = state.dead
  BY DEF ClientStates
<1> QED BY <1>1, <1>2, <1>3, <1>4

\* A refused client relies on nothing.
LEMMA RefuseApp ==
    ASSUME AppInv, NEW c \in Clients, clients[c].at # "idle", Refuse(c),
           UNCHANGED <<tables, generated, request, pc, locals, outcome>>
    PROVE  AppInv'
<1>1. clients[c] \in ClientStates /\ clients[c].key \in KeyIds
  BY DEF AppInv, TypeOK, ClientInv, ClientStates
<1>2. PICK k \in KeyIds, a \in Requests : clients[c].key = k
  BY <1>1 DEF KeyIds
<1>3. PICK state \in ClientStates :
        /\ state = [clients[c] EXCEPT !.at = "refused"]
        /\ state.at = "refused" /\ state.key \in KeyIds
  BY <1>1, <1>2, ClientFields
<1>4. ClientMoves(c, state)
  BY <1>3 DEF ClientMoves, Refuse, tables, generated, locals
<1> QED BY <1>3, <1>4, OneClientMoves

\* That a key is dead when it is presented is what the client remembers.
LEMMA PresentApp ==
    ASSUME AppInv, NEW c \in Clients, NEW k \in KeyIds, Present(c, k)
    PROVE  AppInv'
<1>1. PICK dead \in BOOLEAN : dead <=> Dead(k)
  OBVIOUS
<1>2. [at |-> "readKey", key |-> k, app |-> Null, dead |-> Dead(k)]
        = [at |-> "readKey", key |-> k, app |-> Null, dead |-> dead]
  BY <1>1 DEF Dead
<1> DEFINE state == [at |-> "readKey", key |-> k, app |-> Null, dead |-> dead]
<1>3. state \in ClientStates
  BY DEF ClientStates
<1>4. state.at = "readKey" /\ state.key = k /\ state.dead = dead
  OBVIOUS
<1>5. SetClient(c, state)
  BY <1>2 DEF Present
<1> HIDE DEF state
<1>6. ClientMoves(c, state)
  BY <1>5 DEF ClientMoves, Present, tables, generated, locals
<1> QED BY <1>1, <1>3, <1>4, <1>6, OneClientMoves

\* The row that is found is that of the presented key, and is used only if neither
\* revocation nor expiry made the key dead.
LEMMA ReadKeyApp ==
    ASSUME AppInv, NEW c \in Clients, ReadKey(c)
    PROVE  AppInv'
<1>1. /\ TypeOK /\ ClientInv(c) /\ clients[c].at = "readKey" /\ clients[c].key \in KeyIds
      /\ clients[c] \in ClientStates
      /\ UNCHANGED <<tables, generated, request, pc, locals, outcome>>
  BY DEF AppInv, TypeOK, ReadKey, ClientInv, ClientStates
<1>2. CASE Refuse(c)
  BY <1>1, <1>2, RefuseApp
<1>3. ASSUME NEW k \in KeyIds, Stored(k), Verify(k, clients[c].key), Usable(k),
             SetClient(c, [clients[c] EXCEPT !.at = "readApplication",
                                !.app = api_keys[k].application])
      PROVE  AppInv'
  <2>1. k = clients[c].key
    BY <1>3 DEF Verify
  <2>2. PICK a \in Requests : a = api_keys[k].application
    BY <1>1, <1>3, StoredRows
  <2> DEFINE state == [clients[c] EXCEPT !.at = "readApplication", !.app = a]
  <2>3. /\ state \in ClientStates
        /\ state.at = "readApplication" /\ state.key = clients[c].key /\ state.app = a
        /\ state.dead = clients[c].dead
    BY <1>1, ClientFields
  <2>4. ClientMoves(c, state)
    BY <1>1, <1>3, <2>2 DEF ClientMoves, tables, generated, locals
  <2> HIDE DEF state
  <2>5. clients[c].dead => applications[a].status = "disabled"
    <3>1. clients[c].dead => Dead(k)
      BY <1>1, <2>1 DEF ClientInv
    <3> QED BY <1>3, <2>2, <3>1 DEF Dead, Usable
  <2> QED BY <1>3, <2>1, <2>2, <2>3, <2>4, <2>5, OneClientMoves
<1> QED BY <1>1, <1>2, <1>3 DEF ReadKey

\* The application of the key is read last, and a disabled one refuses.
LEMMA ReadApplicationApp ==
    ASSUME AppInv, NEW c \in Clients, ReadApplication(c)
    PROVE  AppInv'
<1>1. /\ TypeOK /\ ClientInv(c) /\ clients[c].at = "readApplication"
      /\ clients[c].key \in KeyIds /\ clients[c] \in ClientStates
      /\ Stored(clients[c].key) /\ api_keys[clients[c].key].application = clients[c].app
      /\ UNCHANGED <<tables, generated, request, pc, locals, outcome>>
  BY DEF AppInv, TypeOK, ReadApplication, ClientInv, ClientStates
<1>2. CASE Refuse(c)
  BY <1>1, <1>2, RefuseApp
<1>3. CASE /\ applications[clients[c].app].status = "active"
           /\ SetClient(c, [clients[c] EXCEPT !.at = "authenticated"])
  <2>1. PICK a \in Requests : a = clients[c].app
    BY <1>1, StoredRows
  <2>2. PICK state \in ClientStates :
          /\ state = [clients[c] EXCEPT !.at = "authenticated"]
          /\ state.at = "authenticated" /\ state.key = clients[c].key
          /\ state.app = clients[c].app /\ state.dead = clients[c].dead
    BY <1>1, <2>1, ClientFields
  <2>3. ClientMoves(c, state)
    BY <1>1, <1>3, <2>2 DEF ClientMoves, tables, generated, locals
  <2>4. ~clients[c].dead
    BY <1>1, <1>3 DEF ClientInv
  <2> QED BY <1>1, <2>2, <2>3, <2>4, OneClientMoves
<1> QED BY <1>2, <1>3 DEF ReadApplication

\* A request that is over is forgotten.
LEMMA EndRequestApp ==
    ASSUME AppInv, NEW c \in Clients, EndRequest(c)
    PROVE  AppInv'
<1>1. PICK state \in ClientStates :
        state = IdleClient /\ state.at = "idle" /\ state.dead = FALSE
  <2>1. IdleClient \in ClientStates
    BY DEF ClientStates, IdleClient
  <2>2. IdleClient.at = "idle" /\ IdleClient.dead = FALSE
    BY DEF IdleClient
  <2> QED BY <2>1, <2>2
<1>2. ClientMoves(c, state)
  BY <1>1 DEF ClientMoves, EndRequest, tables, generated, locals
<1> QED BY <1>1, <1>2, OneClientMoves

---------------------------------------------------------------------------
\* Nothing is stored and nothing asked for in the beginning.
LEMMA InitApp == Init => AppInv
<1> SUFFICES ASSUME Init PROVE AppInv
  OBVIOUS
<1>1. /\ \A a \in Requests : ~Created(a)
      /\ \A k \in KeyIds : ~Stored(k)
  BY DEF Init, Created, Stored
<1>2. IdleClient \in ClientStates /\ IdleClient.at = "idle" /\ IdleClient.dead = FALSE
  <2>1. IdleClient \in ClientStates
    BY DEF ClientStates, IdleClient
  <2>2. IdleClient.at = "idle" /\ IdleClient.dead = FALSE
    BY DEF IdleClient
  <2> QED BY <2>1, <2>2
<1>3. TypeOK
  <2>1. 0 \in 0 .. SlugAttempts - 1
    BY SlugAttemptsAssumption
  <2>2. clients \in [Clients -> ClientStates]
    BY <1>2 DEF Init
  <2>3. /\ applications \in [Requests -> ApplicationRows \cup {Null}]
        /\ api_keys \in [KeyIds -> KeyRows \cup {Null}]
        /\ prefix \in [KeyIds -> Prefixes \cup {Null}]
        /\ expired \subseteq KeyIds
        /\ request \in [Requests -> Inputs \cup {Null}]
        /\ pc \in [Requests -> Labels]
        /\ tries \in [Requests -> 0 .. SlugAttempts - 1]
        /\ slug \in [Requests -> Slugs \cup {Null}]
        /\ outcome \in [Requests -> Outcomes]
    BY <2>1 DEF Init, Labels, Outcomes
  <2> QED BY <1>1, <2>2, <2>3 DEF TypeOK, ClientStates
<1>4. PrefixInv
  BY <1>1 DEF Init, PrefixInv
<1>5. /\ \A r \in Requests : pc[r] = "waiting" /\ outcome[r] = "none"
      /\ \A c \in Clients : clients[c] = IdleClient
  BY DEF Init
<1>6. \A r \in Requests : ~Revoking(r)
  BY <1>5 DEF Revoking
<1>7. \A r \in Requests : RequestInv(r)
  BY <1>1, <1>5, <1>6 DEF RequestInv
<1>8. \A r, q \in Requests : r # q => RevokesApart(r, q)
  BY <1>6 DEF RevokesApart
<1>9. \A c \in Clients : ClientInv(c)
  BY <1>2, <1>5 DEF ClientInv
<1> QED BY <1>3, <1>4, <1>7, <1>8, <1>9 DEF AppInv

\* Every step keeps the invariant.
LEMMA NextApp == AppInv /\ [Next]_vars => AppInv'
<1> SUFFICES ASSUME AppInv, [Next]_vars PROVE AppInv'
  OBVIOUS
<1>1. ASSUME NEW r \in Requests, NEW in \in Inputs, Receive(r, in) PROVE AppInv'
  BY <1>1, ReceiveApp
<1>2. ASSUME NEW r \in Requests, HandlerStep(r) PROVE AppInv'
  BY <1>2, InsertApplicationApp, InsertKeyApp, CommitApp, GetApplicationApp, IssueKeyApp,
     UpdateSecretApp, RevokeKeyApp, AnswerApp DEF HandlerStep
<1>3. ASSUME NEW r \in Requests, Fail(r) PROVE AppInv'
  BY <1>3, FailApp
<1>4. ASSUME NEW r \in Requests, Disable(r) PROVE AppInv'
  BY <1>4, DisableApp
<1>5. ASSUME NEW c \in Clients, ClientStep(c) PROVE AppInv'
  BY <1>5, ReadKeyApp, ReadApplicationApp, EndRequestApp DEF ClientStep
<1>6. ASSUME NEW c \in Clients, NEW k \in KeyIds, Present(c, k) PROVE AppInv'
  BY <1>6, PresentApp
<1>7. ASSUME NEW k \in KeyIds, Expire(k) PROVE AppInv'
  BY <1>7, ExpireApp
<1>8. CASE UNCHANGED vars
  <2>1. UNCHANGED <<applications, api_keys, prefix, expired, request, pc, tries, slug, outcome,
                    clients>>
    BY <1>8 DEF vars, tables, generated, locals
  <2>2. TypeOK'
    BY <2>1 DEF AppInv, TypeOK, Stored, Created
  <2>3. PrefixInv'
    BY <2>1 DEF AppInv, PrefixInv, PrefixTaken, Stored, KeyOf
  <2>4. \A r \in Requests : RequestInv(r)'
    BY <2>1 DEF AppInv, RequestInv, Revoking, Stored, Created
  <2>5. \A r, q \in Requests : r # q => RevokesApart(r, q)'
    BY <2>1 DEF AppInv, RevokesApart, Revoking
  <2>6. \A c \in Clients : ClientInv(c)'
    BY <2>1, SameTablesGrow, ClientsKeep DEF AppInv
  <2> QED BY <2>2, <2>3, <2>4, <2>5, <2>6 DEF AppInv
<1> QED BY <1>1, <1>2, <1>3, <1>4, <1>5, <1>6, <1>7, <1>8 DEF Next

\* The invariant holds of every execution.
LEMMA AppInvariant == Spec => []AppInv
<1> QED BY InitApp, NextApp, PTL DEF Spec

\* The tables and locals keep their types and a key refers to a stored application,
\* however the requests interleave.
THEOREM AppTypesCorrect == Spec => []TypeOK
<1>1. AppInv => TypeOK
  BY DEF AppInv
<1> QED BY <1>1, AppInvariant, PTL

\* No application exists without a key, whatever tries failed before it was stored.
THEOREM CredentialsExist == Spec => []ApplicationsHaveKeys
<1>1. AppInv => ApplicationsHaveKeys
  BY DEF AppInv, RequestInv, ApplicationsHaveKeys
<1> QED BY <1>1, AppInvariant, PTL

\* A caller acts for the application of the key it presented, and of no other.
THEOREM AuthenticationCorrect == Spec => []AuthenticatedByOwnKey
<1>1. AppInv => AuthenticatedByOwnKey
  BY DEF AppInv, ClientInv, AuthenticatedByOwnKey
<1> QED BY <1>1, AppInvariant, PTL

\* A key that was dead when it was presented never authenticates, although the key
\* and the application are read one after the other.
THEOREM DeadKeysRefused == Spec => []DeadKeysAreRefused
<1>1. AppInv => DeadKeysAreRefused
  BY DEF AppInv, ClientInv, DeadKeysAreRefused
<1> QED BY <1>1, AppInvariant, PTL

\* Of the requests that revoke one key at once, one at most succeeds.
THEOREM RevocationCorrect == Spec => []RevokedOnce
<1>1. ASSUME AppInv, NEW r \in Requests, NEW q \in Requests,
             outcome[r] = "204", outcome[q] = "204", request[r].key = request[q].key
      PROVE  r = q
  <2>1. RequestInv(r) /\ RequestInv(q) /\ (r # q => RevokesApart(r, q))
    BY <1>1 DEF AppInv
  <2>2. Revoking(r) /\ Revoking(q)
    BY <1>1, <2>1 DEF RequestInv, Revoking
  <2> QED BY <1>1, <2>1, <2>2 DEF RevokesApart
<1>2. AppInv => RevokedOnce
  BY <1>1 DEF RevokedOnce
<1> QED BY <1>2, AppInvariant, PTL

\* A key that was handed out is refused only when it is dead, whatever prefixes the
\* other keys have.
THEOREM HandedOutAccepted == Spec => HandedOutKeyIsAccepted
<1>1. ASSUME AppInv, [Next]_vars, NEW c \in Clients,
             clients[c].at # "refused", clients'[c].at = "refused"
      PROVE  ~HandedOut(clients[c].key) \/ Dead(clients[c].key)
  <2>1. TypeOK /\ PrefixInv /\ ClientInv(c) /\ clients \in [Clients -> ClientStates]
    BY <1>1 DEF AppInv, TypeOK, ClientStates
  <2>2. PICK d \in Clients : ClientStep(d) \/ (\E k \in KeyIds : Present(d, k))
    BY <1>1 DEF Next, HandlerStep, Receive, InsertApplication, InsertKey, Commit, GetApplication,
       IssueKey, UpdateWebhookSecret, RevokeKey, Answer, Fail, Disable, Expire, vars
  <2>3. \A state : SetClient(d, state) => d = c /\ clients'[c] = state
    BY <1>1, <2>1 DEF SetClient
  <2>4. ReadKey(c) \/ ReadApplication(c)
    <3>1. CASE \E k \in KeyIds : Present(d, k)
      BY <1>1, <2>3, <3>1 DEF Present
    <3>2. CASE EndRequest(d)
      BY <1>1, <2>3, <3>2 DEF EndRequest, IdleClient
    <3>3. CASE ReadKey(d)
      BY <2>3, <3>3 DEF ReadKey, Refuse
    <3>4. CASE ReadApplication(d)
      BY <2>3, <3>4 DEF ReadApplication, Refuse
    <3> QED BY <2>2, <3>1, <3>2, <3>3, <3>4 DEF ClientStep
  <2>5. PICK presented \in KeyIds : presented = clients[c].key
    BY <2>1, <2>4 DEF ReadKey, ReadApplication, ClientInv
  <2>6. ASSUME Stored(presented), ~Dead(presented)
        PROVE  FALSE
    <3>1. CASE ReadKey(c)
      <4>1. \A k \in KeyIds : Stored(k) /\ prefix[k] = prefix[presented] => k = presented
        BY <2>1, <2>6 DEF PrefixInv
      <4>2. Usable(presented)
        BY <2>6 DEF Usable, Dead
      <4>3. SetClient(c, [clients[c] EXCEPT !.at = "readApplication",
                               !.app = api_keys[presented].application])
        BY <2>5, <2>6, <3>1, <4>1, <4>2 DEF ReadKey, Verify
      <4>4. clients'[c].at = "readApplication"
        BY <2>1, <4>3 DEF SetClient, ClientStates
      <4> QED BY <1>1, <4>4
    <3>2. CASE ReadApplication(c)
      <4>1. /\ api_keys[presented].application = clients[c].app
            /\ clients[c].app \in Requests /\ Created(clients[c].app)
        BY <2>1, <2>5, <2>6, <3>2, StoredRows DEF ReadApplication, ClientInv
      <4>2. applications[clients[c].app] \in ApplicationRows
        BY <2>1, <4>1, StoredRows
      <4>3. applications[clients[c].app].status = "active"
        BY <2>6, <4>1, <4>2 DEF Dead, ApplicationRows
      <4>4. SetClient(c, [clients[c] EXCEPT !.at = "authenticated"])
        BY <3>2, <4>3 DEF ReadApplication
      <4>5. clients'[c].at = "authenticated"
        BY <2>1, <4>4 DEF SetClient, ClientStates
      <4> QED BY <1>1, <4>5
    <3> QED BY <2>4, <3>1, <3>2
  <2>7. HandedOut(presented) => Stored(presented)
    BY DEF HandedOut
  <2> QED BY <2>5, <2>6, <2>7
<1>2. AppInv /\ [Next]_vars =>
        [\A c \in Clients :
           clients[c].at # "refused" /\ clients'[c].at = "refused" =>
               ~HandedOut(clients[c].key) \/ Dead(clients[c].key)]_vars
  BY <1>1
<1> QED BY <1>2, AppInvariant, PTL DEF Spec, HandedOutKeyIsAccepted
=============================================================================
