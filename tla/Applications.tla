---------------------------- MODULE Applications ----------------------------
(***************************************************************************)
(* Applications and their API keys (internal/applications/service.go):     *)
(* concurrent admin requests that create applications, issue and revoke    *)
(* keys and rotate webhook secrets, and clients that authenticate.         *)
(*                                                                         *)
(* One step is one SQL statement at READ COMMITTED.  The application, the  *)
(* webhook secret and the keys an admin request generates are named by the *)
(* request; a key also by the try it was generated in, since every try of  *)
(* CreateApplication generates another one.                                *)
(***************************************************************************)
EXTENDS Naturals, FiniteSets

CONSTANTS
    Requests,       \* admin requests, each sent at most once
    Clients,        \* handlers of /v1 that authenticate their caller
    Names,          \* application names, after slugify
    Suffixes,       \* random suffixes a slug can get
    Prefixes,       \* public prefixes a generated key can have
    SlugAttempts,   \* the bound of the loop in CreateApplication
    Null

ASSUME SlugAttemptsAssumption == SlugAttempts \in Nat \ {0}

VARIABLES
    applications,   \* table applications: the row of the application made by r
    api_keys,       \* table api_keys: the row of a key
    prefix,         \* prefix[k]: the prefix of key k, Null before its generation
    expired,        \* keys whose expires_at has passed
    request,        \* request[r]: what r asks for, Null before it is received
    pc,             \* pc[r]: the statement r's handler runs next
    tries,          \* tries[r]: the counter of the loop over slugs
    slug,           \* slug[r]: the slug of the current try
    outcome,        \* outcome[r]: the answer to r
    clients         \* clients[c]: the request that c authenticates

tables == <<applications, api_keys>>
generated == <<prefix, expired>>
locals == <<tries, slug>>
vars == <<tables, generated, request, pc, locals, outcome, clients>>

KeyIds == Requests \X (0 .. SlugAttempts - 1)
Slugs == Names \X (Suffixes \cup {Null})

Inputs ==
    [op : {"create"}, name : Names]
    \cup [op : {"issue"}, app : Requests, expires : BOOLEAN]
    \cup [op : {"revoke"}, app : Requests, key : KeyIds]
    \cup [op : {"rotate"}, app : Requests]

\* The secret of an application is the request that generated it.
ApplicationRows ==
    [slug : Slugs, status : {"active", "disabled"}, webhook_secret : Requests]
KeyRows == [application : Requests, expires : BOOLEAN, revoked : BOOLEAN]

ASSUME NullAssumption ==
    Null \notin Requests \cup Suffixes \cup Prefixes \cup ApplicationRows \cup KeyRows

Labels ==
    {"waiting", "insertApplication", "insertKey", "commit", "getApplication",
     "issueKey", "updateSecret", "revokeKey", "answer", "done"}

Outcomes ==
    {"none", "201", "204", "ErrValidation", "ErrNotFound", "ErrConflict",
     "internalError"}

IdleClient == [at |-> "idle", key |-> Null, app |-> Null, dead |-> FALSE]

Created(a) == applications[a] # Null
Stored(k) == api_keys[k] # Null
KeyOf(r) == <<r, tries[r]>>

\* The key is stored and the request that generated it was answered with it.
HandedOut(k) == outcome[k[1]] = "201" /\ Stored(k)

\* The key cannot be used any more.
Dead(k) ==
    /\ Stored(k)
    /\ \/ api_keys[k].revoked
       \/ k \in expired
       \/ applications[api_keys[k].application].status = "disabled"

---------------------------------------------------------------------------
(* Unique indexes.  An insert waits for an open transaction that has       *)
(* inserted the same value, and then finds it committed or gone.           *)

SlugWaits(r) ==
    \E q \in Requests \ {r} :
        pc[q] \in {"insertKey", "commit"} /\ slug[q] = slug[r]

SlugTaken(r) == \E a \in Requests : Created(a) /\ applications[a].slug = slug[r]

PrefixWaits(r, p) ==
    \E q \in Requests \ {r} : pc[q] = "commit" /\ prefix[KeyOf(q)] = p

\* Mutant: api_keys.key_prefix is not unique.
PrefixNeverTaken(p) == FALSE

PrefixTaken(p) == \E k \in KeyIds : Stored(k) /\ prefix[k] = p

\* Mutant: a second revocation of a key counts too.
RevokesAgain(a, k) == Stored(k) /\ api_keys[k].application = a

\* The row the UPDATE of RevokeAPIKey affects.
Revokes(a, k) ==
    Stored(k) /\ api_keys[k].application = a /\ ~api_keys[k].revoked

\* Mutant: the check of revoked_at is missing.
UsableUntilExpiry(k) == k \notin expired

\* Authenticate: the row of a key allows its use.
Usable(k) == ~api_keys[k].revoked /\ k \notin expired

\* Mutant: the prefix is all that is compared.
VerifyPrefix(k, presented) == prefix[k] = prefix[presented]

\* credentials.Verify: the stored hash is that of the presented key.
Verify(k, presented) == k = presented

NewKey(r, a, expires) ==
    [api_keys EXCEPT ![KeyOf(r)] =
        [application |-> a, expires |-> expires, revoked |-> FALSE]]

---------------------------------------------------------------------------
(* Admin requests.                                                         *)

Goto(r, label) == pc' = [pc EXCEPT ![r] = label]

Respond(r, answer) ==
    /\ Goto(r, "done")
    /\ outcome' = [outcome EXCEPT ![r] = answer]

FirstStatement(in) ==
    CASE in.op = "create" -> "insertApplication"
      [] in.op = "revoke" -> "revokeKey"
      [] OTHER            -> "getApplication"

\* A handler decodes its request; CreateApplication may refuse it and chooses
\* the plain slug of the name otherwise.
Receive(r, in) ==
    /\ pc[r] = "waiting"
    /\ request' = [request EXCEPT ![r] = in]
    /\ \/ /\ Goto(r, FirstStatement(in))
          /\ slug' = [slug EXCEPT ![r] =
                         IF in.op = "create" THEN <<in.name, Null>> ELSE Null]
          /\ UNCHANGED outcome
       \/ /\ in.op = "create"
          /\ Respond(r, "ErrValidation")
          /\ UNCHANGED slug
    /\ UNCHANGED <<tables, generated, tries, clients>>

\* Mutant: the loop has no bound.
LastTryNever(r) == FALSE

LastTry(r) == tries[r] + 1 = SlugAttempts

\* A unique violation ends the transaction, and the loop goes on with a random
\* suffix or gives up.
NextTry(r) ==
    IF LastTry(r)
    THEN Respond(r, "ErrConflict") /\ UNCHANGED locals
    ELSE /\ tries' = [tries EXCEPT ![r] = @ + 1]
         /\ \E s \in Suffixes : slug' = [slug EXCEPT ![r] = <<request[r].name, s>>]
         /\ Goto(r, "insertApplication")
         /\ UNCHANGED outcome

\* createApplicationTx: Begin and CreateApplication.
InsertApplication(r) ==
    /\ pc[r] = "insertApplication"
    /\ ~SlugWaits(r)
    /\ IF SlugTaken(r)
       THEN NextTry(r)
       ELSE Goto(r, "insertKey") /\ UNCHANGED <<locals, outcome>>
    /\ UNCHANGED <<tables, generated, request, clients>>

\* createApplicationTx: issueKey generates a key and inserts it; a taken prefix
\* is a unique violation like a taken slug.
InsertKey(r) ==
    /\ pc[r] = "insertKey"
    /\ \E p \in Prefixes :
          /\ ~PrefixWaits(r, p)
          /\ prefix' = [prefix EXCEPT ![KeyOf(r)] = p]
          /\ IF PrefixTaken(p)
             THEN NextTry(r)
             ELSE Goto(r, "commit") /\ UNCHANGED <<locals, outcome>>
    /\ UNCHANGED <<tables, expired, request, clients>>

\* Mutant: the key is not written in the transaction that is committed.
KeysWithout(r) == api_keys

KeysAfterCommit(r) == NewKey(r, r, FALSE)

\* createApplicationTx: both rows become visible together.
Commit(r) ==
    /\ pc[r] = "commit"
    /\ applications' = [applications EXCEPT ![r] =
           [slug |-> slug[r], status |-> "active", webhook_secret |-> r]]
    /\ api_keys' = KeysAfterCommit(r)
    /\ Goto(r, "answer")
    /\ UNCHANGED <<generated, request, locals, outcome, clients>>

\* IssueAPIKey and RotateWebhookSecret look the application up first.
GetApplication(r) ==
    /\ pc[r] = "getApplication"
    /\ IF Created(request[r].app)
       THEN /\ Goto(r, IF request[r].op = "issue" THEN "issueKey" ELSE "updateSecret")
            /\ UNCHANGED outcome
       ELSE Respond(r, "ErrNotFound")
    /\ UNCHANGED <<tables, generated, request, locals, clients>>

\* IssueAPIKey: one insert that commits on its own; a taken prefix is not
\* retried here.
IssueKey(r) ==
    /\ pc[r] = "issueKey"
    /\ \E p \in Prefixes :
          /\ ~PrefixWaits(r, p)
          /\ prefix' = [prefix EXCEPT ![KeyOf(r)] = p]
          /\ IF PrefixTaken(p)
             THEN Respond(r, "internalError") /\ UNCHANGED api_keys
             ELSE /\ Goto(r, "answer")
                  /\ api_keys' = NewKey(r, request[r].app, request[r].expires)
                  /\ UNCHANGED outcome
    /\ UNCHANGED <<applications, expired, request, locals, clients>>

UpdateWebhookSecret(r) ==
    /\ pc[r] = "updateSecret"
    /\ applications' = [applications EXCEPT ![request[r].app].webhook_secret = r]
    /\ Goto(r, "answer")
    /\ UNCHANGED <<api_keys, generated, request, locals, outcome, clients>>

\* RevokeAPIKey: no affected row means not found.
RevokeKey(r) ==
    LET in == request[r]
    IN /\ pc[r] = "revokeKey"
       /\ IF Revokes(in.app, in.key)
          THEN /\ api_keys' = [api_keys EXCEPT ![in.key].revoked = TRUE]
               /\ Goto(r, "answer")
               /\ UNCHANGED outcome
          ELSE Respond(r, "ErrNotFound") /\ UNCHANGED api_keys
       /\ UNCHANGED <<applications, generated, request, locals, clients>>

Answer(r) ==
    /\ pc[r] = "answer"
    /\ Respond(r, IF request[r].op = "revoke" THEN "204" ELSE "201")
    /\ UNCHANGED <<tables, generated, request, locals, clients>>

\* A statement fails, the context is cancelled or the process stops.
Fail(r) ==
    /\ pc[r] \notin {"waiting", "done"}
    /\ Respond(r, "internalError")
    /\ UNCHANGED <<tables, generated, request, locals, clients>>

---------------------------------------------------------------------------
(* Authentication: RequireApplication and Authenticate.                    *)

SetClient(c, state) == clients' = [clients EXCEPT ![c] = state]

\* A client presents a key, whether or not it was handed out or even stored.
\* That it was dead already is remembered for the properties.
Present(c, k) ==
    /\ clients[c].at = "idle"
    /\ prefix[k] # Null
    /\ SetClient(c, [at |-> "readKey", key |-> k, app |-> Null, dead |-> Dead(k)])
    /\ UNCHANGED <<tables, generated, request, pc, locals, outcome>>

Refuse(c) == SetClient(c, [clients[c] EXCEPT !.at = "refused"])

\* GetAPIKeyByPrefix, then the checks of the row it found.
ReadKey(c) ==
    LET presented == clients[c].key
        found == {k \in KeyIds : Stored(k) /\ prefix[k] = prefix[presented]}
    IN /\ clients[c].at = "readKey"
       /\ \/ found = {} /\ Refuse(c)
          \/ \E k \in found :
                IF Verify(k, presented) /\ Usable(k)
                THEN SetClient(c, [clients[c] EXCEPT !.at = "readApplication",
                                        !.app = api_keys[k].application])
                ELSE Refuse(c)
       /\ UNCHANGED <<tables, generated, request, pc, locals, outcome>>

\* GetApplication and Active; TouchAPIKeyLastUsed is best effort and nothing
\* depends on it.
ReadApplication(c) ==
    /\ clients[c].at = "readApplication"
    /\ IF applications[clients[c].app].status = "active"
       THEN SetClient(c, [clients[c] EXCEPT !.at = "authenticated"])
       ELSE Refuse(c)
    /\ UNCHANGED <<tables, generated, request, pc, locals, outcome>>

\* The request is over: served, refused, or failed with an internal error.
EndRequest(c) ==
    /\ clients[c].at # "idle"
    /\ SetClient(c, IdleClient)
    /\ UNCHANGED <<tables, generated, request, pc, locals, outcome>>

---------------------------------------------------------------------------
(* Outside the program.                                                    *)

\* The expiry of a key passes.
Expire(k) ==
    /\ Stored(k)
    /\ api_keys[k].expires
    /\ expired' = expired \cup {k}
    /\ UNCHANGED <<tables, prefix, request, pc, locals, outcome, clients>>

\* An operator disables an application: no code of this version does.
Disable(a) ==
    /\ Created(a)
    /\ applications' = [applications EXCEPT ![a].status = "disabled"]
    /\ UNCHANGED <<api_keys, generated, request, pc, locals, outcome, clients>>

---------------------------------------------------------------------------
Init ==
    /\ applications = [a \in Requests |-> Null]
    /\ api_keys = [k \in KeyIds |-> Null]
    /\ prefix = [k \in KeyIds |-> Null]
    /\ expired = {}
    /\ request = [r \in Requests |-> Null]
    /\ pc = [r \in Requests |-> "waiting"]
    /\ tries = [r \in Requests |-> 0]
    /\ slug = [r \in Requests |-> Null]
    /\ outcome = [r \in Requests |-> "none"]
    /\ clients = [c \in Clients |-> IdleClient]

HandlerStep(r) ==
    \/ InsertApplication(r) \/ InsertKey(r) \/ Commit(r) \/ GetApplication(r)
    \/ IssueKey(r) \/ UpdateWebhookSecret(r) \/ RevokeKey(r) \/ Answer(r)

ClientStep(c) == ReadKey(c) \/ ReadApplication(c) \/ EndRequest(c)

Next ==
    \/ \E r \in Requests :
          \/ \E in \in Inputs : Receive(r, in)
          \/ HandlerStep(r) \/ Fail(r) \/ Disable(r)
    \/ \E c \in Clients : ClientStep(c) \/ \E k \in KeyIds : Present(c, k)
    \/ \E k \in KeyIds : Expire(k)

Spec == Init /\ [][Next]_vars

---------------------------------------------------------------------------
(* Properties.                                                             *)

\* Every table and local holds values of its type, and a stored key belongs to
\* a stored application (the foreign key of api_keys).
TypeOK ==
    /\ applications \in [Requests -> ApplicationRows \cup {Null}]
    /\ api_keys \in [KeyIds -> KeyRows \cup {Null}]
    /\ \A k \in KeyIds : Stored(k) => Created(api_keys[k].application)
    /\ prefix \in [KeyIds -> Prefixes \cup {Null}]
    /\ expired \subseteq KeyIds
    /\ request \in [Requests -> Inputs \cup {Null}]
    /\ pc \in [Requests -> Labels]
    /\ tries \in [Requests -> 0 .. SlugAttempts - 1]
    /\ slug \in [Requests -> Slugs \cup {Null}]
    /\ outcome \in [Requests -> Outcomes]
    /\ clients \in [Clients ->
          [at : {"idle", "readKey", "readApplication", "authenticated", "refused"},
           key : KeyIds \cup {Null}, app : Requests \cup {Null}, dead : BOOLEAN]]

\* "an application never exists without usable credentials": whatever tries
\* failed before, a stored application has a key of its own.
ApplicationsHaveKeys ==
    \A a \in Requests : Created(a) =>
        \E k \in KeyIds : Stored(k) /\ api_keys[k].application = a

\* A caller acts for the application whose stored key it presented, also when a
\* key of another application, or of a try that was rolled back, has the same
\* prefix.
AuthenticatedByOwnKey ==
    \A c \in Clients : clients[c].at = "authenticated" =>
        /\ Stored(clients[c].key)
        /\ api_keys[clients[c].key].application = clients[c].app

\* A request that starts after its key was revoked or expired, or after its
\* application was disabled, is never served: the checks are made on two reads,
\* and a change between them may be missed only by a request already running.
DeadKeysAreRefused ==
    \A c \in Clients : clients[c].at = "authenticated" => ~clients[c].dead

\* "Revoking an already revoked ... key is a not-found error": of the requests
\* that revoke one key at once, one at most is told that it did.
RevokedOnce ==
    \A r, q \in Requests :
        /\ outcome[r] = "204" /\ outcome[q] = "204"
        /\ request[r].key = request[q].key
        => r = q

\* A key that was handed out is accepted until it is revoked or expires or its
\* application is disabled, whatever prefixes the other keys get.
HandedOutKeyIsAccepted ==
    [][\A c \in Clients :
          clients[c].at # "refused" /\ clients'[c].at = "refused" =>
              ~HandedOut(clients[c].key) \/ Dead(clients[c].key)]_vars

=============================================================================
