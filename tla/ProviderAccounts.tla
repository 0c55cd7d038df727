-------------------------- MODULE ProviderAccounts --------------------------
(***************************************************************************)
(* Connecting provider stores to applications: AttachProviderAccount of    *)
(* internal/applications/service.go, run by concurrent admin requests, and *)
(* the tables provider_accounts and application_providers.                 *)
(*                                                                         *)
(* The statements share one READ COMMITTED transaction: each sees what is  *)
(* committed when it starts and its own writes, a written row stays locked *)
(* until the transaction ends, and a statement that meets a locked row     *)
(* waits and then looks at the row again.                                  *)
(***************************************************************************)
EXTENDS Naturals, FiniteSets

CONSTANTS
    Attachers,     \* handlers of POST /admin/applications/{id}/providers
    Apps,          \* applications
    Shops,         \* stores: provider, shop_id and environment together
    Secrets,       \* the secret keys that may be presented for a store
    Null

ASSUME SecretsAssumption == Null \notin Secrets

VARIABLES
    accounts,   \* table provider_accounts: the secret stored for a shop, or Null
    links,      \* table application_providers: the flag of a link, or "absent"
    pc,         \* pc[h]: the statement handler h runs next
    request,    \* request[h]: the input of the request h works on, or Null
    existing,   \* existing[h]: the application's links as h has listed them
    created,    \* created[h]: h has inserted the account, uncommitted
    targets,    \* targets[h]: default rows found by h's clear, not yet reached
    cleared,    \* cleared[h]: default rows h has cleared, uncommitted
    outcome     \* outcome[h]: the answer to h's last request

locals == <<existing, created, targets, cleared>>
vars == <<accounts, links, pc, request, locals, outcome>>

Inputs == [app : Apps, shop : Shops, secret : Secrets, is_default : BOOLEAN]
Flags == {"attached", "default"}
NoLinks == [s \in Shops |-> "absent"]

Labels ==
    {"idle", "list", "lookupShop", "createAccount", "clearDefault", "clearing",
     "attach", "commit"}

Outcomes ==
    {"none", "201", "ErrValidation", "ErrNotFound", "ErrConflict", "internalError"}

App(h) == request[h].app
Shop(h) == request[h].shop
IsDefault(app, shop) == links[<<app, shop>>] = "default"
HasDefault(app) == \E s \in Shops : IsDefault(app, s)

---------------------------------------------------------------------------
(* Decisions and statements.                                               *)

\* Mutant: a re-attached provider does not keep its flag.
MakeDefaultForgetsFlag(h) ==
    request[h].is_default \/ existing[h] = NoLinks

\* Mutant: the first provider of an application needs to be asked for.
MakeDefaultOnRequest(h) ==
    request[h].is_default \/ existing[h][Shop(h)] = "default"

\* Explicitly requested, the flag it had when listed, or the first provider.
MakeDefault(h) ==
    \/ request[h].is_default
    \/ existing[h][Shop(h)] = "default"
    \/ existing[h] = NoLinks

\* Mutant: another secret for a connected shop is accepted and ignored.
AnySecret(h) == TRUE

\* assertSameSecret: reusing an account would ignore a different secret.
SameSecret(h) == accounts[Shop(h)] = request[h].secret

\* CreateProviderAccount meets the uncommitted account of another transaction.
AccountWaits(h) ==
    \E q \in Attachers \ {h} : created[q] /\ Shop(q) = Shop(h)

\* Rows of application_providers that h has written: they are locked until its
\* transaction ends.
LockedShops(h) == cleared[h] \cup (IF pc[h] = "commit" THEN {Shop(h)} ELSE {})

\* Mutant: the rows are cleared outside the transaction that attaches.
LockedByAnyone(h, shop) ==
    \E q \in Attachers : shop \in LockedShops(q) /\ App(q) = App(h)

LockedByOther(h, shop) ==
    \E q \in Attachers \ {h} : shop \in LockedShops(q) /\ App(q) = App(h)

\* Entries of application_providers_one_default_idx that q has added or taken
\* out: they are in doubt until its transaction ends.
EntriesInDoubt(q) ==
    \/ cleared[q] # {}
    \/ pc[q] = "commit" /\ (MakeDefault(q) \/ IsDefault(App(q), Shop(q)))

\* AttachProviderAccount waits for its own row and, when it sets the flag, for
\* every entry of its application that is in doubt.
AttachWaits(h) ==
    \/ LockedByOther(h, Shop(h))
    \/ /\ MakeDefault(h)
       /\ \E q \in Attachers \ {h} : EntriesInDoubt(q) /\ App(q) = App(h)

\* Mutant: there is no application_providers_one_default_idx.
DefaultNeverTaken(h) == FALSE

\* AttachProviderAccount violates application_providers_one_default_idx: another
\* row became the default after this transaction had cleared the flag.
DefaultTaken(h) ==
    /\ MakeDefault(h)
    /\ \E s \in Shops \ (cleared[h] \cup {Shop(h)}) : IsDefault(App(h), s)

\* Mutant: the statement that inserts the account is not part of the transaction
\* that commits.
AccountsWithout(h) == accounts

\* The accounts and the links after h's commit.
AccountsAfter(h) ==
    IF created[h] THEN [accounts EXCEPT ![Shop(h)] = request[h].secret] ELSE accounts

LinksAfter(h) ==
    [l \in Apps \X Shops |->
        CASE l = <<App(h), Shop(h)>> -> IF MakeDefault(h) THEN "default" ELSE "attached"
          [] l[1] = App(h) /\ l[2] \in cleared[h] \ {Shop(h)} -> "attached"
          [] OTHER -> links[l]]

---------------------------------------------------------------------------
(* AttachProviderAccount, statement by statement.                          *)

Goto(h, label) == pc' = [pc EXCEPT ![h] = label]

\* The transaction ends and its row locks go with it.
EndTransaction(h) ==
    /\ request' = [request EXCEPT ![h] = Null]
    /\ existing' = [existing EXCEPT ![h] = NoLinks]
    /\ created' = [created EXCEPT ![h] = FALSE]
    /\ targets' = [targets EXCEPT ![h] = {}]
    /\ cleared' = [cleared EXCEPT ![h] = {}]

Respond(h, answer) ==
    /\ Goto(h, "idle")
    /\ outcome' = [outcome EXCEPT ![h] = answer]
    /\ EndTransaction(h)

\* attachProvider: a new request, which validateProviderInput or GetApplication
\* may refuse before the transaction begins.
Receive(h, in) ==
    /\ pc[h] = "idle"
    /\ \/ /\ Goto(h, "list")
          /\ request' = [request EXCEPT ![h] = in]
          /\ outcome' = [outcome EXCEPT ![h] = "none"]
       \/ /\ \E error \in {"ErrValidation", "ErrNotFound"} :
                outcome' = [outcome EXCEPT ![h] = error]
          /\ UNCHANGED <<pc, request>>
    /\ UNCHANGED <<accounts, links, locals>>

ListProviderAccounts(h) ==
    /\ pc[h] = "list"
    /\ existing' = [existing EXCEPT ![h] = [s \in Shops |-> links[<<App(h), s>>]]]
    /\ Goto(h, "lookupShop")
    /\ UNCHANGED <<accounts, links, request, created, targets, cleared, outcome>>

\* Where the choice of the default flag leads.
AfterAccount(h) == IF MakeDefault(h) THEN "clearDefault" ELSE "attach"

\* GetProviderAccountByShop: a connected shop is reused.
LookupShop(h) ==
    /\ pc[h] = "lookupShop"
    /\ \/ /\ accounts[Shop(h)] = Null
          /\ Goto(h, "createAccount") /\ UNCHANGED <<request, locals, outcome>>
       \/ /\ accounts[Shop(h)] # Null
          /\ IF SameSecret(h)
             THEN Goto(h, AfterAccount(h)) /\ UNCHANGED <<request, locals, outcome>>
             ELSE Respond(h, "ErrConflict")
    /\ UNCHANGED <<accounts, links>>

\* CreateProviderAccount violates UNIQUE (provider, shop_id, environment) if the
\* shop was connected since the lookup; the violation is not mapped to an answer.
CreateAccount(h) ==
    /\ pc[h] = "createAccount"
    /\ ~AccountWaits(h)
    /\ IF accounts[Shop(h)] # Null
       THEN Respond(h, "internalError")
       ELSE /\ Goto(h, AfterAccount(h))
            /\ created' = [created EXCEPT ![h] = TRUE]
            /\ UNCHANGED <<request, existing, targets, cleared, outcome>>
    /\ UNCHANGED <<accounts, links>>

\* ClearDefaultProviderForApplication finds its rows in the snapshot it starts
\* with: a default committed later is not among them.
ClearDefault(h) ==
    LET found == {s \in Shops : IsDefault(App(h), s)}
    IN /\ pc[h] = "clearDefault"
       /\ targets' = [targets EXCEPT ![h] = found]
       /\ Goto(h, IF found = {} THEN "attach" ELSE "clearing")
       /\ UNCHANGED <<accounts, links, request, existing, created, cleared, outcome>>

\* It updates each of them once it is unlocked, if it is still the default.
ClearRow(h, s) ==
    /\ pc[h] = "clearing"
    /\ s \in targets[h]
    /\ ~LockedByOther(h, s)
    /\ targets' = [targets EXCEPT ![h] = @ \ {s}]
    /\ cleared' = [cleared EXCEPT ![h] = IF IsDefault(App(h), s) THEN @ \cup {s} ELSE @]
    /\ Goto(h, IF targets[h] = {s} THEN "attach" ELSE "clearing")
    /\ UNCHANGED <<accounts, links, request, existing, created, outcome>>

AttachProviderAccount(h) ==
    /\ pc[h] = "attach"
    /\ ~AttachWaits(h)
    /\ IF DefaultTaken(h)
       THEN Respond(h, "internalError")
       ELSE Goto(h, "commit") /\ UNCHANGED <<request, locals, outcome>>
    /\ UNCHANGED <<accounts, links>>

\* Once the server has committed, the connection or the process may still fail:
\* the attachment stands, and the caller does not get to know.
Commit(h) ==
    /\ pc[h] = "commit"
    /\ accounts' = AccountsAfter(h)
    /\ links' = LinksAfter(h)
    /\ \E answer \in {"201", "internalError"} : Respond(h, answer)

\* A statement, the decryption of the stored secret or the connection fails, or
\* the process stops: the deferred Rollback, or the server, ends the transaction.
Fail(h) ==
    /\ pc[h] # "idle"
    /\ Respond(h, "internalError")
    /\ UNCHANGED <<accounts, links>>

---------------------------------------------------------------------------
Init ==
    /\ accounts = [s \in Shops |-> Null]
    /\ links = [l \in Apps \X Shops |-> "absent"]
    /\ pc = [h \in Attachers |-> "idle"]
    /\ request = [h \in Attachers |-> Null]
    /\ existing = [h \in Attachers |-> NoLinks]
    /\ created = [h \in Attachers |-> FALSE]
    /\ targets = [h \in Attachers |-> {}]
    /\ cleared = [h \in Attachers |-> {}]
    /\ outcome = [h \in Attachers |-> "none"]

HandlerStep(h) ==
    \/ ListProviderAccounts(h) \/ LookupShop(h) \/ CreateAccount(h)
    \/ ClearDefault(h) \/ \E s \in Shops : ClearRow(h, s)
    \/ AttachProviderAccount(h) \/ Commit(h)

Next ==
    \E h \in Attachers :
        \/ \E in \in Inputs : Receive(h, in)
        \/ HandlerStep(h)
        \/ Fail(h)

Spec == Init /\ [][Next]_vars

\* A handler keeps running, and PostgreSQL queues those that wait for a row, so
\* a wait that can end again and again does end.  Nothing is assumed of Fail.
FairSpec == Spec /\ \A h \in Attachers : SF_vars(HandlerStep(h))

---------------------------------------------------------------------------
(* Properties.                                                             *)

\* Every table and local holds values of its type, and a link refers to a stored
\* account (the foreign key of application_providers).
TypeOK ==
    /\ accounts \in [Shops -> Secrets \cup {Null}]
    /\ links \in [Apps \X Shops -> Flags \cup {"absent"}]
    /\ \A a \in Apps, s \in Shops : links[<<a, s>>] # "absent" => accounts[s] # Null
    /\ pc \in [Attachers -> Labels]
    /\ request \in [Attachers -> Inputs \cup {Null}]
    /\ \A h \in Attachers : pc[h] # "idle" => request[h] \in Inputs
    /\ existing \in [Attachers -> [Shops -> Flags \cup {"absent"}]]
    /\ created \in [Attachers -> BOOLEAN]
    /\ targets \in [Attachers -> SUBSET Shops]
    /\ cleared \in [Attachers -> SUBSET Shops]
    /\ outcome \in [Attachers -> Outcomes]

\* Create requests use the one default account of their application, however
\* attach requests interleave (application_providers_one_default_idx).
OneDefault ==
    \A a \in Apps, s, t \in Shops : IsDefault(a, s) /\ IsDefault(a, t) => s = t

Answers(h, answer) == pc[h] # "idle" /\ pc'[h] = "idle" /\ outcome'[h] = answer

\* The transaction of h is over, with or without its commit.
Ends(h) == pc[h] = "commit" /\ pc'[h] = "idle"

\* A caller is never misled about the secret in use: a request that is answered
\* with success presented the secret that is stored, also when two requests
\* connect the shop at once ("Storing a different secret here would be silently
\* ignored, so refuse").
AttachedSecretIsStored ==
    [][\A h \in Attachers :
          Answers(h, "201") => accounts'[Shop(h)] = request[h].secret]_vars

\* The first provider of an application becomes its default whatever its request
\* says, also when two requests attach a first provider at once.
FirstProviderIsDefault ==
    [][\A a \in Apps :
          (\A s \in Shops : links[<<a, s>>] = "absent")
              /\ (\E s \in Shops : links'[<<a, s>>] # "absent")
          => HasDefault(a)']_vars

\* An application only loses its default to a re-attach that listed its provider
\* before the provider became the default: the switch from one default to the
\* next is never visible half done, whatever its caller is told.
DefaultLostOnlyToStaleList ==
    [][\A a \in Apps :
          HasDefault(a) /\ ~HasDefault(a)' =>
              \E h \in Attachers :
                  /\ Ends(h)
                  /\ App(h) = a
                  /\ IsDefault(a, Shop(h))
                  /\ existing[h][Shop(h)] # "default"]_vars

\* "Choose the default flag so the application is never left without one".
NeverLeftWithoutDefault ==
    [][\A a \in Apps : HasDefault(a) => HasDefault(a)']_vars

\* No two attach requests wait for each other, and no early return keeps a row
\* locked: every request is answered.
EveryAttachIsAnswered ==
    \A h \in Attachers : pc[h] = "list" ~> pc[h] = "idle"
=============================================================================
