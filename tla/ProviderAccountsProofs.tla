----------------------- MODULE ProviderAccountsProofs -----------------------
(***************************************************************************)
(* Attach requests for every number of handlers, applications, stores and  *)
(* secrets: one default per application, no misleading success, and the    *)
(* default is lost in one way only (TypeOK, OneDefault,                    *)
(* AttachedSecretIsStored, FirstProviderIsDefault and                      *)
(* DefaultLostOnlyToStaleList of ProviderAccounts).                        *)
(***************************************************************************)
EXTENDS ProviderAccounts, TLAPS

\* Where a handler can be once it has chosen its account.
Decided == {"clearDefault", "clearing", "attach", "commit"}

\* What a handler holds at each statement.
LocalsFollow(h) ==
    /\ pc[h] \in {"idle", "list"} => existing[h] = NoLinks
    /\ pc[h] \notin Decided => ~created[h]
    /\ pc[h] \notin {"clearing", "attach", "commit"} => cleared[h] = {}
    /\ pc[h] \in {"clearDefault", "clearing"} \/ cleared[h] # {} => MakeDefault(h)

\* The account of a handler is its own uncommitted one, or holds the secret that
\* was presented, and no account is ever replaced.
AccountHeld(h) ==
    /\ created[h] => accounts[Shop(h)] = Null
    /\ pc[h] \in Decided /\ ~created[h] => accounts[Shop(h)] = request[h].secret

\* Links that were listed are still there, rows that h has cleared are still the
\* default for everybody else, and a new default meets no other when it commits.
LinksHeld(h) ==
    /\ \A s \in Shops : existing[h][s] # "absent" => links[<<App(h), s>>] # "absent"
    /\ \A s \in cleared[h] : IsDefault(App(h), s)
    /\ pc[h] = "commit" /\ MakeDefault(h) =>
          \A s \in Shops : IsDefault(App(h), s) => s \in cleared[h] \cup {Shop(h)}

\* Two transactions never insert the same account, hold the same row, or are both
\* about to commit a default for one application.
Apart(h, q) ==
    /\ created[h] /\ created[q] => Shop(h) # Shop(q)
    /\ LockedShops(h) \cap LockedShops(q) # {} => App(h) # App(q)
    /\ pc[h] = "commit" /\ pc[q] = "commit" /\ MakeDefault(h) /\ MakeDefault(q) =>
          App(h) # App(q)

HandlerInv(h) == LocalsFollow(h) /\ AccountHeld(h) /\ LinksHeld(h)

AttachInv ==
    /\ TypeOK
    /\ OneDefault
    /\ \A h \in Attachers : HandlerInv(h)
    /\ \A h, q \in Attachers : h # q => Apart(h, q)

---------------------------------------------------------------------------
\* The tables and locals, one by one.
LEMMA AttachTypes ==
    ASSUME TypeOK
    PROVE  /\ accounts \in [Shops -> Secrets \cup {Null}]
           /\ links \in [Apps \X Shops -> Flags \cup {"absent"}]
           /\ pc \in [Attachers -> Labels]
           /\ request \in [Attachers -> Inputs \cup {Null}]
           /\ existing \in [Attachers -> [Shops -> Flags \cup {"absent"}]]
           /\ created \in [Attachers -> BOOLEAN]
           /\ targets \in [Attachers -> SUBSET Shops]
           /\ cleared \in [Attachers -> SUBSET Shops]
           /\ outcome \in [Attachers -> Outcomes]
  BY DEF TypeOK

\* A handler at work knows its application, its store and its secret.
LEMMA RequestParts ==
    ASSUME TypeOK, NEW h \in Attachers, pc[h] # "idle"
    PROVE  /\ request[h] \in Inputs
           /\ App(h) \in Apps /\ Shop(h) \in Shops
           /\ request[h].secret \in Secrets /\ request[h].secret # Null
  BY SecretsAssumption DEF TypeOK, Inputs, App, Shop

\* A step of h leaves the other handlers alone.
MovesAlone(h) ==
    \A q \in Attachers \ {h} :
        /\ pc'[q] = pc[q] /\ request'[q] = request[q]
        /\ existing'[q] = existing[q] /\ created'[q] = created[q]
        /\ targets'[q] = targets[q] /\ cleared'[q] = cleared[q]

\* A step that commits nothing has the invariant to restore for its handler only.
LEMMA OneHandlerMoves ==
    ASSUME AttachInv, TypeOK', NEW h \in Attachers, MovesAlone(h),
           UNCHANGED <<accounts, links>>, HandlerInv(h)',
           \A q \in Attachers \ {h} : Apart(h, q)'
    PROVE  AttachInv'
<1>1. OneDefault'
  BY DEF AttachInv, OneDefault, IsDefault
<1>2. ASSUME NEW q \in Attachers
      PROVE  HandlerInv(q)'
  <2>1. CASE q # h
    <3>1. HandlerInv(q)
      BY DEF AttachInv
    <3> QED BY <2>1, <3>1 DEF HandlerInv, LocalsFollow, AccountHeld, LinksHeld, MovesAlone,
                              App, Shop, MakeDefault, IsDefault
  <2> QED BY <2>1
<1>3. ASSUME NEW q \in Attachers \ {h}
      PROVE  Apart(q, h)'
  BY DEF Apart
<1>4. ASSUME NEW q \in Attachers \ {h}, NEW t \in Attachers \ {h}, q # t
      PROVE  Apart(q, t)'
  <2>1. Apart(q, t)
    BY <1>4 DEF AttachInv
  <2> QED BY <2>1 DEF Apart, MovesAlone, App, Shop, MakeDefault, LockedShops
<1>5. \A q, t \in Attachers : q # t => Apart(q, t)'
  BY <1>3, <1>4
<1> QED BY <1>1, <1>2, <1>5 DEF AttachInv

\* A handler that holds nothing is apart from every other.
LEMMA EmptyHandedApart ==
    ASSUME NEW h, ~created'[h], cleared'[h] = {}, pc'[h] # "commit"
    PROVE  \A q \in Attachers \ {h} : Apart(h, q)'
  BY DEF Apart, LockedShops

\* So is one that takes nothing new.
LEMMA NothingNewApart ==
    ASSUME AttachInv, NEW h \in Attachers, NEW q \in Attachers \ {h}, MovesAlone(h),
           request'[h] = request[h], existing'[h] = existing[h],
           created'[h] => created[h],
           cleared'[h] \subseteq cleared[h], pc'[h] = "commit" => pc[h] = "commit"
    PROVE  Apart(h, q)'
<1>1. Apart(h, q)
  BY DEF AttachInv
<1> QED BY <1>1 DEF Apart, MovesAlone, App, Shop, MakeDefault, LockedShops

---------------------------------------------------------------------------
(* The invariant, action by action.                                        *)

\* A transaction that ends without a commit leaves no trace.
LEMMA RespondAttach ==
    ASSUME AttachInv, NEW h \in Attachers, NEW answer \in Outcomes,
           Respond(h, answer), UNCHANGED <<accounts, links>>
    PROVE  AttachInv'
<1>1. TypeOK
  BY DEF AttachInv
<1>2. /\ pc'[h] = "idle" /\ request'[h] = Null /\ existing'[h] = NoLinks
      /\ created'[h] = FALSE /\ targets'[h] = {} /\ cleared'[h] = {}
      /\ MovesAlone(h)
  BY <1>1, AttachTypes DEF Respond, Goto, EndTransaction, MovesAlone
<1>3. NoLinks \in [Shops -> Flags \cup {"absent"}]
  BY DEF NoLinks
<1>4. TypeOK'
  <2>1. /\ pc' \in [Attachers -> Labels]
        /\ request' \in [Attachers -> Inputs \cup {Null}]
        /\ existing' \in [Attachers -> [Shops -> Flags \cup {"absent"}]]
        /\ created' \in [Attachers -> BOOLEAN]
        /\ targets' \in [Attachers -> SUBSET Shops]
        /\ cleared' \in [Attachers -> SUBSET Shops]
        /\ outcome' \in [Attachers -> Outcomes]
    BY <1>1, <1>3, AttachTypes DEF Respond, Goto, EndTransaction, Labels
  <2>2. \A q \in Attachers : pc'[q] # "idle" => request'[q] \in Inputs
    BY <1>1, <1>2 DEF TypeOK, MovesAlone
  <2> QED BY <1>1, <2>1, <2>2 DEF TypeOK
<1>5. HandlerInv(h)'
  BY <1>2 DEF HandlerInv, LocalsFollow, AccountHeld, LinksHeld, NoLinks, Decided
<1> QED BY <1>2, <1>4, <1>5, EmptyHandedApart, OneHandlerMoves

\* A new request starts with empty hands.
LEMMA ReceiveAttach ==
    ASSUME AttachInv, NEW h \in Attachers, NEW in \in Inputs, Receive(h, in)
    PROVE  AttachInv'
<1>1. TypeOK /\ HandlerInv(h) /\ pc[h] = "idle"
  BY DEF AttachInv, Receive
<1>2. UNCHANGED <<accounts, links, existing, created, targets, cleared>>
  BY DEF Receive, locals
<1>3. ~created[h] /\ cleared[h] = {} /\ existing[h] = NoLinks
  BY <1>1 DEF HandlerInv, LocalsFollow, Decided
<1>4. /\ pc'[h] \in {"idle", "list"} /\ MovesAlone(h)
      /\ pc' \in [Attachers -> Labels]
      /\ request' \in [Attachers -> Inputs \cup {Null}]
      /\ outcome' \in [Attachers -> Outcomes]
      /\ pc'[h] # "idle" => request'[h] \in Inputs
  <2>1. CASE /\ pc' = [pc EXCEPT ![h] = "list"]
             /\ request' = [request EXCEPT ![h] = in]
             /\ outcome' = [outcome EXCEPT ![h] = "none"]
    BY <1>1, <1>2, <2>1, AttachTypes DEF MovesAlone, Labels, Outcomes
  <2>2. CASE /\ \E error \in {"ErrValidation", "ErrNotFound"} :
                   outcome' = [outcome EXCEPT ![h] = error]
             /\ UNCHANGED <<pc, request>>
    BY <1>1, <1>2, <2>2, AttachTypes DEF MovesAlone, Outcomes
  <2> QED BY <2>1, <2>2 DEF Receive, Goto
<1>5. TypeOK'
  BY <1>1, <1>2, <1>4 DEF TypeOK, MovesAlone
<1>6. HandlerInv(h)'
  BY <1>2, <1>3, <1>4 DEF HandlerInv, LocalsFollow, AccountHeld, LinksHeld, NoLinks, Decided
<1>7. ~created'[h] /\ cleared'[h] = {} /\ pc'[h] # "commit"
  BY <1>2, <1>3, <1>4
<1> QED BY <1>2, <1>4, <1>5, <1>6, <1>7, EmptyHandedApart, OneHandlerMoves

\* The list is taken from the committed links.
LEMMA ListAttach ==
    ASSUME AttachInv, NEW h \in Attachers, ListProviderAccounts(h)
    PROVE  AttachInv'
<1> DEFINE list == [s \in Shops |-> links[<<App(h), s>>]]
<1>1. /\ TypeOK /\ HandlerInv(h) /\ pc[h] = "list" /\ App(h) \in Apps
      /\ UNCHANGED <<accounts, links, request, created, targets, cleared, outcome>>
  BY RequestParts DEF AttachInv, ListProviderAccounts
<1>2. ~created[h] /\ cleared[h] = {}
  BY <1>1 DEF HandlerInv, LocalsFollow, Decided
<1>3. list \in [Shops -> Flags \cup {"absent"}]
  BY <1>1, AttachTypes
<1>4. /\ pc' = [pc EXCEPT ![h] = "lookupShop"]
      /\ existing' = [existing EXCEPT ![h] = list]
  BY DEF ListProviderAccounts, Goto
<1> HIDE DEF list
<1>5. /\ pc'[h] = "lookupShop" /\ existing'[h] = list /\ MovesAlone(h)
      /\ pc' \in [Attachers -> Labels]
      /\ existing' \in [Attachers -> [Shops -> Flags \cup {"absent"}]]
  BY <1>1, <1>3, <1>4, AttachTypes DEF MovesAlone, Labels
<1>6. TypeOK'
  BY <1>1, <1>5 DEF TypeOK, MovesAlone
<1>7. \A s \in Shops : list[s] = links[<<App(h), s>>]
  BY DEF list
<1>8. HandlerInv(h)'
  BY <1>1, <1>2, <1>5, <1>7
     DEF HandlerInv, LocalsFollow, AccountHeld, LinksHeld, Decided, App
<1>9. ~created'[h] /\ cleared'[h] = {} /\ pc'[h] # "commit"
  BY <1>1, <1>2, <1>5
<1> QED BY <1>1, <1>5, <1>6, <1>8, <1>9, EmptyHandedApart, OneHandlerMoves

\* Once the account is chosen: it holds the presented secret, or it is to come.
LEMMA AccountChosen ==
    ASSUME AttachInv, NEW h \in Attachers, ~created[h], cleared[h] = {}, pc[h] # "idle",
           Goto(h, AfterAccount(h)),
           UNCHANGED <<accounts, links, request, existing, targets, cleared, outcome>>,
           \/ created' = created /\ accounts[Shop(h)] = request[h].secret
           \/ /\ created' = [created EXCEPT ![h] = TRUE]
              /\ accounts[Shop(h)] = Null /\ ~AccountWaits(h)
    PROVE  AttachInv'
<1>1. TypeOK /\ HandlerInv(h) /\ request[h] \in Inputs
  BY RequestParts DEF AttachInv
<1>2. /\ pc'[h] = AfterAccount(h)
      /\ pc'[h] \in {"clearDefault", "attach"}
      /\ pc'[h] = "clearDefault" => MakeDefault(h)
      /\ pc' \in [Attachers -> Labels] /\ created' \in [Attachers -> BOOLEAN]
      /\ MovesAlone(h)
  BY <1>1, AttachTypes DEF Goto, AfterAccount, MovesAlone, Labels
<1>3. TypeOK'
  BY <1>1, <1>2 DEF TypeOK, MovesAlone
<1>4. HandlerInv(h)'
  <2>1. /\ App(h)' = App(h) /\ Shop(h)' = Shop(h)
        /\ MakeDefault(h)' <=> MakeDefault(h)
    BY DEF App, Shop, MakeDefault
  <2>2. LocalsFollow(h)' /\ LinksHeld(h)'
    BY <1>1, <1>2, <2>1 DEF HandlerInv, LocalsFollow, LinksHeld, IsDefault, Decided
  <2>3. AccountHeld(h)'
    BY <1>1, <2>1, AttachTypes DEF AccountHeld
  <2> QED BY <2>2, <2>3 DEF HandlerInv
<1>5. ASSUME NEW q \in Attachers \ {h}
      PROVE  Apart(h, q)'
  <2>1. LockedShops(h)' = {}
    BY <1>2 DEF LockedShops
  <2>2. created'[h] /\ created'[q] => Shop(h)' # Shop(q)'
    <3>1. CASE created' = created
      BY <3>1
    <3>2. CASE ~AccountWaits(h)
      BY <1>2, <3>2 DEF AccountWaits, MovesAlone, Shop
    <3> QED BY <3>1, <3>2
  <2> QED BY <1>2, <2>1, <2>2 DEF Apart
<1> QED BY <1>2, <1>3, <1>4, <1>5, OneHandlerMoves

\* GetProviderAccountByShop finds the shop free, connected with the presented
\* secret, or connected with another.
LEMMA LookupAttach ==
    ASSUME AttachInv, NEW h \in Attachers, LookupShop(h)
    PROVE  AttachInv'
<1>1. /\ TypeOK /\ HandlerInv(h) /\ pc[h] = "lookupShop"
      /\ UNCHANGED <<accounts, links>>
  BY DEF AttachInv, LookupShop
<1>2. ~created[h] /\ cleared[h] = {}
  BY <1>1 DEF HandlerInv, LocalsFollow, Decided
<1>3. CASE Goto(h, "createAccount") /\ UNCHANGED <<request, locals, outcome>>
  <2>1. UNCHANGED <<request, existing, created, targets, cleared, outcome>>
    BY <1>3 DEF locals
  <2>2. /\ pc'[h] = "createAccount" /\ MovesAlone(h)
        /\ pc' \in [Attachers -> Labels]
    BY <1>1, <1>3, <2>1, AttachTypes DEF Goto, MovesAlone, Labels
  <2>3. TypeOK'
    BY <1>1, <2>1, <2>2 DEF TypeOK, MovesAlone
  <2>4. HandlerInv(h)'
    BY <1>1, <1>2, <2>1, <2>2
       DEF HandlerInv, LocalsFollow, AccountHeld, LinksHeld, Decided, App, IsDefault
  <2>5. ~created'[h] /\ cleared'[h] = {} /\ pc'[h] # "commit"
    BY <1>2, <2>1, <2>2
  <2> QED BY <1>1, <2>2, <2>3, <2>4, <2>5, EmptyHandedApart, OneHandlerMoves
<1>4. CASE SameSecret(h) /\ Goto(h, AfterAccount(h)) /\ UNCHANGED <<request, locals, outcome>>
  BY <1>1, <1>2, <1>4, AccountChosen DEF locals, SameSecret
<1>5. CASE Respond(h, "ErrConflict")
  <2>1. "ErrConflict" \in Outcomes
    BY DEF Outcomes
  <2> QED BY <1>1, <1>5, <2>1, RespondAttach
<1> QED BY <1>3, <1>4, <1>5 DEF LookupShop

\* CreateProviderAccount inserts the account, or meets one that was committed
\* since the lookup.
LEMMA CreateAttach ==
    ASSUME AttachInv, NEW h \in Attachers, CreateAccount(h)
    PROVE  AttachInv'
<1>1. /\ TypeOK /\ HandlerInv(h) /\ pc[h] = "createAccount" /\ ~AccountWaits(h)
      /\ UNCHANGED <<accounts, links>>
  BY DEF AttachInv, CreateAccount
<1>2. ~created[h] /\ cleared[h] = {}
  BY <1>1 DEF HandlerInv, LocalsFollow, Decided
<1>3. CASE Respond(h, "internalError")
  <2>1. "internalError" \in Outcomes
    BY DEF Outcomes
  <2> QED BY <1>1, <1>3, <2>1, RespondAttach
<1>4. CASE /\ accounts[Shop(h)] = Null /\ Goto(h, AfterAccount(h))
           /\ created' = [created EXCEPT ![h] = TRUE]
           /\ UNCHANGED <<request, existing, targets, cleared, outcome>>
  BY <1>1, <1>2, <1>4, AccountChosen
<1> QED BY <1>3, <1>4 DEF CreateAccount

\* The rows to clear are those of the snapshot; none is cleared yet.
LEMMA ClearDefaultAttach ==
    ASSUME AttachInv, NEW h \in Attachers, ClearDefault(h)
    PROVE  AttachInv'
<1>1. /\ TypeOK /\ HandlerInv(h) /\ pc[h] = "clearDefault"
      /\ UNCHANGED <<accounts, links, request, existing, created, cleared, outcome>>
  BY DEF AttachInv, ClearDefault
<1>2. PICK found \in SUBSET Shops :
        /\ targets' = [targets EXCEPT ![h] = found]
        /\ Goto(h, IF found = {} THEN "attach" ELSE "clearing")
  BY DEF ClearDefault
<1>3. /\ pc'[h] \in {"attach", "clearing"} /\ MovesAlone(h)
      /\ pc' \in [Attachers -> Labels] /\ targets' \in [Attachers -> SUBSET Shops]
  BY <1>1, <1>2, AttachTypes DEF Goto, MovesAlone, Labels
<1>4. TypeOK'
  BY <1>1, <1>3 DEF TypeOK, MovesAlone
<1>5. HandlerInv(h)'
  BY <1>1, <1>3 DEF HandlerInv, LocalsFollow, AccountHeld, LinksHeld, Decided, App, Shop,
                    IsDefault, MakeDefault
<1>6. \A q \in Attachers \ {h} : Apart(h, q)'
  BY <1>1, <1>3, NothingNewApart
<1> QED BY <1>1, <1>3, <1>4, <1>5, <1>6, OneHandlerMoves

\* A row is cleared while nobody else holds it.
LEMMA ClearRowAttach ==
    ASSUME AttachInv, NEW h \in Attachers, NEW s \in Shops, ClearRow(h, s)
    PROVE  AttachInv'
<1>1. /\ TypeOK /\ HandlerInv(h) /\ pc[h] = "clearing" /\ ~LockedByOther(h, s)
      /\ UNCHANGED <<accounts, links, request, existing, created, outcome>>
  BY DEF AttachInv, ClearRow
<1>2. PICK left \in SUBSET Shops : targets' = [targets EXCEPT ![h] = left]
  <2>1. targets' = [targets EXCEPT ![h] = targets[h] \ {s}]
    BY DEF ClearRow
  <2>2. targets[h] \ {s} \in SUBSET Shops
    BY <1>1, AttachTypes
  <2> QED BY <2>1, <2>2
<1>3. PICK mine \in SUBSET Shops :
        /\ cleared' = [cleared EXCEPT ![h] = mine]
        /\ \/ mine = cleared[h]
           \/ mine = cleared[h] \cup {s} /\ IsDefault(App(h), s)
  <2>1. cleared' = [cleared EXCEPT ![h] =
                      IF IsDefault(App(h), s) THEN cleared[h] \cup {s} ELSE cleared[h]]
    BY DEF ClearRow
  <2>2. cleared[h] \in SUBSET Shops
    BY <1>1, AttachTypes
  <2> QED BY <2>1, <2>2
<1>4. /\ pc'[h] \in {"attach", "clearing"} /\ MovesAlone(h) /\ cleared'[h] = mine
      /\ pc' \in [Attachers -> Labels] /\ targets' \in [Attachers -> SUBSET Shops]
      /\ cleared' \in [Attachers -> SUBSET Shops]
  <2>1. PICK next \in {"attach", "clearing"} : pc' = [pc EXCEPT ![h] = next]
    BY DEF ClearRow, Goto
  <2> QED BY <1>1, <1>2, <1>3, <2>1, AttachTypes DEF MovesAlone, Labels
<1>5. TypeOK'
  BY <1>1, <1>4 DEF TypeOK, MovesAlone
<1>6. HandlerInv(h)'
  <2>1. /\ App(h)' = App(h) /\ Shop(h)' = Shop(h)
        /\ MakeDefault(h)' <=> MakeDefault(h)
    BY <1>1 DEF App, Shop, MakeDefault
  <2>2. LocalsFollow(h)' /\ AccountHeld(h)'
    BY <1>1, <1>4, <2>1 DEF HandlerInv, LocalsFollow, AccountHeld, Decided
  <2>3. LinksHeld(h)'
    BY <1>1, <1>3, <1>4, <2>1 DEF HandlerInv, LinksHeld, IsDefault
  <2> QED BY <2>2, <2>3 DEF HandlerInv
<1>7. ASSUME NEW q \in Attachers \ {h}
      PROVE  Apart(h, q)'
  <2>1. Apart(h, q) /\ (s \in LockedShops(q) => App(q) # App(h))
    BY <1>1 DEF AttachInv, LockedByOther
  <2>2. /\ LockedShops(q)' = LockedShops(q) /\ LockedShops(h)' = mine
        /\ LockedShops(h) = cleared[h]
        /\ App(h)' = App(h) /\ App(q)' = App(q) /\ Shop(h)' = Shop(h) /\ Shop(q)' = Shop(q)
    BY <1>1, <1>4 DEF LockedShops, MovesAlone, App, Shop
  <2> QED BY <1>1, <1>3, <1>4, <2>1, <2>2 DEF Apart, MovesAlone
<1> QED BY <1>1, <1>4, <1>5, <1>6, <1>7, OneHandlerMoves

\* AttachProviderAccount takes its row once nobody else can have the default, or
\* runs into the index.
LEMMA AttachAttach ==
    ASSUME AttachInv, NEW h \in Attachers, AttachProviderAccount(h)
    PROVE  AttachInv'
<1>1. /\ TypeOK /\ HandlerInv(h) /\ pc[h] = "attach" /\ ~AttachWaits(h)
      /\ UNCHANGED <<accounts, links>>
  BY DEF AttachInv, AttachProviderAccount
<1>2. CASE Respond(h, "internalError")
  <2>1. "internalError" \in Outcomes
    BY DEF Outcomes
  <2> QED BY <1>1, <1>2, <2>1, RespondAttach
<1>3. CASE ~DefaultTaken(h) /\ Goto(h, "commit") /\ UNCHANGED <<request, locals, outcome>>
  <2>1. UNCHANGED <<request, existing, created, targets, cleared, outcome>>
    BY <1>3 DEF locals
  <2>2. /\ pc'[h] = "commit" /\ MovesAlone(h) /\ pc' \in [Attachers -> Labels]
    BY <1>1, <1>3, <2>1, AttachTypes DEF Goto, MovesAlone, Labels
  <2>3. TypeOK'
    BY <1>1, <2>1, <2>2 DEF TypeOK, MovesAlone
  <2>4. /\ App(h)' = App(h) /\ Shop(h)' = Shop(h)
        /\ MakeDefault(h)' <=> MakeDefault(h)
    BY <2>1 DEF App, Shop, MakeDefault
  <2>5. HandlerInv(h)'
    <3>1. LocalsFollow(h)' /\ AccountHeld(h)'
      BY <1>1, <2>1, <2>2, <2>4 DEF HandlerInv, LocalsFollow, AccountHeld, Decided
    <3>2. MakeDefault(h) => \A s \in Shops : IsDefault(App(h), s) => s \in cleared[h] \cup {Shop(h)}
      BY <1>3 DEF DefaultTaken
    <3>3. LinksHeld(h)'
      BY <1>1, <2>1, <2>4, <3>2 DEF HandlerInv, LinksHeld, IsDefault
    <3> QED BY <3>1, <3>3 DEF HandlerInv
  <2>6. ASSUME NEW q \in Attachers \ {h}
        PROVE  Apart(h, q)'
    <3>1. /\ Apart(h, q)
          /\ Shop(h) \in LockedShops(q) => App(q) # App(h)
          /\ pc[q] = "commit" /\ MakeDefault(q) /\ MakeDefault(h) => App(q) # App(h)
      BY <1>1 DEF AttachInv, AttachWaits, EntriesInDoubt, LockedByOther
    <3>2. /\ LockedShops(q)' = LockedShops(q)
          /\ LockedShops(h)' = LockedShops(h) \cup {Shop(h)}
          /\ App(q)' = App(q) /\ Shop(q)' = Shop(q) /\ pc'[q] = pc[q]
          /\ MakeDefault(q)' <=> MakeDefault(q)
      BY <1>1, <2>1, <2>2, <2>4 DEF LockedShops, MovesAlone, App, Shop, MakeDefault
    <3> QED BY <2>1, <2>4, <3>1, <3>2 DEF Apart
  <2> QED BY <1>1, <2>2, <2>3, <2>5, <2>6, OneHandlerMoves
<1> QED BY <1>2, <1>3 DEF AttachProviderAccount

\* A failed transaction is rolled back.
LEMMA FailAttach ==
    ASSUME AttachInv, NEW h \in Attachers, Fail(h)
    PROVE  AttachInv'
<1>1. "internalError" \in Outcomes
  BY DEF Outcomes
<1> QED BY <1>1, RespondAttach DEF Fail

\* What a commit does to provider_accounts: the handler's own account appears, and
\* nothing that is stored changes.
LEMMA CommittedAccounts ==
    ASSUME AttachInv, NEW h \in Attachers, Commit(h)
    PROVE  /\ accounts' \in [Shops -> Secrets \cup {Null}]
           /\ accounts'[Shop(h)] = request[h].secret
           /\ \A s \in Shops : accounts[s] # Null => accounts'[s] = accounts[s]
           /\ \A s \in Shops : accounts'[s] # accounts[s] => created[h] /\ s = Shop(h)
<1>1. /\ TypeOK /\ HandlerInv(h) /\ pc[h] = "commit" /\ Shop(h) \in Shops
      /\ request[h].secret \in Secrets /\ accounts' = AccountsAfter(h)
  BY RequestParts DEF AttachInv, Commit
<1>2. CASE created[h]
  BY <1>1, <1>2, AttachTypes DEF AccountsAfter, HandlerInv, AccountHeld
<1>3. CASE ~created[h]
  BY <1>1, <1>3, AttachTypes DEF AccountsAfter, HandlerInv, AccountHeld, Decided
<1> QED BY <1>2, <1>3

\* What a commit does to application_providers: its own link gets its flag, the
\* cleared rows lose theirs, and no other row changes.
LEMMA CommittedLinks ==
    ASSUME AttachInv, NEW h \in Attachers, Commit(h)
    PROVE  /\ links' \in [Apps \X Shops -> Flags \cup {"absent"}]
           /\ links'[<<App(h), Shop(h)>>] =
                 IF MakeDefault(h) THEN "default" ELSE "attached"
           /\ \A s \in cleared[h] \ {Shop(h)} : links'[<<App(h), s>>] = "attached"
           /\ \A a \in Apps, s \in Shops :
                 a # App(h) \/ s \notin cleared[h] \cup {Shop(h)} =>
                    links'[<<a, s>>] = links[<<a, s>>]
<1>1. /\ TypeOK /\ App(h) \in Apps /\ Shop(h) \in Shops /\ links' = LinksAfter(h)
      /\ cleared[h] \subseteq Shops
  BY RequestParts, AttachTypes DEF AttachInv, Commit
<1>2. ASSUME NEW a \in Apps, NEW s \in Shops
      PROVE  links'[<<a, s>>] =
               CASE <<a, s>> = <<App(h), Shop(h)>> ->
                       IF MakeDefault(h) THEN "default" ELSE "attached"
                 [] a = App(h) /\ s \in cleared[h] \ {Shop(h)} -> "attached"
                 [] OTHER -> links[<<a, s>>]
  BY <1>1 DEF LinksAfter
<1>3. links' \in [Apps \X Shops -> Flags \cup {"absent"}]
  <2>1. ASSUME NEW l \in Apps \X Shops
        PROVE  links'[l] \in Flags \cup {"absent"}
    <3>1. PICK a \in Apps, s \in Shops : l = <<a, s>>
      OBVIOUS
    <3>2. links[<<a, s>>] \in Flags \cup {"absent"}
      BY <1>1, AttachTypes
    <3> QED BY <1>2, <3>1, <3>2 DEF Flags
  <2>2. links' = [l \in Apps \X Shops |-> links'[l]]
    BY <1>1 DEF LinksAfter
  <2> QED BY <2>1, <2>2
<1>4. links'[<<App(h), Shop(h)>>] = IF MakeDefault(h) THEN "default" ELSE "attached"
  BY <1>1, <1>2
<1>5. ASSUME NEW s \in cleared[h] \ {Shop(h)}
      PROVE  links'[<<App(h), s>>] = "attached"
  BY <1>1, <1>2
<1>6. ASSUME NEW a \in Apps, NEW s \in Shops, a # App(h) \/ s \notin cleared[h] \cup {Shop(h)}
      PROVE  links'[<<a, s>>] = links[<<a, s>>]
  BY <1>1, <1>2, <1>6
<1> QED BY <1>3, <1>4, <1>5, <1>6

\* A commit that is not to be the default leaves no new default behind; one that
\* is leaves no other.
LEMMA CommittedDefaults ==
    ASSUME AttachInv, NEW h \in Attachers, Commit(h),
           NEW a \in Apps, NEW s \in Shops, IsDefault(a, s)'
    PROVE  /\ a # App(h) \/ ~MakeDefault(h) => IsDefault(a, s)
           /\ a = App(h) /\ MakeDefault(h) => s = Shop(h)
<1>1. /\ HandlerInv(h) /\ pc[h] = "commit"
  BY DEF AttachInv, Commit
<1>2. links'[<<a, s>>] = "default"
  BY DEF IsDefault
<1>3. CASE a # App(h)
  BY <1>2, <1>3, CommittedLinks DEF IsDefault
<1>4. CASE a = App(h) /\ s \notin cleared[h] \cup {Shop(h)}
  <2>1. IsDefault(a, s)
    BY <1>2, <1>4, CommittedLinks DEF IsDefault
  <2> QED BY <1>1, <1>4, <2>1 DEF HandlerInv, LinksHeld
<1>5. CASE a = App(h) /\ s = Shop(h)
  BY <1>2, <1>5, CommittedLinks
<1>6. CASE a = App(h) /\ s \in cleared[h] \ {Shop(h)}
  BY <1>2, <1>6, CommittedLinks
<1> QED BY <1>3, <1>4, <1>5, <1>6

\* A link that is there stays there.
LEMMA CommittedLinksStay ==
    ASSUME AttachInv, NEW h \in Attachers, Commit(h), NEW a \in Apps, NEW s \in Shops,
           links[<<a, s>>] # "absent"
    PROVE  links'[<<a, s>>] # "absent"
<1>1. CASE a # App(h) \/ s \notin cleared[h] \cup {Shop(h)}
  BY <1>1, CommittedLinks
<1>2. CASE a = App(h) /\ s = Shop(h)
  BY <1>2, CommittedLinks
<1>3. CASE a = App(h) /\ s \in cleared[h] \ {Shop(h)}
  BY <1>3, CommittedLinks
<1> QED BY <1>1, <1>2, <1>3

\* The commit of one handler leaves the others what they rely on.
LEMMA CommitAttach ==
    ASSUME AttachInv, NEW h \in Attachers, Commit(h)
    PROVE  AttachInv'
<1>0. PICK answer \in {"201", "internalError"} : Respond(h, answer)
  BY DEF Commit
<1>1. /\ TypeOK /\ OneDefault /\ HandlerInv(h) /\ pc[h] = "commit"
      /\ App(h) \in Apps /\ Shop(h) \in Shops
      /\ request[h].secret \in Secrets /\ request[h].secret # Null
  BY RequestParts DEF AttachInv, Commit
<1>2. /\ pc'[h] = "idle" /\ request'[h] = Null /\ existing'[h] = NoLinks
      /\ created'[h] = FALSE /\ targets'[h] = {} /\ cleared'[h] = {}
      /\ MovesAlone(h)
  BY <1>0, <1>1, AttachTypes DEF Respond, Goto, EndTransaction, MovesAlone
<1>3. /\ pc' \in [Attachers -> Labels]
      /\ request' \in [Attachers -> Inputs \cup {Null}]
      /\ existing' \in [Attachers -> [Shops -> Flags \cup {"absent"}]]
      /\ created' \in [Attachers -> BOOLEAN]
      /\ targets' \in [Attachers -> SUBSET Shops]
      /\ cleared' \in [Attachers -> SUBSET Shops]
      /\ outcome' \in [Attachers -> Outcomes]
  <2>1. NoLinks \in [Shops -> Flags \cup {"absent"}]
    BY DEF NoLinks
  <2> QED BY <1>0, <1>1, <2>1, AttachTypes DEF Respond, Goto, EndTransaction, Labels, Outcomes
<1>4. ASSUME NEW a \in Apps, NEW s \in Shops, links'[<<a, s>>] # "absent"
      PROVE  accounts'[s] # Null
  <2>1. CASE s = Shop(h)
    BY <1>1, <2>1, CommittedAccounts
  <2>2. CASE s # Shop(h)
    <3>1. links[<<a, s>>] # "absent"
      <4>1. CASE a = App(h) /\ s \in cleared[h]
        BY <1>1, <4>1 DEF HandlerInv, LinksHeld, IsDefault
      <4>2. CASE a # App(h) \/ s \notin cleared[h]
        BY <1>4, <2>2, <4>2, CommittedLinks
      <4> QED BY <4>1, <4>2
    <3>2. accounts[s] # Null
      BY <1>1, <3>1 DEF TypeOK
    <3> QED BY <3>2, CommittedAccounts
  <2> QED BY <2>1, <2>2
<1>5. TypeOK'
  <2>1. \A q \in Attachers : pc'[q] # "idle" => request'[q] \in Inputs
    BY <1>1, <1>2 DEF TypeOK, MovesAlone
  <2> QED BY <1>3, <1>4, <2>1, CommittedAccounts, CommittedLinks DEF TypeOK
<1>6. OneDefault'
  <2>1. ASSUME NEW a \in Apps, NEW s \in Shops, NEW t \in Shops,
               IsDefault(a, s)', IsDefault(a, t)'
        PROVE  s = t
    <3>1. CASE a = App(h) /\ MakeDefault(h)
      BY <2>1, <3>1, CommittedDefaults
    <3>2. CASE a # App(h) \/ ~MakeDefault(h)
      <4>1. IsDefault(a, s) /\ IsDefault(a, t)
        BY <2>1, <3>2, CommittedDefaults
      <4> QED BY <1>1, <4>1 DEF OneDefault
    <3> QED BY <3>1, <3>2
  <2> QED BY <2>1 DEF OneDefault
<1>7. ASSUME NEW q \in Attachers \ {h}
      PROVE  HandlerInv(q)'
  <2>1. /\ HandlerInv(q) /\ Apart(h, q)
        /\ pc[q] # "idle" => App(q) \in Apps /\ Shop(q) \in Shops /\ request[q].secret # Null
    BY <1>1, RequestParts DEF AttachInv
  <2>2. /\ pc'[q] = pc[q] /\ existing'[q] = existing[q] /\ created'[q] = created[q]
        /\ cleared'[q] = cleared[q] /\ request'[q] = request[q]
        /\ App(q)' = App(q) /\ Shop(q)' = Shop(q)
        /\ MakeDefault(q)' <=> MakeDefault(q)
    BY <1>2 DEF MovesAlone, App, Shop, MakeDefault
  <2>3. LocalsFollow(q)'
    BY <2>1, <2>2 DEF HandlerInv, LocalsFollow
  <2>4. AccountHeld(q)'
    <3>1. CASE created[q]
      <4>1. accounts[Shop(q)] = Null /\ pc[q] \in Decided
        BY <2>1, <3>1 DEF HandlerInv, AccountHeld, LocalsFollow
      <4>2. Shop(q) \in Shops
        BY <2>1, <4>1 DEF Decided
      <4>3. accounts'[Shop(q)] = accounts[Shop(q)]
        BY <2>1, <3>1, <4>2, CommittedAccounts DEF Apart
      <4> QED BY <2>2, <3>1, <4>1, <4>3 DEF AccountHeld
    <3>2. CASE ~created[q] /\ pc[q] \in Decided
      <4>1. /\ Shop(q) \in Shops /\ accounts[Shop(q)] # Null
            /\ accounts[Shop(q)] = request[q].secret
        BY <2>1, <3>2 DEF HandlerInv, AccountHeld, Decided
      <4>2. accounts'[Shop(q)] = accounts[Shop(q)]
        BY <4>1, CommittedAccounts
      <4> QED BY <2>2, <3>2, <4>1, <4>2 DEF AccountHeld
    <3>3. CASE ~created[q] /\ pc[q] \notin Decided
      BY <2>2, <3>3 DEF AccountHeld
    <3> QED BY <3>1, <3>2, <3>3
  <2>5. LinksHeld(q)'
    <3>1. CASE pc[q] \in {"idle", "list"}
      <4>1. existing[q] = NoLinks /\ cleared[q] = {}
        BY <2>1, <3>1 DEF HandlerInv, LocalsFollow
      <4> QED BY <2>2, <3>1, <4>1 DEF LinksHeld, NoLinks
    <3>2. CASE pc[q] \notin {"idle", "list"}
      <4>1. App(q) \in Apps
        BY <2>1, <3>2
      <4>2. \A s \in Shops : existing[q][s] # "absent" => links'[<<App(q), s>>] # "absent"
        BY <2>1, <4>1, CommittedLinksStay DEF HandlerInv, LinksHeld
      <4>3. ASSUME NEW s \in cleared[q]
            PROVE  links'[<<App(q), s>>] = "default"
        <5>1. s \in Shops /\ links[<<App(q), s>>] = "default"
          BY <1>1, <2>1, AttachTypes DEF HandlerInv, LinksHeld, IsDefault
        <5>2. App(q) # App(h) \/ s \notin cleared[h] \cup {Shop(h)}
          BY <1>1, <2>1 DEF Apart, LockedShops
        <5> QED BY <4>1, <5>1, <5>2, CommittedLinks
      <4>4. ASSUME pc[q] = "commit", MakeDefault(q), NEW s \in Shops, IsDefault(App(q), s)'
            PROVE  s \in cleared[q] \cup {Shop(q)}
        <5>1. PICK a \in Apps : a = App(q)
          BY <4>1
        <5>2. IsDefault(a, s)'
          BY <2>2, <4>4, <5>1 DEF IsDefault
        <5>3. a # App(h) \/ ~MakeDefault(h)
          BY <1>1, <2>1, <4>4, <5>1 DEF Apart
        <5>4. IsDefault(App(q), s)
          BY <5>1, <5>2, <5>3, CommittedDefaults
        <5> QED BY <2>1, <4>4, <5>4 DEF HandlerInv, LinksHeld
      <4> QED BY <2>2, <4>2, <4>3, <4>4 DEF LinksHeld, IsDefault
    <3> QED BY <3>1, <3>2
  <2> QED BY <2>3, <2>4, <2>5 DEF HandlerInv
<1>8. HandlerInv(h)'
  BY <1>2 DEF HandlerInv, LocalsFollow, AccountHeld, LinksHeld, NoLinks, Decided
<1>9. ASSUME NEW q \in Attachers, NEW t \in Attachers, q # t
      PROVE  Apart(q, t)'
  <2>1. \A u \in Attachers \ {h} : Apart(h, u)'
    BY <1>2, EmptyHandedApart
  <2>2. \A u \in Attachers \ {h} : Apart(u, h)'
    BY <2>1 DEF Apart
  <2>3. CASE q # h /\ t # h
    <3>1. Apart(q, t)
      BY <1>9 DEF AttachInv
    <3> QED BY <1>2, <2>3, <3>1 DEF Apart, MovesAlone, App, Shop, MakeDefault, LockedShops
  <2> QED BY <1>9, <2>1, <2>2, <2>3
<1> QED BY <1>5, <1>6, <1>7, <1>8, <1>9 DEF AttachInv

---------------------------------------------------------------------------
\* Nothing is stored and nobody is at work in the beginning.
LEMMA InitAttach == Init => AttachInv
<1> SUFFICES ASSUME Init PROVE AttachInv
  OBVIOUS
<1>1. NoLinks \in [Shops -> Flags \cup {"absent"}]
  BY DEF NoLinks
<1>2. TypeOK
  <2>1. /\ accounts \in [Shops -> Secrets \cup {Null}]
        /\ links \in [Apps \X Shops -> Flags \cup {"absent"}]
        /\ pc \in [Attachers -> Labels]
        /\ request \in [Attachers -> Inputs \cup {Null}]
        /\ existing \in [Attachers -> [Shops -> Flags \cup {"absent"}]]
        /\ created \in [Attachers -> BOOLEAN]
        /\ targets \in [Attachers -> SUBSET Shops]
        /\ cleared \in [Attachers -> SUBSET Shops]
        /\ outcome \in [Attachers -> Outcomes]
    BY <1>1 DEF Init, Labels, Outcomes
  <2>2. \A a \in Apps, s \in Shops : links[<<a, s>>] = "absent"
    BY DEF Init
  <2> QED BY <2>1, <2>2 DEF TypeOK, Init
<1>3. OneDefault
  BY DEF Init, OneDefault, IsDefault
<1>4. \A h \in Attachers : HandlerInv(h)
  BY DEF Init, HandlerInv, LocalsFollow, AccountHeld, LinksHeld, NoLinks, Decided
<1>5. \A h, q \in Attachers : h # q => Apart(h, q)
  BY DEF Init, Apart, LockedShops
<1> QED BY <1>2, <1>3, <1>4, <1>5 DEF AttachInv

\* Every step keeps it.
LEMMA NextAttach == AttachInv /\ [Next]_vars => AttachInv'
<1> SUFFICES ASSUME AttachInv, [Next]_vars PROVE AttachInv'
  OBVIOUS
<1>1. ASSUME NEW h \in Attachers, NEW in \in Inputs, Receive(h, in) PROVE AttachInv'
  BY <1>1, ReceiveAttach
<1>2. ASSUME NEW h \in Attachers, HandlerStep(h) PROVE AttachInv'
  BY <1>2, ListAttach, LookupAttach, CreateAttach, ClearDefaultAttach, ClearRowAttach,
     AttachAttach, CommitAttach DEF HandlerStep
<1>3. ASSUME NEW h \in Attachers, Fail(h) PROVE AttachInv'
  BY <1>3, FailAttach
<1>4. CASE UNCHANGED vars
  BY <1>4 DEF AttachInv, vars, locals, TypeOK, OneDefault, HandlerInv, LocalsFollow, AccountHeld,
              LinksHeld, Apart, LockedShops, MakeDefault, App, Shop, IsDefault, HasDefault
<1> QED BY <1>1, <1>2, <1>3, <1>4 DEF Next

\* The invariant holds of every execution.
LEMMA AttachInvariant == Spec => []AttachInv
<1> QED BY InitAttach, NextAttach, PTL DEF Spec

\* The tables and locals keep their types and a link refers to a stored account,
\* however the attach requests interleave.
THEOREM AttachTypesCorrect == Spec => []TypeOK
<1>1. AttachInv => TypeOK
  BY DEF AttachInv
<1> QED BY <1>1, AttachInvariant, PTL

\* However many requests attach providers to an application at once, and wherever
\* they fail, it has at most one default.
THEOREM AtMostOneDefault == Spec => []OneDefault
<1>1. AttachInv => OneDefault
  BY DEF AttachInv
<1> QED BY <1>1, AttachInvariant, PTL

---------------------------------------------------------------------------
(* What a step may do.                                                     *)

\* Only a commit changes the tables.
LEMMA OnlyCommitWrites ==
    ASSUME [Next]_vars, accounts' # accounts \/ links' # links
    PROVE  \E h \in Attachers : Commit(h)
  BY DEF Next, HandlerStep, Receive, ListProviderAccounts, LookupShop, CreateAccount, ClearDefault,
         ClearRow, AttachProviderAccount, Fail, vars

\* Only a commit is answered with success.
LEMMA OnlyCommitAnswers ==
    ASSUME AttachInv, [Next]_vars, NEW h \in Attachers, Answers(h, "201")
    PROVE  Commit(h)
<1>1. /\ TypeOK /\ pc[h] # "idle" /\ pc'[h] = "idle" /\ outcome'[h] = "201"
      /\ pc \in [Attachers -> Labels] /\ outcome \in [Attachers -> Outcomes]
  BY AttachTypes DEF AttachInv, Answers
<1>2. PICK q \in Attachers : (\E in \in Inputs : Receive(q, in)) \/ HandlerStep(q) \/ Fail(q)
  BY <1>1 DEF Next, vars
<1>3. q = h
  BY <1>1, <1>2 DEF HandlerStep, Receive, ListProviderAccounts, LookupShop, CreateAccount,
     ClearDefault, ClearRow, AttachProviderAccount, Commit, Fail, Respond, Goto
<1> QED
  BY <1>1, <1>2, <1>3 DEF HandlerStep, Receive, ListProviderAccounts, LookupShop, CreateAccount,
     ClearDefault, ClearRow, AttachProviderAccount, Fail, Respond, Goto, AfterAccount, locals

\* A request answered with success presented the secret that is stored.
THEOREM SecretCorrect == Spec => AttachedSecretIsStored
<1>1. AttachInv /\ [Next]_vars =>
        [\A h \in Attachers :
           Answers(h, "201") => accounts'[Shop(h)] = request[h].secret]_vars
  BY OnlyCommitAnswers, CommittedAccounts
<1> QED BY <1>1, AttachInvariant, PTL DEF Spec, AttachedSecretIsStored

\* The first provider of an application becomes its default.
THEOREM FirstIsDefault == Spec => FirstProviderIsDefault
<1>1. ASSUME AttachInv, [Next]_vars, NEW a \in Apps,
             \A s \in Shops : links[<<a, s>>] = "absent",
             NEW t \in Shops, links'[<<a, t>>] # "absent"
      PROVE  HasDefault(a)'
  <2>1. PICK h \in Attachers : Commit(h)
    BY <1>1, OnlyCommitWrites
  <2>2. /\ TypeOK /\ HandlerInv(h) /\ pc[h] = "commit" /\ Shop(h) \in Shops
    BY <1>1, <2>1, RequestParts DEF AttachInv, Commit
  <2>3. a = App(h)
    BY <1>1, <2>1, CommittedLinks
  <2>4. existing[h] = NoLinks
    <3>1. \A s \in Shops : existing[h][s] = "absent"
      BY <1>1, <2>2, <2>3 DEF HandlerInv, LinksHeld
    <3>2. existing[h] \in [Shops -> Flags \cup {"absent"}]
      BY <2>2, AttachTypes
    <3> QED BY <3>1, <3>2 DEF NoLinks
  <2>5. MakeDefault(h)
    BY <2>4 DEF MakeDefault
  <2>6. links'[<<a, Shop(h)>>] = "default"
    BY <1>1, <2>1, <2>3, <2>5, CommittedLinks
  <2> QED BY <2>2, <2>6 DEF HasDefault, IsDefault
<1>2. AttachInv /\ [Next]_vars =>
        [\A a \in Apps :
           (\A s \in Shops : links[<<a, s>>] = "absent")
               /\ (\E s \in Shops : links'[<<a, s>>] # "absent")
           => HasDefault(a)']_vars
  BY <1>1
<1> QED BY <1>2, AttachInvariant, PTL DEF Spec, FirstProviderIsDefault

\* An application loses its default to nobody but a re-attach of the default
\* provider that listed it before it became the default.
THEOREM DefaultLostOnce == Spec => DefaultLostOnlyToStaleList
<1>1. ASSUME AttachInv, [Next]_vars, NEW a \in Apps, HasDefault(a), ~HasDefault(a)'
      PROVE  \E h \in Attachers :
               /\ Ends(h)
               /\ App(h) = a
               /\ IsDefault(a, Shop(h))
               /\ existing[h][Shop(h)] # "default"
  <2>1. PICK s \in Shops : links[<<a, s>>] = "default"
    BY <1>1 DEF HasDefault, IsDefault
  <2>2. links'[<<a, s>>] # "default"
    BY <1>1 DEF HasDefault, IsDefault
  <2>3. PICK h \in Attachers : Commit(h)
    BY <1>1, <2>1, <2>2, OnlyCommitWrites
  <2>4. /\ TypeOK /\ HandlerInv(h) /\ pc[h] = "commit" /\ Shop(h) \in Shops
    BY <1>1, <2>3, RequestParts DEF AttachInv, Commit
  <2>5. a = App(h) /\ s \in cleared[h] \cup {Shop(h)}
    BY <1>1, <2>1, <2>2, <2>3, CommittedLinks
  <2>6. ~MakeDefault(h)
    <3>1. ASSUME MakeDefault(h) PROVE FALSE
      <4>1. links'[<<a, Shop(h)>>] = "default"
        BY <1>1, <2>3, <2>5, <3>1, CommittedLinks
      <4> QED BY <1>1, <2>4, <4>1 DEF HasDefault, IsDefault
    <3> QED BY <3>1
  <2>7. cleared[h] = {}
    BY <2>4, <2>6 DEF HandlerInv, LocalsFollow
  <2>8. s = Shop(h) /\ existing[h][Shop(h)] # "default"
    BY <2>5, <2>6, <2>7 DEF MakeDefault
  <2>9. Ends(h)
    BY <2>3, <2>4, AttachTypes DEF Ends, Commit, Respond, Goto
  <2> QED BY <2>1, <2>5, <2>8, <2>9 DEF IsDefault
<1>2. AttachInv /\ [Next]_vars =>
        [\A a \in Apps :
           HasDefault(a) /\ ~HasDefault(a)' =>
               \E h \in Attachers :
                   /\ Ends(h)
                   /\ App(h) = a
                   /\ IsDefault(a, Shop(h))
                   /\ existing[h][Shop(h)] # "default"]_vars
  BY <1>1
<1> QED BY <1>2, AttachInvariant, PTL DEF Spec, DefaultLostOnlyToStaleList
=============================================================================
