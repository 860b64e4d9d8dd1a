---------------------------- MODULE ModelCatalog ----------------------------
(***************************************************************************)
(* The proxy's view of the IDE's account and the catalog of models it      *)
(* resolves requests against: the reloader of the account                  *)
(* (cmd/cursor-proxy/main.go, makeIDEAccountReloader), CurrentAccount      *)
(* (executor/client.go) and the catalog cache (executor/models.go).        *)
(*                                                                         *)
(* Every upstream call asks CurrentAccount which account to use, and the   *)
(* user may switch accounts in the IDE at any time.  ListModels asks twice: *)
(* for the request's headers, and for the identity it files the catalog    *)
(* under.  A catalog is known by the account it was fetched with; an       *)
(* account stands for its AuthID and access token.                         *)
(***************************************************************************)
EXTENDS Naturals

CONSTANTS
  Accounts,     \* the accounts the user has in the IDE
  Requests,     \* requests that resolve a model, each one after another
  NoAccount,
  MaxSwitches   \* bound: how often the user switches

ASSUME CatalogAssumption == NoAccount \notin Accounts /\ MaxSwitches \in Nat

VARIABLES
  ide,       \* the account in the IDE's database, and its modification time
  mtime,     \* lastMTime: the time of what the reloader read last
  current,   \* Client.Account
  catalog,   \* modelCatalog and modelCatalogIdentity
  requests   \* the requests

catalogVars == <<ide, mtime, current, catalog, requests>>

(* overtaken (ghost): the account was switched while the catalog was fetched. *)
NoCatalog == [of |-> NoAccount, identity |-> NoAccount, overtaken |-> FALSE]
NoRequest == [pc |-> "idle", identity |-> NoAccount, got |-> NoCatalog]

(* The account is read before its modification time, so a switch between    *)
(* the two is not noticed.                                                 *)
CatalogInit ==
  /\ \E a, b \in Accounts : ide = [account |-> a, time |-> 0] /\ current = b
  /\ mtime = 0
  /\ catalog = NoCatalog
  /\ requests = [r \in Requests |-> NoRequest]

SwitchAccount(a) ==
  /\ ide.time < MaxSwitches
  /\ ide' = [account |-> a, time |-> ide.time + 1]
  /\ UNCHANGED <<mtime, current, catalog, requests>>

(* CurrentAccount.  The database is read only when its time has advanced,   *)
(* and may have changed again since; a failed read keeps the account.      *)
CurrentAccount ==
  \/ UNCHANGED <<mtime, current>>
  \/ /\ mtime < ide.time
     /\ mtime' \in mtime + 1 .. ide.time
     /\ current' = ide.account

Requested(r, request) ==
  requests' = [q \in Requests |->
                 IF q = r THEN request
                 ELSE IF current' # current /\ requests[q].pc = "wait"
                 THEN [requests[q] EXCEPT !.got.overtaken = TRUE]
                 ELSE requests[q]]

(* resolveRequestedModel asks for the identity, and then looks up. *)
Resolve(r) ==
  /\ requests[r].pc = "idle"
  /\ CurrentAccount
  /\ Requested(r, [NoRequest EXCEPT !.pc = "lookup", !.identity = current'])
  /\ UNCHANGED <<ide, catalog>>

\* Mutant of UseCached: the identity is not compared.
UseCachedOfAny(r) ==
  /\ requests[r].pc = "lookup"
  /\ catalog # NoCatalog
  /\ requests' = [requests EXCEPT ![r].pc = "cached", ![r].got = catalog]
  /\ UNCHANGED <<ide, mtime, current, catalog>>

UseCached(r) ==
  /\ requests[r].pc = "lookup"
  /\ catalog # NoCatalog /\ catalog.identity = requests[r].identity
  /\ requests' = [requests EXCEPT ![r].pc = "cached", ![r].got = catalog]
  /\ UNCHANGED <<ide, mtime, current, catalog>>

(* ListModels, when the catalog is another account's or too old, or for a   *)
(* client that lists the models: the request is sent.                      *)
FetchCatalog(r) ==
  /\ requests[r].pc \in {"idle", "lookup"}
  /\ CurrentAccount
  /\ Requested(r, [requests[r] EXCEPT
                     !.pc = "wait", !.got = [NoCatalog EXCEPT !.of = current']])
  /\ UNCHANGED <<ide, catalog>>

(* The catalog has come; rememberModelCatalog is called for the account of  *)
(* now.                                                                    *)
CatalogComes(r) ==
  /\ requests[r].pc = "wait"
  /\ CurrentAccount
  /\ Requested(r, [requests[r] EXCEPT
                     !.pc = "remember", !.got.identity = current',
                     !.got.overtaken = @ \/ current' # current])
  /\ UNCHANGED <<ide, catalog>>

CatalogFails(r) ==
  /\ requests[r].pc = "wait"
  /\ requests' = [requests EXCEPT ![r] = NoRequest]
  /\ UNCHANGED <<ide, mtime, current, catalog>>

RememberModelCatalog(r) ==
  /\ requests[r].pc = "remember"
  /\ catalog' = requests[r].got
  /\ requests' = [requests EXCEPT ![r].pc = "fetched"]
  /\ UNCHANGED <<ide, mtime, current>>

Resolved(r) ==
  /\ requests[r].pc \in {"cached", "fetched"}
  /\ requests' = [requests EXCEPT ![r] = NoRequest]
  /\ UNCHANGED <<ide, mtime, current, catalog>>

CatalogNext ==
  \/ \E a \in Accounts : SwitchAccount(a)
  \/ \E r \in Requests : \/ Resolve(r) \/ UseCached(r) \/ FetchCatalog(r)
                         \/ CatalogComes(r) \/ CatalogFails(r)
                         \/ RememberModelCatalog(r) \/ Resolved(r)

CatalogSpec == CatalogInit /\ [][CatalogNext]_catalogVars

(***************************************************************************)
(* Properties.                                                             *)
(***************************************************************************)
(* A request that resolves its model from the cache does it against the     *)
(* catalog of the account it was made for, however often the user switches  *)
(* accounts: but for the catalogs whose own fetch a switch overtook, which  *)
(* are filed under the wrong account.                                      *)
CatalogIsOwn ==
  \A r \in Requests :
    requests[r].pc = "cached" =>
      \/ requests[r].got.of = requests[r].identity
      \/ requests[r].got.overtaken
=============================================================================
