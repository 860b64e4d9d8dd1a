---------------------------- MODULE AuthRegistry ----------------------------
(***************************************************************************)
(* The plugin's registry of accounts and their cached status, by the       *)
(* example of one account (plugin/cursor/kernel/status.go, authRegistry).  *)
(* Register replaces the account and drops its status; Status looks both   *)
(* up, fetches without the lock, and stores what it fetched.               *)
(*                                                                         *)
(* The versions of the account are numbered in the order they were         *)
(* registered; 0 is none.  Whether a cached status is older than the time  *)
(* to live is left open.                                                   *)
(***************************************************************************)
EXTENDS Naturals

CONSTANTS
  Callers,      \* host calls that ask for the account's status
  MaxVersions   \* bound: how often the account is registered

ASSUME RegistryAssumption == MaxVersions \in Nat

VARIABLES
  registered,   \* authRegistry.accounts: the version held
  statuses,     \* authRegistry.cache: at most one entry
  callers       \* the calls: the version each fetches the status of, and what it got

registryVars == <<registered, statuses, callers>>

(* A status is known by the version it is about.  overtaken (ghost) says    *)
(* that the account was registered anew while the fetch was under way.     *)
Status == [version : Nat, overtaken : BOOLEAN]
NoStatus == [version |-> 0, overtaken |-> FALSE]
NotCalling == [pc |-> "waiting", force |-> FALSE, status |-> NoStatus]

RegistryInit ==
  /\ registered = 0 /\ statuses = {}
  /\ callers = [c \in Callers |-> NotCalling]

Overtake ==
  callers' = [c \in Callers |->
                IF callers[c].pc = "fetch" THEN [callers[c] EXCEPT !.status.overtaken = TRUE]
                ELSE callers[c]]

\* Mutant of RegisterAccount: the cached status is not invalidated.
RegisterKeepsStatus ==
  /\ registered < MaxVersions
  /\ registered' = registered + 1
  /\ Overtake
  /\ UNCHANGED statuses

RegisterAccount ==
  /\ registered < MaxVersions
  /\ registered' = registered + 1
  /\ statuses' = {}
  /\ Overtake

(* By handleAccountRefresh and handleAccountProbe. *)
Invalidate ==
  /\ statuses' = {}
  /\ UNCHANGED <<registered, callers>>

(* The first critical section of Status. *)
LookUpStatus(c, force) ==
  /\ callers[c] = NotCalling
  /\ registered > 0
  /\ \/ /\ ~force
        /\ \E s \in statuses :
             callers' = [callers EXCEPT ![c] = [pc |-> "cached", force |-> FALSE, status |-> s]]
     \/ callers' = [callers EXCEPT ![c] =
                      [pc |-> "fetch", force |-> force,
                       status |-> [version |-> registered, overtaken |-> FALSE]]]
  /\ UNCHANGED <<registered, statuses>>

(* The second: what was fetched is stored, unless there was nothing.        *)
StoreStatus(c) ==
  /\ callers[c].pc = "fetch"
  /\ callers' = [callers EXCEPT ![c].pc = "fetched"]
  /\ statuses' \in {statuses, {callers[c].status}}
  /\ UNCHANGED registered

RespondStatus(c) ==
  /\ callers[c].pc \in {"cached", "fetched"}
  /\ callers' = [callers EXCEPT ![c] = NotCalling]
  /\ UNCHANGED <<registered, statuses>>

RegistryNext ==
  \/ RegisterAccount \/ Invalidate
  \/ \E c \in Callers : \/ \E force \in BOOLEAN : LookUpStatus(c, force)
                        \/ StoreStatus(c) \/ RespondStatus(c)

RegistrySpec == RegistryInit /\ [][RegistryNext]_registryVars

(***************************************************************************)
(* Properties.                                                             *)
(***************************************************************************)
(* Registering the account again invalidates its status "because the token  *)
(* may have changed": a status of an earlier version is cached only if its  *)
(* fetch was under way at a registration.  That it can be cached even then  *)
(* is the weakness the model shows.                                        *)
StaleOnlyByOverlap ==
  \A s \in statuses : s.version = registered \/ s.overtaken
=============================================================================
