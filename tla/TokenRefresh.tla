---------------------------- MODULE TokenRefresh ----------------------------
(***************************************************************************)
(* The refresh of an OAuth token that several processes share: ensureFresh *)
(* with its cross-process lock, login and logout                           *)
(* (packages/oauth/src/oauth-manager.ts) over one token file (storage.ts). *)
(*                                                                         *)
(* A token stands for its refresh token.  The identity provider rotates:   *)
(* a refresh uses the token up and answers with a new one.  Within a       *)
(* process inFlightRefresh lets at most one refresh run.                   *)
(***************************************************************************)
EXTENDS Integers

CONSTANTS
    Process,
    MaxTokens,    \* bound: tokens the provider issues
    Locking,      \* the lock is in use: not on Windows, not without configDir
    Overlap       \* the phases of a refresh during which a login or a logout
                  \* may happen: the code excludes none of them

VARIABLES
    kind,        \* what the file holds: "missing", "revoked", "valid"
    token,       \* the token in it when it is valid
    due,         \* the tokens close to their expiry
    honored,     \* the tokens the provider would accept
    issued,      \* how many tokens it has issued
    lock,        \* who holds the refresh lock: {} or {process}
    phase,       \* per process: where doEnsureFresh is
    forced,      \* per process: the force flag of that call
    using,       \* per process: the token it read, then the one it sends
    got,         \* per process: the token it was answered
    severed      \* the provider's last answer never reached the file

vars == << kind, token, due, honored, issued, lock, phase, forced, using, got,
           severed >>

Phases == {"idle", "waiting", "locked", "asking", "answered", "rejected", "condemning"}

TypeOK ==
    /\ kind \in {"missing", "revoked", "valid"}
    /\ token \in Nat
    /\ kind = "valid" => token \in 1..issued
    /\ due \in SUBSET Nat
    /\ honored \in SUBSET (1..issued)
    /\ issued \in Nat
    /\ lock \in SUBSET Process
    /\ phase \in [Process -> Phases]
    /\ forced \in [Process -> BOOLEAN]
    /\ using \in [Process -> Nat]
    /\ got \in [Process -> Nat]
    /\ severed \in BOOLEAN

\* A process between taking the lock and giving it back.
Inside(p) == phase[p] \notin {"idle", "waiting"}

\* A login or logout may come now.
Open == \A p \in Process: phase[p] \in Overlap \cup {"idle"}

Init ==
    /\ kind = "missing" /\ token = 0
    /\ due = {} /\ honored = {} /\ issued = 0
    /\ lock = {}
    /\ phase = [p \in Process |-> "idle"]
    /\ forced = [p \in Process |-> FALSE]
    /\ using = [p \in Process |-> 0]
    /\ got = [p \in Process |-> 0]
    /\ severed = FALSE
-----------------------------------------------------------------------------
Goes(p, from, to) == phase[p] = from /\ phase' = [phase EXCEPT ![p] = to]

\* The end of doEnsureFresh, by a return or a throw: its finally releases.
Ends(p) ==
    /\ phase' = [phase EXCEPT ![p] = "idle"]
    /\ lock' = lock \ {p}

stored == << kind, token >>

provider == << honored, issued >>

\* The provider hands out a token; a used one is not accepted again.
Issue(used) ==
    /\ issued < MaxTokens
    /\ issued' = issued + 1
    /\ honored' = (honored \ used) \cup {issued + 1}

\* ensureFresh reads a valid token that is due, or is told to refresh anyway.
Begin(p, force) ==
    /\ kind = "valid"
    /\ force \/ token \in due
    /\ Goes(p, "idle", "waiting")
    /\ forced' = [forced EXCEPT ![p] = force]
    /\ using' = [using EXCEPT ![p] = token]
    /\ UNCHANGED << stored, due, provider, lock, got, severed >>

\* Mutant of Lock: the lock is not waited for.
Lock_Shared(p) ==
    /\ Goes(p, "waiting", "locked")
    /\ lock' = lock \cup {p}
    /\ UNCHANGED << stored, due, provider, forced, using, got, severed >>

Lock(p) ==
    /\ Locking => lock = {}
    /\ Lock_Shared(p)

\* The lock cannot be acquired: the refresh fails instead of going on.
LockFails(p) ==
    /\ Goes(p, "waiting", "idle")
    /\ lock # {}
    /\ UNCHANGED << stored, due, provider, lock, forced, using, got, severed >>

\* The file is read again under the lock: somebody else has refreshed,
\* or has been rejected.
AlreadyDone(p) ==
    /\ phase[p] = "locked"
    /\ \/ kind = "revoked"
       \/ kind = "valid" /\ ~forced[p] /\ token \notin due
       \/ kind = "valid" /\ forced[p] /\ token # using[p]
    /\ Ends(p)
    /\ UNCHANGED << stored, due, provider, forced, using, got, severed >>

\* It still needs a refresh; a file that has gone is as it was read before.
Ask(p) ==
    /\ Goes(p, "locked", "asking")
    /\ \/ /\ kind = "valid"
          /\ IF forced[p] THEN token = using[p] ELSE token \in due
          /\ using' = [using EXCEPT ![p] = token]
       \/ kind = "missing" /\ UNCHANGED using
    /\ UNCHANGED << stored, due, provider, lock, forced, got, severed >>

\* The provider accepts the token and the answer arrives.
Answer(p) ==
    /\ using[p] \in honored
    /\ Goes(p, "asking", "answered")
    /\ Issue({using[p]})
    /\ got' = [got EXCEPT ![p] = issued + 1]
    /\ UNCHANGED << stored, due, lock, forced, using, severed >>

\* The provider accepts the token and the answer is lost; refreshAccessToken
\* sends the same token again.
LoseAnswer(p) ==
    /\ phase[p] = "asking"
    /\ using[p] \in honored
    /\ Issue({using[p]})
    /\ severed' = TRUE
    /\ UNCHANGED << stored, due, lock, phase, forced, using, got >>

\* No attempt got through, or the provider answered with another error.
AskFails(p) ==
    /\ phase[p] = "asking"
    /\ Ends(p)
    /\ UNCHANGED << stored, due, provider, forced, using, got, severed >>

Reject(p) ==
    /\ using[p] \notin honored
    /\ Goes(p, "asking", "rejected")
    /\ UNCHANGED << stored, due, provider, lock, forced, using, got, severed >>

\* Mutant of Save: the new tokens are merged under the old ones, which keeps
\* the refresh token that was just used up.
Save_KeepsOld(p) ==
    /\ phase[p] = "answered"
    /\ kind' = "valid" /\ token' = using[p]
    /\ Ends(p)
    /\ UNCHANGED << due, provider, forced, using, got, severed >>

Save(p) ==
    /\ phase[p] = "answered"
    /\ kind' = "valid" /\ token' = got[p]
    /\ Ends(p)
    /\ UNCHANGED << due, provider, forced, using, got, severed >>

\* The file cannot be written: the error is reported, the answer is gone.
SaveFails(p) ==
    /\ phase[p] = "answered"
    /\ severed' = TRUE
    /\ Ends(p)
    /\ UNCHANGED << stored, due, provider, forced, using, got >>

\* After a rejection the file is read once more: another token is taken ...
Recover(p) ==
    /\ phase[p] = "rejected"
    /\ kind = "valid" /\ token # using[p]
    /\ Ends(p)
    /\ UNCHANGED << stored, due, provider, forced, using, got, severed >>

\* ... and if there is none the file becomes a tombstone.
Condemn(p) ==
    /\ kind # "valid" \/ token = using[p]
    /\ Goes(p, "rejected", "condemning")
    /\ UNCHANGED << stored, due, provider, lock, forced, using, got, severed >>

Tombstone(p) ==
    /\ phase[p] = "condemning"
    /\ kind' = "revoked" /\ token' = 0
    /\ Ends(p)
    /\ UNCHANGED << due, provider, forced, using, got, severed >>

\* The process ends; its lock turns stale and is given up.
Crash(p) ==
    /\ phase[p] # "idle"
    /\ severed' = (severed \/ phase[p] = "answered")
    /\ Ends(p)
    /\ UNCHANGED << stored, due, provider, forced, using, got >>
-----------------------------------------------------------------------------
\* Login and logout write the file without the refresh lock.
Login ==
    /\ Open
    /\ Issue({})
    /\ kind' = "valid" /\ token' = issued + 1
    /\ severed' = FALSE
    /\ UNCHANGED << due, lock, phase, forced, using, got >>

Logout ==
    /\ Open
    /\ kind # "missing"
    /\ kind' = "missing" /\ token' = 0
    /\ UNCHANGED << due, provider, lock, phase, forced, using, got, severed >>

Age ==
    /\ kind = "valid"
    /\ due' = due \cup {token}
    /\ UNCHANGED << stored, provider, lock, phase, forced, using, got, severed >>

\* The user revokes the grant at the provider.
Revoke ==
    /\ honored # {}
    /\ honored' = {}
    /\ severed' = TRUE
    /\ UNCHANGED << stored, due, issued, lock, phase, forced, using, got >>

Next ==
    \/ \E p \in Process:
          \/ \E force \in BOOLEAN: Begin(p, force)
          \/ Lock(p) \/ LockFails(p) \/ AlreadyDone(p)
          \/ Ask(p) \/ Answer(p) \/ LoseAnswer(p) \/ AskFails(p) \/ Reject(p)
          \/ Save(p) \/ SaveFails(p)
          \/ Recover(p) \/ Condemn(p) \/ Tombstone(p)
          \/ Crash(p)
    \/ Login \/ Logout \/ Age \/ Revoke

Spec == Init /\ [][Next]_vars
-----------------------------------------------------------------------------
\* Whenever no refresh is past its first read, a stored token is one the
\* provider accepts, unless an answer of the provider never reached the file:
\* doEnsureFresh never leaves a token behind that it has used up.
StoredTokenUsable ==
    /\ \A p \in Process: ~Inside(p)
    /\ kind = "valid"
    /\ ~severed
    => token \in honored

\* A step that puts a tombstone in the place of a token.
TombstoneEarned == kind = "valid" /\ kind' = "revoked" => token \notin honored

\* The tombstone of doEnsureFresh only ever replaces a token that the provider
\* rejects: no process is logged out because another one refreshed.
NoFalseTombstone == [][TombstoneEarned]_vars
=============================================================================
