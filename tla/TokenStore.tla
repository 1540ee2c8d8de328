------------------------------ MODULE TokenStore ------------------------------
(***************************************************************************)
(* The OAuth token store (src/auth/mod.rs): one JSON file of profiles,     *)
(* shared by the turns of the running service and by the login, logout     *)
(* and status commands, which are processes of their own.  Every access    *)
(* takes an advisory file lock, loads the file, and replaces it by         *)
(* renaming a new one over it.  A turn whose token is about to expire      *)
(* refreshes it with the authorization server between two such accesses,   *)
(* with no lock held.                                                      *)
(*                                                                         *)
(* The server (external) numbers the refresh tokens of a grant.  Either it *)
(* retires the token it was given with every exchange and issues the next, *)
(* or it never does and returns none.  A profile is a number, in the order *)
(* of the profile names; whether a token is expiring depends on the clock, *)
(* and may come out either way each time a turn looks.                     *)
(***************************************************************************)
EXTENDS Naturals, FiniteSets

CONSTANTS
    Turns,          \* calls of get_valid_openai_access_token
    NumProfiles,    \* profiles in the file
    MaxGrants,      \* bound: logins
    MaxGeneration,  \* bound: refresh tokens issued per grant
    MaxTokenFaults  \* bound: crashes, lock timeouts

ASSUME TokenAssumption ==
    /\ {NumProfiles, MaxGrants, MaxGeneration} \subseteq Nat \ {0}
    /\ MaxTokenFaults \in Nat
    /\ {"cli", "free"} \cap Turns = {}   \* names of other things, below

VARIABLES
    file,       \* auth.json: token of each profile, and the active profile
    lock,       \* who holds auth.json.lock
    copy,       \* what each caller has loaded under the lock
    at,         \* where each caller is
    held,       \* the profile and token each caller has in hand
    valid,      \* server: the refresh token each grant accepts, 0 before login
    rotates,    \* server: every exchange retires the refresh token
    lost,       \* grants whose newest refresh token reached no file
    tokenFaults

tokenVars == <<file, lock, copy, at, held, valid, rotates, lost,
              tokenFaults>>

Profiles == 1..NumProfiles
Grants == 1..MaxGrants
NoProfile == 0
NoToken == [grant |-> 0, gen |-> 0]
Tokens == [grant : 0..MaxGrants, gen : 0..MaxGeneration]
Cli == "cli"
Callers == Turns \cup {Cli}
Free == "free"
Nothing == [profile |-> NoProfile, token |-> NoToken]

Stored(d) == {p \in Profiles : d.tokens[p] # NoToken}

EmptyFile == [tokens |-> [p \in Profiles |-> NoToken], active |-> NoProfile]

\* The file may not exist yet, or have been edited by hand so that the active
\* profile is gone.
TokenInit ==
    /\ file \in {[EmptyFile EXCEPT !.active = p] : p \in {NoProfile, 1}}
    /\ lock = Free
    /\ copy = [c \in Callers |-> EmptyFile]
    /\ at = [c \in Callers |-> "idle"]
    /\ held = [c \in Callers |-> Nothing]
    /\ valid = [g \in Grants |-> 0]
    /\ rotates \in BOOLEAN
    /\ lost = {}
    /\ tokenFaults = 0

-----------------------------------------------------------------------------
(* Operations on the loaded data                                            *)

Smallest(S) == CHOOSE p \in S : \A q \in S : p <= q

FirstProfile(d) == IF Stored(d) = {} THEN NoProfile ELSE Smallest(Stored(d))

RepairStaleActive(d) ==
    IF d.active \in Stored(d) \cup {NoProfile} THEN d
    ELSE [d EXCEPT !.active = FirstProfile(d)]

\* An override names its profile; without one the active profile is used,
\* or else the first.
LookUp(d, override) ==
    IF override # NoProfile THEN override
    ELSE IF d.active # NoProfile THEN d.active ELSE FirstProfile(d)

Remove(d, p) ==
    LET without == [d EXCEPT !.tokens[p] = NoToken]
    IN IF d.active = p THEN [without EXCEPT !.active = FirstProfile(without)]
       ELSE without

Upsert(d, p, token) == [d EXCEPT !.tokens[p] = token, !.active = p]

Replace(d, p, token) == [d EXCEPT !.tokens[p] = token]

-----------------------------------------------------------------------------
(* with_lock: acquire and load; each operation saves and releases           *)

Waiting == {"want_get", "want_put", "want_login", "want_logout"}

Granted(step) ==
    CASE step = "want_get"    -> "get"
      [] step = "want_put"    -> "put"
      [] step = "want_login"  -> "login"
      [] step = "want_logout" -> "logout"

\* Slip: try_lock_exclusive is not asked.
AcquireAnyway(c) ==
    /\ at[c] \in Waiting
    /\ lock' = c /\ copy' = [copy EXCEPT ![c] = file]
    /\ at' = [at EXCEPT ![c] = Granted(@)]
    /\ UNCHANGED <<file, held, valid, lost, tokenFaults, rotates>>

Acquire(c) ==
    /\ at[c] \in Waiting /\ lock = Free
    /\ lock' = c /\ copy' = [copy EXCEPT ![c] = file]
    /\ at' = [at EXCEPT ![c] = Granted(@)]
    /\ UNCHANGED <<file, held, valid, lost, tokenFaults, rotates>>

\* A token in hand that is dropped without reaching the file is lost.
Drop(c) ==
    IF at[c] \in {"want_put", "put", "want_login", "login"}
       /\ held[c].token.gen = valid[held[c].token.grant]
       /\ held[c].token # file.tokens[held[c].profile]
    THEN {held[c].token.grant} ELSE {}

TokenFault == tokenFaults < MaxTokenFaults /\ tokenFaults' = tokenFaults + 1

\* Five seconds of WouldBlock: the call returns an error.
AcquireTimesOut(c) ==
    /\ at[c] \in Waiting /\ lock # Free
    /\ TokenFault
    /\ lost' = lost \cup Drop(c)
    /\ at' = [at EXCEPT ![c] = "idle"]
    /\ held' = [held EXCEPT ![c] = Nothing]
    /\ UNCHANGED <<file, lock, copy, valid, rotates>>

\* write_file_atomic: the new file is renamed over the old one.
SaveAndRelease(c, data) ==
    /\ file' = data
    /\ lock' = Free /\ copy' = [copy EXCEPT ![c] = EmptyFile]

-----------------------------------------------------------------------------
(* get_valid_openai_access_token                                            *)

BeginTurn(t, override) ==
    /\ at[t] = "idle"
    /\ at' = [at EXCEPT ![t] = "want_get"]
    /\ held' = [held EXCEPT ![t] = [Nothing EXCEPT !.profile = override]]
    /\ UNCHANGED <<file, lock, copy, valid, lost, tokenFaults, rotates>>

\* No profile, a token that is not expiring, and one with nothing to refresh
\* it with, all end the call.
GetProfile(t, expiring) ==
    /\ at[t] = "get"
    /\ LET data == RepairStaleActive(copy[t])
           p == LookUp(data, held[t].profile)
           found == p # NoProfile /\ data.tokens[p] # NoToken
       IN /\ SaveAndRelease(t, data)
          /\ IF found /\ expiring
             THEN /\ at' = [at EXCEPT ![t] = "refresh"]
                  /\ held' = [held EXCEPT ![t] =
                                 [profile |-> p, token |-> data.tokens[p]]]
             ELSE /\ at' = [at EXCEPT ![t] = "idle"]
                  /\ held' = [held EXCEPT ![t] = Nothing]
    /\ UNCHANGED <<valid, lost, tokenFaults, rotates>>

\* Slip: the response's refresh token is ignored.
RefreshKeepsOld(t) ==
    LET token == held[t].token IN
    /\ at[t] = "refresh" /\ token.gen = valid[token.grant]
    /\ rotates => token.gen < MaxGeneration
    /\ valid' = IF rotates THEN [valid EXCEPT ![token.grant] = @ + 1]
                ELSE valid
    /\ at' = [at EXCEPT ![t] = "want_put"]
    /\ UNCHANGED <<file, lock, copy, held, lost, tokenFaults, rotates>>

\* refresh_access_token succeeds.  When the response has no refresh token the
\* old one is kept.
Refresh(t) ==
    LET token == held[t].token IN
    /\ at[t] = "refresh" /\ token.gen = valid[token.grant]
    /\ rotates => token.gen < MaxGeneration
    /\ valid' = IF rotates THEN [valid EXCEPT ![token.grant] = @ + 1]
                ELSE valid
    /\ held' = IF rotates THEN [held EXCEPT ![t].token.gen = @ + 1] ELSE held
    /\ at' = [at EXCEPT ![t] = "want_put"]
    /\ UNCHANGED <<file, lock, copy, lost, tokenFaults, rotates>>

\* The request fails, or the token has been spent by another turn.
RefreshFails(t) ==
    /\ at[t] = "refresh"
    /\ at' = [at EXCEPT ![t] = "idle"]
    /\ held' = [held EXCEPT ![t] = Nothing]
    /\ UNCHANGED <<file, lock, copy, valid, lost, tokenFaults, rotates>>

\* The profile is written back whole, whatever the file holds now.
UpdateProfile(t) ==
    /\ at[t] = "put"
    /\ SaveAndRelease(t, Replace(copy[t], held[t].profile, held[t].token))
    /\ at' = [at EXCEPT ![t] = "idle"]
    /\ held' = [held EXCEPT ![t] = Nothing]
    /\ UNCHANGED <<valid, lost, tokenFaults, rotates>>

-----------------------------------------------------------------------------
(* simpleclaw auth login, logout, status                                    *)

\* The pasted callback has been accepted and the code exchanged.
Login(p) ==
    /\ at[Cli] = "idle"
    /\ \E g \in Grants :
        /\ valid[g] = 0 /\ \A h \in 1..(g - 1) : valid[h] # 0
        /\ valid' = [valid EXCEPT ![g] = 1]
        /\ held' = [held EXCEPT ![Cli] =
                        [profile |-> p, token |-> [grant |-> g, gen |-> 1]]]
    /\ at' = [at EXCEPT ![Cli] = "want_login"]
    /\ UNCHANGED <<file, lock, copy, lost, tokenFaults, rotates>>

CliDone ==
    /\ at' = [at EXCEPT ![Cli] = "idle"]
    /\ held' = [held EXCEPT ![Cli] = Nothing]

UpsertProfile ==
    /\ at[Cli] = "login"
    /\ SaveAndRelease(Cli, Upsert(copy[Cli], held[Cli].profile,
                                  held[Cli].token))
    /\ CliDone
    /\ UNCHANGED <<valid, lost, tokenFaults, rotates>>

Logout(override) ==
    /\ at[Cli] = "idle"
    /\ at' = [at EXCEPT ![Cli] = "want_logout"]
    /\ held' = [held EXCEPT ![Cli] = [Nothing EXCEPT !.profile = override]]
    /\ UNCHANGED <<file, lock, copy, valid, lost, tokenFaults, rotates>>

\* Without a name the active profile is removed; nothing is saved, the repair
\* included, when there is none to remove.
RemoveProfile ==
    /\ at[Cli] = "logout"
    /\ LET data == RepairStaleActive(copy[Cli])
           p == IF held[Cli].profile # NoProfile
                THEN held[Cli].profile ELSE data.active
       IN SaveAndRelease(Cli, IF p \in Stored(data) THEN Remove(data, p)
                              ELSE copy[Cli])
    /\ CliDone
    /\ UNCHANGED <<valid, lost, tokenFaults, rotates>>

\* list_profiles, in one go: it only ever repairs the active profile.
Status ==
    /\ at[Cli] = "idle" /\ lock = Free
    /\ file' = RepairStaleActive(file)
    /\ UNCHANGED <<lock, copy, at, held, valid, lost, tokenFaults, rotates>>

\* The file is as it was, and the lock is free again.
Abandon(group) ==
    /\ TokenFault
    /\ lost' = lost \cup UNION {Drop(c) : c \in group}
    /\ at' = [c \in Callers |-> IF c \in group THEN "idle" ELSE at[c]]
    /\ held' = [c \in Callers |-> IF c \in group THEN Nothing ELSE held[c]]
    /\ lock' = IF lock \in group THEN Free ELSE lock
    /\ copy' = [c \in Callers |-> IF c \in group THEN EmptyFile ELSE copy[c]]
    /\ UNCHANGED <<file, valid, rotates>>

\* The file cannot be read or written: the call returns the error.
LoadOrSaveFails(c) ==
    /\ at[c] \in {Granted(step) : step \in Waiting}
    /\ Abandon({c})

\* A process dies, and its callers with it; the operating system drops its lock.
ProcessDies(group) ==
    /\ \E c \in group : at[c] # "idle"
    /\ Abandon(group)

TokenNext ==
    \/ \E c \in Callers : Acquire(c) \/ AcquireTimesOut(c) \/ LoadOrSaveFails(c)
    \/ \E t \in Turns :
        \/ \E o \in Profiles \cup {NoProfile} : BeginTurn(t, o)
        \/ \E e \in BOOLEAN : GetProfile(t, e)
        \/ Refresh(t)
        \/ RefreshFails(t) \/ UpdateProfile(t)
    \/ \E p \in Profiles : Login(p)
    \/ \E o \in Profiles \cup {NoProfile} : Logout(o)
    \/ UpsertProfile \/ RemoveProfile \/ Status
    \/ ProcessDies(Turns) \/ ProcessDies({Cli})

TokenSpec == TokenInit /\ [][TokenNext]_tokenVars

-----------------------------------------------------------------------------
(* Properties                                                               *)

Files == [tokens : [Profiles -> Tokens], active : 0..NumProfiles]

TokenTypeOK ==
    /\ file \in Files /\ copy \in [Callers -> Files]
    /\ lock \in Callers \cup {Free}
    /\ at \in [Callers -> Waiting \cup
                   {"idle", "get", "refresh", "put", "login", "logout"}]
    /\ held \in [Callers -> [profile : 0..NumProfiles, token : Tokens]]
    /\ valid \in [Grants -> 0..MaxGeneration]
    /\ rotates \in BOOLEAN /\ lost \subseteq Grants
    /\ tokenFaults \in 0..MaxTokenFaults

\* No update is lost between load and save (with_lock, with_exclusive_data):
\* what a caller has loaded is still what the file holds, so that the file it
\* writes differs from the present one only by its own change.
HolderSeesFile ==
    \A c \in Callers :
        at[c] \in {"get", "put", "login", "logout"} => copy[c] = file

\* A profile's refresh token is the one the server accepts, or the turn that
\* exchanged it is about to write the next one (get_valid_openai_access_token):
\* turns that refresh at once never write an older token over a newer one.  The
\* newer one is lost for good when its process dies, the lock is not to be had in
\* time, or the file cannot be loaded or saved (update_profile) in between.
StoredIsRefreshable ==
    \A p \in Stored(file) :
        LET token == file.tokens[p] IN
        \/ token.gen = valid[token.grant]
        \/ token.grant \in lost
        \/ \E t \in Turns :
            /\ at[t] \in {"want_put", "put"}
            /\ held[t].token = [token EXCEPT !.gen = valid[token.grant]]

=============================================================================
