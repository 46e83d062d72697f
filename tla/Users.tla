-------------------------------- MODULE Users --------------------------------
(***************************************************************************)
(* The users and the map from passkeys to them, under the website's calls. *)
(* Each map has a lock of its own and a call takes them one after the      *)
(* other, so that calls and announces see each other half done.            *)
(*                                                                         *)
(* Of a user the module keeps the passkey and the rates: the counts are in *)
(* Swarm, the rest is replaced as a whole by every call.                   *)
(***************************************************************************)
EXTENDS Naturals

CONSTANTS
    User,
    Passkey,
    Call,         \* website calls that may be in flight at once
    Handler,      \* announces that may be in flight at once
    NoUser,       \* nothing in a map under this key
    NoPasskey,    \* no passkey, or no new one
    Malformed,    \* a text that is no passkey
    MaxCalls      \* bound on the website's calls

ASSUME SentinelAssumption ==
    /\ NoUser \notin User /\ NoPasskey \notin Passkey /\ Malformed \notin Passkey
    /\ NoPasskey # Malformed
ASSUME BoundAssumption == MaxCalls \in Nat

\* A rate collection that counts nothing yet, or counts some peer lists.
Rates == {"fresh", "used"}

Entry == [passkey : Passkey, rates : Rates]

ASSUME EntryAssumption == NoUser \notin Entry

VARIABLES
    site,         \* the website's users: their passkeys
    issued,       \* the passkeys the website has given out
    users,        \* stores.users
    passkey2id,   \* stores.passkey2id
    call,         \* the website's calls in flight
    announce,     \* the announces in flight
    listed,       \* users whose rates count some peer lists
    disturbed,    \* users with two calls at once, or with a call that was refused
    calls         \* calls so far, for the bound

vars == <<site, issued, users, passkey2id, call, announce, listed, disturbed, calls>>

Free == [pc |-> "free"]

Idle == [pc |-> "idle"]

\* UserStore::from_db and Passkey2IdStore::from_db: what the website has.
LoadedUsers ==
    [u \in User |-> IF site[u] = NoPasskey THEN NoUser
                    ELSE [passkey |-> site[u], rates |-> "fresh"]]

LoadedPasskeys ==
    [k \in Passkey |-> IF \E u \in User : site[u] = k
                       THEN CHOOSE u \in User : site[u] = k ELSE NoUser]

\* The website may have any users when the tracker starts.
Init ==
    /\ site \in [User -> Passkey \cup {NoPasskey}]
    /\ \A u, v \in User : site[u] = site[v] /\ site[u] # NoPasskey => u = v
    /\ issued = {site[u] : u \in User} \ {NoPasskey}
    /\ users = LoadedUsers
    /\ passkey2id = LoadedPasskeys
    /\ call = [c \in Call |-> Free]
    /\ announce = [h \in Handler |-> Idle]
    /\ listed = {}
    /\ disturbed = {}
    /\ calls = 0

(***************************************************************************)
(* The website changes a user and calls the tracker.                       *)
(***************************************************************************)
Send(c, u, request) ==
    /\ call[c] = Free
    /\ calls < MaxCalls
    /\ call' = [call EXCEPT ![c] = request]
    /\ calls' = calls + 1
    /\ disturbed' = IF \/ \E d \in Call : call[d] # Free /\ call[d].user = u
                       \/ request.pc = "taking" /\ request.new_passkey = Malformed
                    THEN disturbed \cup {u} ELSE disturbed
    /\ UNCHANGED <<users, passkey2id, announce, listed>>

\* APIInsertUser
InsertUser(u, passkey, new_passkey) ==
    [pc |-> "taking", user |-> u, passkey |-> passkey, new_passkey |-> new_passkey]

\* APIRemoveUser
RemoveUser(u, passkey) == [pc |-> "removing", user |-> u, passkey |-> passkey]

Register(c) ==
    \E u \in User, k \in Passkey \ issued :
        /\ site[u] = NoPasskey
        /\ site' = [site EXCEPT ![u] = k]
        /\ issued' = issued \cup {k}
        /\ Send(c, u, InsertUser(u, k, NoPasskey))

Edit(c) ==
    \E u \in User :
        /\ site[u] # NoPasskey
        /\ UNCHANGED <<site, issued>>
        /\ \E new \in {NoPasskey, Malformed} : Send(c, u, InsertUser(u, site[u], new))

ChangePasskey(c) ==
    \E u \in User, k \in Passkey \ issued :
        /\ site[u] # NoPasskey
        /\ site' = [site EXCEPT ![u] = k]
        /\ issued' = issued \cup {k}
        /\ Send(c, u, InsertUser(u, site[u], k))

Remove(c) ==
    \E u \in User :
        /\ site[u] # NoPasskey
        /\ site' = [site EXCEPT ![u] = NoPasskey]
        /\ UNCHANGED issued
        /\ Send(c, u, RemoveUser(u, site[u]))

Website(c) == Register(c) \/ Edit(c) \/ ChangePasskey(c) \/ Remove(c)

(***************************************************************************)
(* upsert: four sections under one lock each.                              *)
(***************************************************************************)
\* Mistake: the rates are not taken over.
TakeOutFresh(c) ==
    /\ call[c].pc = "taking"
    /\ LET u == call[c].user
       IN  /\ users' = [users EXCEPT ![u] = NoUser]
           /\ call' = [call EXCEPT ![c] =
                 [pc |-> "retiring", user |-> u, passkey |-> @.passkey,
                  new_passkey |-> @.new_passkey, rates |-> "fresh"]]
    /\ UNCHANGED <<site, issued, passkey2id, announce, listed, disturbed, calls>>

\* The user leaves the store, and the call keeps the rates.
TakeOut(c) ==
    /\ call[c].pc = "taking"
    /\ LET u == call[c].user
       IN  /\ users' = [users EXCEPT ![u] = NoUser]
           /\ call' = [call EXCEPT ![c] =
                 [pc |-> "retiring", user |-> u, passkey |-> @.passkey,
                  new_passkey |-> @.new_passkey,
                  rates |-> IF users[u] = NoUser THEN "fresh" ELSE users[u].rates]]
    /\ UNCHANGED <<site, issued, passkey2id, announce, listed, disturbed, calls>>

Entering(c, passkey) ==
    [call EXCEPT ![c] = [pc |-> "entering", user |-> @.user, passkey |-> passkey, rates |-> @.rates]]

\* Without a new passkey there is nothing to retire; a malformed one is refused
\* here (BAD_REQUEST), with the user gone.
Keep(c) ==
    /\ call[c].pc = "retiring"
    /\ call[c].new_passkey = NoPasskey
    /\ call' = Entering(c, call[c].passkey)
    /\ UNCHANGED <<site, issued, users, passkey2id, announce, listed, disturbed, calls>>

\* Mistake: a malformed passkey is taken.
RefuseNothing(c) ==
    /\ call[c].pc = "retiring"
    /\ call[c].new_passkey = Malformed
    /\ call' = Entering(c, Malformed)
    /\ UNCHANGED <<site, issued, users, passkey2id, announce, listed, disturbed, calls>>

Refuse(c) ==
    /\ call[c].pc = "retiring"
    /\ call[c].new_passkey = Malformed
    /\ call' = [call EXCEPT ![c] = Free]
    /\ UNCHANGED <<site, issued, users, passkey2id, announce, listed, disturbed, calls>>

\* Mistake: the passkey before stays valid.
RetireNothing(c) ==
    /\ call[c].pc = "retiring"
    /\ call[c].new_passkey \in Passkey
    /\ call' = Entering(c, call[c].new_passkey)
    /\ UNCHANGED <<site, issued, users, passkey2id, announce, listed, disturbed, calls>>

Retire(c) ==
    /\ call[c].pc = "retiring"
    /\ call[c].new_passkey \in Passkey
    /\ passkey2id' = [passkey2id EXCEPT ![call[c].passkey] = NoUser]
    /\ call' = Entering(c, call[c].new_passkey)
    /\ UNCHANGED <<site, issued, users, announce, listed, disturbed, calls>>

Enter(c) ==
    /\ call[c].pc = "entering"
    /\ users' = [users EXCEPT ![call[c].user] =
          [passkey |-> call[c].passkey, rates |-> call[c].rates]]
    /\ call' = [call EXCEPT ![c] =
          [pc |-> "mapping", user |-> @.user, passkey |-> @.passkey]]
    /\ UNCHANGED <<site, issued, passkey2id, announce, listed, disturbed, calls>>

Map(c) ==
    /\ call[c].pc = "mapping"
    /\ passkey2id' = [passkey2id EXCEPT ![call[c].passkey] = call[c].user]
    /\ call' = [call EXCEPT ![c] = Free]
    /\ UNCHANGED <<site, issued, users, announce, listed, disturbed, calls>>

(***************************************************************************)
(* destroy: two sections.                                                  *)
(***************************************************************************)
Forget(c) ==
    /\ call[c].pc = "removing"
    /\ users' = [users EXCEPT ![call[c].user] = NoUser]
    /\ listed' = listed \ {call[c].user}
    /\ call' = [call EXCEPT ![c].pc = "unmapping"]
    /\ UNCHANGED <<site, issued, passkey2id, announce, disturbed, calls>>

Unmap(c) ==
    /\ call[c].pc = "unmapping"
    /\ passkey2id' = [passkey2id EXCEPT ![call[c].passkey] = NoUser]
    /\ call' = [call EXCEPT ![c] = Free]
    /\ UNCHANGED <<site, issued, users, announce, listed, disturbed, calls>>

Handle(c) ==
    \/ TakeOut(c) \/ Keep(c) \/ Refuse(c) \/ Retire(c) \/ Enter(c) \/ Map(c)
    \/ Forget(c) \/ Unmap(c)

(***************************************************************************)
(* An announce: the passkey is looked up, then the user; at its end the    *)
(* user's rates count the peer list that was asked for.                    *)
(***************************************************************************)
Find(h) ==
    /\ announce[h] = Idle
    /\ \E k \in Passkey :
        /\ passkey2id[k] # NoUser
        /\ announce' = [announce EXCEPT ![h] = [pc |-> "loading", user |-> passkey2id[k]]]
    /\ UNCHANGED <<site, issued, users, passkey2id, call, listed, disturbed, calls>>

\* Without a user the announce is refused; so may it be with one, later.
Load(h) ==
    /\ announce[h].pc = "loading"
    /\ \/ announce' = [announce EXCEPT ![h] = Idle]
       \/ users[announce[h].user] # NoUser /\ announce' = [announce EXCEPT ![h].pc = "counting"]
    /\ UNCHANGED <<site, issued, users, passkey2id, call, listed, disturbed, calls>>

\* A user who is gone meanwhile is not counted for.
Count(h) ==
    /\ announce[h].pc = "counting"
    /\ LET u == announce[h].user
       IN  IF users[u] = NoUser THEN UNCHANGED <<users, listed>>
           ELSE /\ users' = [users EXCEPT ![u].rates = "used"]
                /\ listed' = listed \cup {u}
    /\ announce' = [announce EXCEPT ![h] = Idle]
    /\ UNCHANGED <<site, issued, passkey2id, call, disturbed, calls>>

Next ==
    \/ \E c \in Call : Website(c) \/ Handle(c)
    \/ \E h \in Handler : Find(h) \/ Load(h) \/ Count(h)

Spec == Init /\ [][Next]_vars

(***************************************************************************)
(* Properties.                                                             *)
(***************************************************************************)
Taking ==
    [pc : {"taking"}, user : User, passkey : Passkey,
     new_passkey : Passkey \cup {NoPasskey, Malformed}]

Retiring ==
    [pc : {"retiring"}, user : User, passkey : Passkey,
     new_passkey : Passkey \cup {NoPasskey, Malformed}, rates : Rates]

InHand == [pc : {"entering"}, user : User, passkey : Passkey, rates : Rates]

Ending == [pc : {"mapping", "removing", "unmapping"}, user : User, passkey : Passkey]

CallRecord == {Free} \cup Taking \cup Retiring \cup InHand \cup Ending

TypeOK ==
    /\ site \in [User -> Passkey \cup {NoPasskey}]
    /\ issued \subseteq Passkey
    /\ users \in [User -> Entry \cup {NoUser}]
    /\ passkey2id \in [Passkey -> User \cup {NoUser}]
    /\ call \in [Call -> CallRecord]
    /\ announce \in [Handler -> {Idle} \cup [pc : {"loading", "counting"}, user : User]]
    /\ listed \subseteq User
    /\ disturbed \subseteq User
    /\ calls \in 0..MaxCalls

\* No call about u is in flight, and none was refused or met another.
Settled(u) == u \notin disturbed /\ \A c \in Call : call[c] # Free => call[c].user # u

\* Once a user's calls have come one after the other, both maps are what the
\* website has: the passkey of now is the user's and no other is, whatever
\* calls about other users were half done meanwhile (api/user.rs, upsert and
\* destroy).
StoresFollowSite ==
    \A u \in User : Settled(u) =>
        /\ {k \in Passkey : passkey2id[k] = u} = {site[u]} \ {NoPasskey}
        /\ IF site[u] = NoPasskey THEN users[u] = NoUser
           ELSE users[u] # NoUser /\ users[u].passkey = site[u]

\* A user's rates are kept through the website's calls, though an announce may
\* count while the user is out of the store (api/user.rs, old_user; announce.rs,
\* the users lock).
RatesSurvive ==
    \A u \in listed \ disturbed :
        \/ users[u] # NoUser /\ users[u].rates = "used"
        \/ \E c \in Call : call[c].pc \in {"retiring", "entering"} /\ call[c].user = u
                           /\ call[c].rates = "used"
=============================================================================
