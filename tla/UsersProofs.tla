----------------------------- MODULE UsersProofs -----------------------------
(***************************************************************************)
(* For any number of users, passkeys, calls and announces: Users keeps its *)
(* types, its two maps are what the website has once a user's calls have   *)
(* come one after the other, and no such call loses a user's rates.        *)
(***************************************************************************)
EXTENDS Users, TLAPS

(***************************************************************************)
(* The inductive invariant.                                                *)
(***************************************************************************)
\* The call c is about user u.
About(c, u) == call[c] # Free /\ call[c].user = u

Mentions(c, k) ==
    \/ call[c].passkey = k
    \/ call[c].pc \in {"taking", "retiring"} /\ call[c].new_passkey = k

\* Somewhere k stands for u: in the map, at the website, or in a call.
StandsFor(k, u) ==
    \/ passkey2id[k] = u
    \/ site[u] = k
    \/ \E c \in Call : About(c, u) /\ Mentions(c, k)

\* No passkey stands for two users, so that a call cannot touch what is
\* another user's.
PasskeysApart ==
    \A k \in Passkey, u \in User : StandsFor(k, u) =>
        k \in issued /\ \A v \in User : StandsFor(k, v) => v = u

Valid(u) == {k \in Passkey : passkey2id[k] = u}

Agreed(u) ==
    /\ Valid(u) = {site[u]} \ {NoPasskey}
    /\ IF site[u] = NoPasskey THEN users[u] = NoUser
       ELSE users[u] # NoUser /\ users[u].passkey = site[u]

\* How far the call c, the only one about u, has come.
Underway(c, u) ==
    /\ call[c].pc \in {"taking", "retiring"} =>
          /\ call[c].new_passkey # Malformed
          /\ site[u] = IF call[c].new_passkey = NoPasskey THEN call[c].passkey
                       ELSE call[c].new_passkey
    /\ call[c].pc \in {"entering", "mapping"} => site[u] = call[c].passkey
    /\ call[c].pc = "mapping" => users[u] # NoUser /\ users[u].passkey = call[c].passkey
    /\ call[c].pc \in {"removing", "unmapping"} => site[u] = NoPasskey
    /\ call[c].pc = "unmapping" => users[u] = NoUser
    /\ Valid(u) \subseteq {call[c].passkey}

OneCall(u) == \A c, d \in Call : About(c, u) /\ About(d, u) => c = d

\* What holds of a user who is not disturbed.
Followed(u) ==
    /\ OneCall(u)
    /\ \A c \in Call : About(c, u) => Underway(c, u)
    /\ (\A c \in Call : ~About(c, u)) => Agreed(u)

Invariant == TypeOK /\ PasskeysApart /\ \A u \in User \ disturbed : Followed(u)

(***************************************************************************)
(* Types.                                                                  *)
(***************************************************************************)
\* What a call remembers at each of its steps (api/user.rs, upsert, destroy).
LEMMA CallPhases ==
    ASSUME TypeOK, NEW c \in Call
    PROVE  /\ call[c] \in CallRecord
           /\ call[c].pc = "taking" => call[c] \in Taking
           /\ call[c].pc = "retiring" => call[c] \in Retiring
           /\ call[c].pc = "entering" => call[c] \in InHand
           /\ call[c].pc \in {"mapping", "removing", "unmapping"} => call[c] \in Ending
           /\ call[c] # Free => call[c].user \in User /\ call[c].passkey \in Passkey
<1>1. call[c] \in CallRecord
  BY DEF TypeOK
<1> QED BY <1>1 DEF CallRecord, Free, Taking, Retiring, InHand, Ending

\* A user in the store has a passkey and rates (store/user.rs, User).
LEMMA PresentUser ==
    ASSUME TypeOK, NEW u \in User, users[u] # NoUser
    PROVE  users[u] \in Entry
BY DEF TypeOK

\* Initially the maps are loaded (store.rs, Stores::new).
LEMMA TypeInit == Init => TypeOK
<1> SUFFICES ASSUME Init PROVE TypeOK
  OBVIOUS
<1>1. site \in [User -> Passkey \cup {NoPasskey}]
  BY DEF Init
<1>2. users \in [User -> Entry \cup {NoUser}]
  <2>1. ASSUME NEW u \in User, site[u] # NoPasskey
        PROVE  [passkey |-> site[u], rates |-> "fresh"] \in Entry
    BY <1>1, <2>1 DEF Entry, Rates
  <2> QED BY <2>1 DEF Init, LoadedUsers
<1>3. passkey2id \in [Passkey -> User \cup {NoUser}]
  BY DEF Init, LoadedPasskeys
<1>4. issued \subseteq Passkey
  BY <1>1 DEF Init
<1>5. /\ call \in [Call -> CallRecord]
      /\ announce \in [Handler -> {Idle} \cup [pc : {"loading", "counting"}, user : User]]
  BY DEF Init, CallRecord
<1> QED BY <1>1, <1>2, <1>3, <1>4, <1>5, BoundAssumption DEF Init, TypeOK

\* The website sends calls that are well formed, but for a new passkey.
LEMMA SendType ==
    ASSUME TypeOK, NEW c \in Call, NEW u \in User, NEW request \in CallRecord,
           Send(c, u, request),
           site' \in [User -> Passkey \cup {NoPasskey}], issued' \subseteq Passkey
    PROVE  TypeOK'
<1>1. call' \in [Call -> CallRecord]
  BY DEF Send, TypeOK
<1>2. calls' \in 0..MaxCalls
  BY BoundAssumption DEF Send, TypeOK
<1> QED BY <1>1, <1>2 DEF Send, TypeOK

\* What the website does keeps the types.
LEMMA WebsiteType ==
    ASSUME TypeOK, NEW c \in Call, Website(c)
    PROVE  TypeOK'
<1>1. ASSUME NEW u \in User, NEW k \in Passkey,
             NEW new \in Passkey \cup {NoPasskey, Malformed}
      PROVE  InsertUser(u, k, new) \in CallRecord /\ RemoveUser(u, k) \in CallRecord
  BY DEF InsertUser, RemoveUser, CallRecord, Taking, Ending
<1>2. \A u \in User : site[u] # NoPasskey => site[u] \in Passkey
  BY DEF TypeOK
<1>3. CASE Register(c)
  <2>1. PICK u \in User, k \in Passkey \ issued :
            /\ site' = [site EXCEPT ![u] = k]
            /\ issued' = issued \cup {k}
            /\ Send(c, u, InsertUser(u, k, NoPasskey))
    BY <1>3 DEF Register
  <2>2. site' \in [User -> Passkey \cup {NoPasskey}] /\ issued' \subseteq Passkey
    BY <2>1 DEF TypeOK
  <2> QED BY <1>1, <2>1, <2>2, SendType
<1>4. CASE Edit(c)
  <2>1. PICK u \in User :
            /\ site[u] # NoPasskey
            /\ UNCHANGED <<site, issued>>
            /\ \E new \in {NoPasskey, Malformed} : Send(c, u, InsertUser(u, site[u], new))
    BY <1>4 DEF Edit
  <2>2. site' \in [User -> Passkey \cup {NoPasskey}] /\ issued' \subseteq Passkey
    BY <2>1 DEF TypeOK
  <2> QED BY <1>1, <1>2, <2>1, <2>2, SendType
<1>5. CASE ChangePasskey(c)
  <2>1. PICK u \in User, k \in Passkey \ issued :
            /\ site[u] # NoPasskey
            /\ site' = [site EXCEPT ![u] = k]
            /\ issued' = issued \cup {k}
            /\ Send(c, u, InsertUser(u, site[u], k))
    BY <1>5 DEF ChangePasskey
  <2>2. site' \in [User -> Passkey \cup {NoPasskey}] /\ issued' \subseteq Passkey
    BY <2>1 DEF TypeOK
  <2> QED BY <1>1, <1>2, <2>1, <2>2, SendType
<1>6. CASE Remove(c)
  <2>1. PICK u \in User :
            /\ site[u] # NoPasskey
            /\ site' = [site EXCEPT ![u] = NoPasskey]
            /\ UNCHANGED issued
            /\ Send(c, u, RemoveUser(u, site[u]))
    BY <1>6 DEF Remove
  <2>2. site' \in [User -> Passkey \cup {NoPasskey}] /\ issued' \subseteq Passkey
    BY <2>1 DEF TypeOK
  <2> QED BY <1>1, <1>2, <2>1, <2>2, SendType
<1> QED BY <1>3, <1>4, <1>5, <1>6 DEF Website

\* A call's steps keep the types (api/user.rs, upsert and destroy).
LEMMA HandleType ==
    ASSUME TypeOK, NEW c \in Call, Handle(c)
    PROVE  TypeOK'
<1> DEFINE u == call[c].user
           k == call[c].passkey
<1>1. CASE TakeOut(c)
  <2>1. call[c] \in Taking
    BY <1>1, CallPhases DEF TakeOut
  <2>2. (IF users[u] = NoUser THEN "fresh" ELSE users[u].rates) \in Rates
    BY <2>1, PresentUser DEF Taking, Entry, Rates
  <2>3. call' \in [Call -> CallRecord]
    BY <1>1, <2>1, <2>2 DEF TakeOut, TypeOK, CallRecord, Taking, Retiring
  <2>4. users' \in [User -> Entry \cup {NoUser}]
    BY <1>1 DEF TakeOut, TypeOK
  <2> QED BY <1>1, <2>3, <2>4 DEF TakeOut, TypeOK
<1>2. CASE Keep(c)
  <2>1. call[c] \in Retiring
    BY <1>2, CallPhases DEF Keep
  <2>2. call' \in [Call -> CallRecord]
    BY <1>2, <2>1 DEF Keep, Entering, TypeOK, CallRecord, Retiring, InHand
  <2> QED BY <1>2, <2>2 DEF Keep, TypeOK
<1>3. CASE Refuse(c)
  BY <1>3 DEF Refuse, TypeOK, CallRecord
<1>4. CASE Retire(c)
  <2>1. call[c] \in Retiring
    BY <1>4, CallPhases DEF Retire
  <2>2. call' \in [Call -> CallRecord]
    BY <1>4, <2>1 DEF Retire, Entering, TypeOK, CallRecord, Retiring, InHand
  <2>3. passkey2id' \in [Passkey -> User \cup {NoUser}]
    BY <1>4 DEF Retire, TypeOK
  <2> QED BY <1>4, <2>2, <2>3 DEF Retire, TypeOK
<1>5. CASE Enter(c)
  <2>1. call[c] \in InHand
    BY <1>5, CallPhases DEF Enter
  <2>2. call' \in [Call -> CallRecord]
    BY <1>5, <2>1 DEF Enter, TypeOK, CallRecord, InHand, Ending
  <2>3. [passkey |-> k, rates |-> call[c].rates] \in Entry
    BY <2>1 DEF InHand, Entry
  <2>4. users' \in [User -> Entry \cup {NoUser}]
    BY <1>5, <2>3 DEF Enter, TypeOK
  <2> QED BY <1>5, <2>2, <2>4 DEF Enter, TypeOK
<1>6. CASE Map(c)
  <2>1. call[c] \in Ending
    BY <1>6, CallPhases DEF Map
  <2>2. call' \in [Call -> CallRecord]
    BY <1>6 DEF Map, TypeOK, CallRecord
  <2>3. passkey2id' \in [Passkey -> User \cup {NoUser}]
    BY <1>6, <2>1 DEF Map, TypeOK, Ending
  <2> QED BY <1>6, <2>2, <2>3 DEF Map, TypeOK
<1>7. CASE Forget(c)
  <2>1. call[c] \in Ending
    BY <1>7, CallPhases DEF Forget
  <2>2. call' \in [Call -> CallRecord]
    BY <1>7, <2>1 DEF Forget, TypeOK, CallRecord, Ending
  <2>3. users' \in [User -> Entry \cup {NoUser}] /\ listed' \subseteq User
    BY <1>7 DEF Forget, TypeOK
  <2> QED BY <1>7, <2>2, <2>3 DEF Forget, TypeOK
<1>8. CASE Unmap(c)
  <2>1. passkey2id' \in [Passkey -> User \cup {NoUser}]
    BY <1>8 DEF Unmap, TypeOK
  <2> QED BY <1>8, <2>1 DEF Unmap, TypeOK, CallRecord
<1> QED BY <1>1, <1>2, <1>3, <1>4, <1>5, <1>6, <1>7, <1>8 DEF Handle

\* So does an announce (announce.rs, the lookups and the users lock).
LEMMA AnnounceType ==
    ASSUME TypeOK, NEW h \in Handler, Find(h) \/ Load(h) \/ Count(h)
    PROVE  TypeOK'
<1> DEFINE Announcing == [pc : {"loading", "counting"}, user : User]
<1>1. announce[h].pc \in {"loading", "counting"} => announce[h] \in Announcing
  BY DEF TypeOK, Idle
<1>2. CASE Find(h)
  <2>1. announce' \in [Handler -> {Idle} \cup Announcing]
    BY <1>2 DEF Find, TypeOK
  <2> QED BY <1>2, <2>1 DEF Find, TypeOK
<1>3. CASE Load(h)
  <2>1. announce' \in [Handler -> {Idle} \cup Announcing]
    BY <1>1, <1>3 DEF Load, TypeOK
  <2> QED BY <1>3, <2>1 DEF Load, TypeOK
<1>4. CASE Count(h)
  <2>1. announce[h] \in Announcing
    BY <1>1, <1>4 DEF Count
  <2>2. ASSUME users[announce[h].user] # NoUser
        PROVE  [users[announce[h].user] EXCEPT !.rates = "used"] \in Entry
    BY <2>1, <2>2, PresentUser DEF Entry, Rates
  <2>3. users' \in [User -> Entry \cup {NoUser}] /\ listed' \subseteq User
    BY <1>4, <2>1, <2>2 DEF Count, TypeOK
  <2> QED BY <1>4, <2>3 DEF Count, TypeOK
<1> QED BY <1>2, <1>3, <1>4

\* Every step keeps the types.
LEMMA TypeStep == TypeOK /\ [Next]_vars => TypeOK'
<1> SUFFICES ASSUME TypeOK, [Next]_vars PROVE TypeOK'
  OBVIOUS
<1>1. CASE \E c \in Call : Website(c) \/ Handle(c)
  BY <1>1, WebsiteType, HandleType
<1>2. CASE \E h \in Handler : Find(h) \/ Load(h) \/ Count(h)
  BY <1>2, AnnounceType
<1>3. CASE UNCHANGED vars
  BY <1>3 DEF vars, TypeOK
<1> QED BY <1>1, <1>2, <1>3 DEF Next

\* However the website's calls and the announces interleave, the maps keep
\* their types (api/user.rs; announce.rs).
THEOREM TypeCorrect == Spec => []TypeOK
BY TypeInit, TypeStep, PTL DEF Spec

(***************************************************************************)
(* Passkeys stay apart.                                                    *)
(***************************************************************************)
\* A call's step gives no passkey to anybody it did not stand for already
\* (api/user.rs, upsert and destroy).
LEMMA HandleGivesNothing ==
    ASSUME TypeOK, NEW c \in Call, Handle(c), NEW k \in Passkey, NEW u \in User,
           StandsFor(k, u)'
    PROVE  StandsFor(k, u)
<1>1. /\ call[c] \in CallRecord /\ call[c] # Free
      /\ call[c].user \in User /\ call[c].passkey \in Passkey
      /\ site' = site
  BY CallPhases DEF Handle, TakeOut, Keep, Refuse, Retire, Enter, Map, Forget, Unmap, Free
<1>2. \A d \in Call : d # c => call'[d] = call[d]
  BY DEF Handle, TakeOut, Keep, Refuse, Retire, Enter, Map, Forget, Unmap, Entering, TypeOK
<1>3. About(c, u)' /\ Mentions(c, k)' => About(c, u) /\ Mentions(c, k)
  <2>1. CASE TakeOut(c)
    BY <1>1, <2>1 DEF TakeOut, TypeOK, About, Mentions
  <2>2. CASE Keep(c) \/ Retire(c)
    BY <1>1, <2>2 DEF Keep, Retire, Entering, TypeOK, About, Mentions
  <2>3. CASE Refuse(c) \/ Map(c) \/ Unmap(c)
    BY <2>3 DEF Refuse, Map, Unmap, TypeOK, About
  <2>4. CASE Enter(c)
    BY <1>1, <2>4 DEF Enter, TypeOK, About, Mentions
  <2>5. CASE Forget(c)
    <3>1. call[c] \in Ending
      BY <2>5, CallPhases DEF Forget
    <3>2. call'[c] = [call[c] EXCEPT !.pc = "unmapping"]
      BY <2>5 DEF Forget, TypeOK
    <3> QED BY <1>1, <3>1, <3>2 DEF Ending, About, Mentions
  <2> QED BY <2>1, <2>2, <2>3, <2>4, <2>5 DEF Handle
<1>4. passkey2id'[k] = u => passkey2id[k] = u \/ (About(c, u) /\ Mentions(c, k))
  <2>1. CASE Map(c)
    BY <1>1, <2>1 DEF Map, TypeOK, About, Mentions
  <2>2. CASE Retire(c) \/ Unmap(c)
    BY <2>2, SentinelAssumption DEF Retire, Unmap, TypeOK
  <2>3. CASE TakeOut(c) \/ Keep(c) \/ Refuse(c) \/ Enter(c) \/ Forget(c)
    BY <2>3 DEF TakeOut, Keep, Refuse, Enter, Forget
  <2> QED BY <2>1, <2>2, <2>3 DEF Handle
<1>5. \A d \in Call : About(d, u)' /\ Mentions(d, k)' => About(d, u) /\ Mentions(d, k)
  BY <1>2, <1>3 DEF About, Mentions
<1> QED BY <1>1, <1>4, <1>5 DEF StandsFor

\* A call that mentions what was the user's, or new, gives the user no more.
LEMMA SendGives ==
    ASSUME NEW c \in Call, NEW w \in User, NEW new,
           passkey2id' = passkey2id, call'[c].user = w,
           \A d \in Call : d # c => call'[d] = call[d],
           NEW k \in Passkey, NEW u \in User, StandsFor(k, u)',
           site'[u] = k => StandsFor(k, u) \/ (u = w /\ k = new),
           Mentions(c, k)' => StandsFor(k, w) \/ k = new
    PROVE  StandsFor(k, u) \/ (u = w /\ k = new)
<1>1. CASE passkey2id'[k] = u
  BY <1>1 DEF StandsFor
<1>2. CASE site'[u] = k
  BY <1>2
<1>3. ASSUME NEW d \in Call, About(d, u)', Mentions(d, k)'
      PROVE  StandsFor(k, u) \/ (u = w /\ k = new)
  <2>1. CASE d = c
    BY <1>3, <2>1 DEF About
  <2>2. CASE d # c
    BY <1>3, <2>2 DEF About, Mentions, StandsFor
  <2> QED BY <2>1, <2>2
<1> QED BY <1>1, <1>2, <1>3 DEF StandsFor

\* The website gives one user one passkey at most, and a new one.
LEMMA WebsiteGivesNew ==
    ASSUME TypeOK, NEW c \in Call, Website(c)
    PROVE  \E w \in User, new \in (Passkey \ issued) \cup {NoPasskey} :
              /\ issued' = issued \cup ({new} \ {NoPasskey})
              /\ \A k \in Passkey, u \in User :
                    StandsFor(k, u)' => StandsFor(k, u) \/ (u = w /\ k = new)
<1>1. ASSUME NEW u \in User, NEW k \in Passkey,
             NEW new \in Passkey \cup {NoPasskey, Malformed}
      PROVE  InsertUser(u, k, new).user = u /\ RemoveUser(u, k).user = u
  BY DEF InsertUser, RemoveUser
<1>2. \A w \in User : site[w] # NoPasskey => site[w] \in Passkey /\ StandsFor(site[w], w)
  BY DEF TypeOK, StandsFor
<1>3. CASE Register(c)
  <2>1. PICK w \in User, new \in Passkey \ issued :
            /\ site' = [site EXCEPT ![w] = new]
            /\ issued' = issued \cup {new}
            /\ Send(c, w, InsertUser(w, new, NoPasskey))
    BY <1>3 DEF Register
  <2>2. /\ passkey2id' = passkey2id /\ call'[c].user = w
        /\ \A d \in Call : d # c => call'[d] = call[d]
    BY <1>1, <1>2, <2>1 DEF Send, TypeOK
  <2>3. ASSUME NEW k \in Passkey, NEW u \in User, StandsFor(k, u)'
        PROVE  StandsFor(k, u) \/ (u = w /\ k = new)
    <3>1. site'[u] = k => StandsFor(k, u) \/ (u = w /\ k = new)
      BY <2>1 DEF TypeOK, StandsFor
    <3>2. Mentions(c, k)' => k = new
      BY <2>1, SentinelAssumption DEF Mentions, Send, InsertUser, TypeOK
    <3> QED BY <2>2, <2>3, <3>1, <3>2, SendGives
  <2>4. issued' = issued \cup ({new} \ {NoPasskey})
    BY <2>1, SentinelAssumption
  <2> QED BY <2>3, <2>4
<1>4. CASE Edit(c)
  <2>1. PICK w \in User, odd \in {NoPasskey, Malformed} :
            /\ site[w] # NoPasskey
            /\ UNCHANGED <<site, issued>>
            /\ Send(c, w, InsertUser(w, site[w], odd))
    BY <1>4 DEF Edit
  <2>2. /\ passkey2id' = passkey2id /\ call'[c].user = w
        /\ \A d \in Call : d # c => call'[d] = call[d]
    BY <1>1, <1>2, <2>1 DEF Send, TypeOK
  <2>3. ASSUME NEW k \in Passkey, NEW u \in User, StandsFor(k, u)'
        PROVE  StandsFor(k, u) \/ (u = w /\ k = NoPasskey)
    <3>1. site'[u] = k => StandsFor(k, u)
      BY <2>1 DEF StandsFor
    <3>2. Mentions(c, k)' => StandsFor(k, w)
      BY <1>2, <2>1, SentinelAssumption DEF Mentions, Send, InsertUser, TypeOK
    <3> QED BY <2>2, <2>3, <3>1, <3>2, SendGives
  <2>4. issued' = issued \cup ({NoPasskey} \ {NoPasskey})
    BY <2>1
  <2> QED BY <2>3, <2>4
<1>5. CASE ChangePasskey(c)
  <2>1. PICK w \in User, new \in Passkey \ issued :
            /\ site[w] # NoPasskey
            /\ site' = [site EXCEPT ![w] = new]
            /\ issued' = issued \cup {new}
            /\ Send(c, w, InsertUser(w, site[w], new))
    BY <1>5 DEF ChangePasskey
  <2>2. /\ passkey2id' = passkey2id /\ call'[c].user = w
        /\ \A d \in Call : d # c => call'[d] = call[d]
    BY <1>1, <1>2, <2>1 DEF Send, TypeOK
  <2>3. ASSUME NEW k \in Passkey, NEW u \in User, StandsFor(k, u)'
        PROVE  StandsFor(k, u) \/ (u = w /\ k = new)
    <3>1. site'[u] = k => StandsFor(k, u) \/ (u = w /\ k = new)
      BY <2>1 DEF TypeOK, StandsFor
    <3>2. Mentions(c, k)' => StandsFor(k, w) \/ k = new
      BY <1>2, <2>1 DEF Mentions, Send, InsertUser, TypeOK
    <3> QED BY <2>2, <2>3, <3>1, <3>2, SendGives
  <2>4. issued' = issued \cup ({new} \ {NoPasskey})
    BY <2>1, SentinelAssumption
  <2> QED BY <2>3, <2>4
<1>6. CASE Remove(c)
  <2>1. PICK w \in User :
            /\ site[w] # NoPasskey
            /\ site' = [site EXCEPT ![w] = NoPasskey]
            /\ UNCHANGED issued
            /\ Send(c, w, RemoveUser(w, site[w]))
    BY <1>6 DEF Remove
  <2>2. /\ passkey2id' = passkey2id /\ call'[c].user = w
        /\ \A d \in Call : d # c => call'[d] = call[d]
    BY <1>1, <1>2, <2>1 DEF Send, TypeOK
  <2>3. ASSUME NEW k \in Passkey, NEW u \in User, StandsFor(k, u)'
        PROVE  StandsFor(k, u) \/ (u = w /\ k = NoPasskey)
    <3>1. site'[u] = k => StandsFor(k, u)
      BY <2>1, SentinelAssumption DEF TypeOK, StandsFor
    <3>2. Mentions(c, k)' => StandsFor(k, w)
      BY <1>2, <2>1 DEF Mentions, Send, RemoveUser, TypeOK
    <3> QED BY <2>2, <2>3, <3>1, <3>2, SendGives
  <2>4. issued' = issued \cup ({NoPasskey} \ {NoPasskey})
    BY <2>1
  <2> QED BY <2>3, <2>4
<1> QED BY <1>3, <1>4, <1>5, <1>6 DEF Website

\* So no passkey ever stands for two users.
LEMMA ApartStep ==
    ASSUME TypeOK, PasskeysApart, [Next]_vars
    PROVE  PasskeysApart'
<1>1. CASE \E c \in Call : Website(c)
  <2>1. PICK w \in User, new \in (Passkey \ issued) \cup {NoPasskey} :
              /\ issued' = issued \cup ({new} \ {NoPasskey})
              /\ \A k \in Passkey, u \in User :
                    StandsFor(k, u)' => StandsFor(k, u) \/ (u = w /\ k = new)
    BY <1>1, WebsiteGivesNew
  <2> QED BY <2>1, SentinelAssumption DEF PasskeysApart
<1>2. CASE \E c \in Call : Handle(c)
  <2>1. issued' = issued
    BY <1>2 DEF Handle, TakeOut, Keep, Refuse, Retire, Enter, Map, Forget, Unmap
  <2> QED BY <1>2, <2>1, HandleGivesNothing DEF PasskeysApart
<1>3. CASE (\E h \in Handler : Find(h) \/ Load(h) \/ Count(h)) \/ UNCHANGED vars
  <2>1. UNCHANGED <<site, issued, passkey2id, call>>
    BY <1>3 DEF Find, Load, Count, vars
  <2> QED BY <2>1 DEF PasskeysApart, StandsFor, About, Mentions
<1> QED BY <1>1, <1>2, <1>3 DEF Next

(***************************************************************************)
(* The maps follow the website.                                            *)
(***************************************************************************)
\* What is done in a call about somebody else does not matter to u.
LEMMA OthersFollow ==
    ASSUME NEW c \in Call, NEW u \in User, Followed(u), ~About(c, u), ~About(c, u)',
           \A d \in Call : d # c => call'[d] = call[d],
           Valid(u)' = Valid(u), users'[u] = users[u], site'[u] = site[u]
    PROVE  Followed(u)'
<1>1. \A d \in Call : About(d, u)' <=> About(d, u)
  BY DEF About
<1>2. ASSUME NEW d \in Call, About(d, u)
      PROVE  Underway(d, u)'
  <2>1. call'[d] = call[d] /\ Underway(d, u)
    BY <1>2 DEF Followed
  <2> QED BY <2>1 DEF Underway
<1>3. (\A d \in Call : ~About(d, u)) => Agreed(u)'
  BY DEF Followed, Agreed
<1>4. OneCall(u)'
  BY <1>1 DEF Followed, OneCall
<1> QED BY <1>1, <1>2, <1>3, <1>4 DEF Followed

\* The only call about u goes on, or ends.
LEMMA CallerFollows ==
    ASSUME NEW c \in Call, NEW u \in User,
           \A d \in Call : d # c => call'[d] = call[d] /\ ~About(d, u),
           \/ About(c, u)' /\ Underway(c, u)'
           \/ ~About(c, u)' /\ Agreed(u)'
    PROVE  Followed(u)'
<1>1. \A d \in Call : d # c => ~About(d, u)'
  BY DEF About
<1> QED BY <1>1 DEF Followed, OneCall

\* A call takes a passkey from its own user only (api/user.rs, passkey2id).
LEMMA OthersKeepPasskeys ==
    ASSUME TypeOK, PasskeysApart, NEW c \in Call, Handle(c),
           NEW u \in User, ~About(c, u)
    PROVE  Valid(u)' = Valid(u)
<1> DEFINE w == call[c].user
           p == call[c].passkey
<1>1. call[c] # Free /\ w \in User /\ p \in Passkey /\ w # u
  BY CallPhases DEF Handle, TakeOut, Keep, Refuse, Retire, Enter, Map, Forget, Unmap, Free, About
<1>2. StandsFor(p, w)
  BY <1>1 DEF StandsFor, About, Mentions
<1>3. passkey2id[p] # u
  BY <1>1, <1>2 DEF PasskeysApart, StandsFor
<1>4. CASE Map(c)
  BY <1>1, <1>3, <1>4 DEF Map, Valid, TypeOK
<1>5. CASE Retire(c) \/ Unmap(c)
  BY <1>3, <1>5, SentinelAssumption DEF Retire, Unmap, Valid, TypeOK
<1>6. CASE TakeOut(c) \/ Keep(c) \/ Refuse(c) \/ Enter(c) \/ Forget(c)
  BY <1>6 DEF TakeOut, Keep, Refuse, Enter, Forget, Valid
<1> QED BY <1>4, <1>5, <1>6 DEF Handle

\* A step of a call keeps the user on course, and the others (api/user.rs,
\* upsert and destroy).
LEMMA HandleFollows ==
    ASSUME Invariant, NEW c \in Call, Handle(c), NEW u \in User \ disturbed
    PROVE  Followed(u)'
<1> DEFINE w == call[c].user
           p == call[c].passkey
<1>1. /\ TypeOK /\ PasskeysApart /\ Followed(u)
      /\ call[c] # Free /\ w \in User /\ p \in Passkey
  BY CallPhases DEF Invariant, Handle, TakeOut, Keep, Refuse, Retire, Enter, Map, Forget, Unmap, Free
<1>2. site' = site /\ \A d \in Call : d # c => call'[d] = call[d]
  BY <1>1 DEF Handle, TakeOut, Keep, Refuse, Retire, Enter, Map, Forget, Unmap, Entering, TypeOK
<1>3. CASE w # u
  <2>1. ~About(c, u)
    BY <1>3 DEF About
  <2>2. ~About(c, u)'
    <3>1. CASE Forget(c)
      <4>1. call[c] \in Ending /\ call'[c] = [call[c] EXCEPT !.pc = "unmapping"]
        BY <1>1, <3>1, CallPhases DEF Forget, TypeOK
      <4> QED BY <1>3, <4>1 DEF Ending, About
    <3>2. CASE Refuse(c) \/ Map(c) \/ Unmap(c)
      BY <1>1, <3>2 DEF Refuse, Map, Unmap, TypeOK, About
    <3>3. CASE TakeOut(c) \/ Enter(c)
      BY <1>1, <1>3, <3>3 DEF TakeOut, Enter, TypeOK, About
    <3>4. CASE Keep(c) \/ Retire(c)
      BY <1>1, <1>3, <3>4 DEF Keep, Retire, Entering, TypeOK, About
    <3> QED BY <3>1, <3>2, <3>3, <3>4 DEF Handle
  <2>3. users'[u] = users[u]
    BY <1>1, <1>3 DEF Handle, TakeOut, Keep, Refuse, Retire, Enter, Map, Forget, Unmap, TypeOK
  <2> QED BY <1>1, <1>2, <2>1, <2>2, <2>3, OthersFollow, OthersKeepPasskeys
<1>4. CASE w = u
  <2>1. About(c, u) /\ Underway(c, u) /\ \A d \in Call : d # c => ~About(d, u)
    BY <1>1, <1>4 DEF About, Followed, OneCall
  <2>2. \/ About(c, u)' /\ Underway(c, u)'
        \/ ~About(c, u)' /\ Agreed(u)'
    <3>1. CASE TakeOut(c)
      <4>1. Valid(u)' = Valid(u)
        BY <3>1 DEF TakeOut, Valid
      <4> QED BY <1>1, <1>2, <1>4, <2>1, <3>1, <4>1 DEF TakeOut, TypeOK, About, Underway, Free
    <3>2. CASE Keep(c)
      <4>1. Valid(u)' = Valid(u)
        BY <3>2 DEF Keep, Valid
      <4> QED BY <1>1, <1>2, <1>4, <2>1, <3>2, <4>1 DEF Keep, Entering, TypeOK, About, Underway, Free
    <3>3. CASE Refuse(c)
      BY <2>1, <3>3 DEF Refuse, Underway
    <3>4. CASE Retire(c)
      <4>1. Valid(u)' = {}
        BY <1>1, <1>4, <2>1, <3>4, SentinelAssumption DEF Retire, Valid, Underway, TypeOK
      <4> QED BY <1>1, <1>2, <1>4, <2>1, <3>4, <4>1, SentinelAssumption
              DEF Retire, Entering, TypeOK, About, Underway, Free
    <3>5. CASE Enter(c)
      <4>1. Valid(u)' = Valid(u)
        BY <3>5 DEF Enter, Valid
      <4>2. call[c] \in InHand
        BY <1>1, <3>5, CallPhases DEF Enter
      <4>3. users'[u] = [passkey |-> p, rates |-> call[c].rates] /\ users'[u] \in Entry
        BY <1>1, <1>4, <3>5, <4>2 DEF Enter, TypeOK, InHand, Entry
      <4>4. users'[u] # NoUser /\ users'[u].passkey = p
        BY <4>3, EntryAssumption
      <4>5. call'[c] = [pc |-> "mapping", user |-> u, passkey |-> p]
        BY <1>1, <1>4, <3>5 DEF Enter, TypeOK
      <4>6. site[u] = p /\ Valid(u) \subseteq {p}
        BY <2>1, <3>5 DEF Enter, Underway
      <4> QED BY <1>2, <4>1, <4>4, <4>5, <4>6 DEF About, Underway, Free
    <3>6. CASE Map(c)
      <4>1. Valid(u)' = {p}
        BY <1>1, <1>4, <2>1, <3>6 DEF Map, Valid, Underway, TypeOK
      <4>2. site'[u] = p /\ p # NoPasskey /\ users'[u] # NoUser /\ users'[u].passkey = p
        BY <1>1, <1>2, <1>4, <2>1, <3>6, SentinelAssumption DEF Map, Underway
      <4>3. ~About(c, u)'
        BY <1>1, <3>6 DEF Map, TypeOK, About
      <4>4. {p} = {site'[u]} \ {NoPasskey}
        BY <4>2
      <4>5. Agreed(u)'
        BY <4>1, <4>2, <4>4 DEF Agreed
      <4> QED BY <4>3, <4>5
    <3>7. CASE Forget(c)
      <4>1. Valid(u)' = Valid(u)
        BY <3>7 DEF Forget, Valid
      <4>2. call[c] \in Ending /\ call'[c] = [call[c] EXCEPT !.pc = "unmapping"]
        BY <1>1, <3>7, CallPhases DEF Forget, TypeOK
      <4>3. call'[c].pc = "unmapping" /\ call'[c].user = u /\ call'[c].passkey = p
        BY <1>4, <4>2 DEF Ending
      <4> QED BY <1>1, <1>2, <1>4, <2>1, <3>7, <4>1, <4>3 DEF Forget, TypeOK, About, Underway, Free
    <3>8. CASE Unmap(c)
      <4>1. Valid(u)' = {}
        BY <1>1, <1>4, <2>1, <3>8, SentinelAssumption DEF Unmap, Valid, Underway, TypeOK
      <4> QED BY <1>1, <1>2, <1>4, <2>1, <3>8, <4>1 DEF Unmap, About, Underway, Agreed, TypeOK
    <3> QED BY <3>1, <3>2, <3>3, <3>4, <3>5, <3>6, <3>7, <3>8 DEF Handle
  <2> QED BY <1>2, <2>1, <2>2, CallerFollows
<1> QED BY <1>3, <1>4

\* Whom the website calls about was settled, or is disturbed from now on.
LEMMA WebsiteFollows ==
    ASSUME Invariant, NEW c \in Call, Website(c), NEW u \in User \ disturbed'
    PROVE  Followed(u)'
<1>1. TypeOK /\ u \in User \ disturbed /\ Followed(u)
  <2>1. disturbed \subseteq disturbed'
    BY DEF Website, Register, Edit, ChangePasskey, Remove, Send
  <2> QED BY <2>1 DEF Invariant
<1>2. PICK w \in User, request \in {call'[c]} :
        /\ Send(c, w, request)
        /\ request.user = w /\ request # Free
        /\ \A v \in User : v # w => site'[v] = site[v]
        /\ \/ /\ request.pc = "taking"
              /\ \/ request.new_passkey = Malformed
                 \/ /\ site'[w] = IF request.new_passkey = NoPasskey THEN request.passkey
                                 ELSE request.new_passkey
                    /\ site[w] \in {NoPasskey, request.passkey}
           \/ request.pc = "removing" /\ site'[w] = NoPasskey /\ site[w] = request.passkey
  <2>1. CASE Register(c)
    <3>1. PICK w \in User, k \in Passkey \ issued :
            site[w] = NoPasskey /\ site' = [site EXCEPT ![w] = k]
            /\ Send(c, w, InsertUser(w, k, NoPasskey))
      BY <2>1 DEF Register
    <3> DEFINE request == InsertUser(w, k, NoPasskey)
    <3>2. /\ request.user = w /\ request # Free /\ request.pc = "taking"
          /\ request.new_passkey = NoPasskey /\ request.passkey = k
      BY DEF InsertUser, Free
    <3>3. site'[w] = k /\ \A v \in User : v # w => site'[v] = site[v]
      BY <1>1, <3>1 DEF TypeOK
    <3>4. call'[c] = request
      BY <1>1, <3>1 DEF Send, TypeOK
    <3> HIDE DEF request
    <3> QED BY <3>1, <3>2, <3>3, <3>4 DEF request
  <2>2. CASE Edit(c)
    <3>1. PICK w \in User, odd \in {NoPasskey, Malformed} :
            site' = site /\ Send(c, w, InsertUser(w, site[w], odd))
      BY <2>2 DEF Edit
    <3> DEFINE request == InsertUser(w, site[w], odd)
    <3>2. /\ request.user = w /\ request # Free /\ request.pc = "taking"
          /\ request.new_passkey = odd /\ request.passkey = site[w]
      BY DEF InsertUser, Free
    <3>3. call'[c] = request
      BY <1>1, <3>1 DEF Send, TypeOK
    <3> HIDE DEF request
    <3> QED BY <3>1, <3>2, <3>3 DEF request
  <2>3. CASE ChangePasskey(c)
    <3>1. PICK w \in User, k \in Passkey \ issued :
            site' = [site EXCEPT ![w] = k] /\ Send(c, w, InsertUser(w, site[w], k))
      BY <2>3 DEF ChangePasskey
    <3> DEFINE request == InsertUser(w, site[w], k)
    <3>2. /\ request.user = w /\ request # Free /\ request.pc = "taking"
          /\ request.new_passkey = k /\ request.passkey = site[w]
      BY DEF InsertUser, Free
    <3>3. site'[w] = k /\ k # NoPasskey /\ \A v \in User : v # w => site'[v] = site[v]
      BY <1>1, <3>1, SentinelAssumption DEF TypeOK
    <3>4. call'[c] = request
      BY <1>1, <3>1 DEF Send, TypeOK
    <3> HIDE DEF request
    <3> QED BY <3>1, <3>2, <3>3, <3>4 DEF request
  <2>4. CASE Remove(c)
    <3>1. PICK w \in User :
            site' = [site EXCEPT ![w] = NoPasskey] /\ Send(c, w, RemoveUser(w, site[w]))
      BY <2>4 DEF Remove
    <3> DEFINE request == RemoveUser(w, site[w])
    <3>2. /\ request.user = w /\ request # Free /\ request.pc = "removing"
          /\ request.passkey = site[w]
      BY DEF RemoveUser, Free
    <3>3. site'[w] = NoPasskey /\ \A v \in User : v # w => site'[v] = site[v]
      BY <1>1, <3>1 DEF TypeOK
    <3>4. call'[c] = request
      BY <1>1, <3>1 DEF Send, TypeOK
    <3> HIDE DEF request
    <3> QED BY <3>1, <3>2, <3>3, <3>4 DEF request
  <2> QED BY <2>1, <2>2, <2>3, <2>4 DEF Website
<1>3. /\ call[c] = Free /\ call'[c] = request
      /\ \A d \in Call : d # c => call'[d] = call[d]
      /\ users' = users /\ Valid(u)' = Valid(u)
  BY <1>1, <1>2 DEF Send, TypeOK, Valid
<1>4. CASE w # u
  <2>1. ~About(c, u) /\ ~About(c, u)'
    BY <1>2, <1>3, <1>4 DEF About
  <2> QED BY <1>1, <1>2, <1>3, <1>4, <2>1, OthersFollow
<1>5. CASE w = u
  <2>1. \A d \in Call : ~About(d, u)
    BY <1>2, <1>5 DEF Send, About
  <2>2. request.pc = "taking" => request.new_passkey # Malformed
    BY <1>2, <1>5 DEF Send
  <2>3. Valid(u) \subseteq {request.passkey}
    BY <1>1, <1>2, <1>5, <2>1, <2>2 DEF Followed, Agreed
  <2>4. About(c, u)'
    BY <1>2, <1>3, <1>5 DEF About
  <2>5. Underway(c, u)'
    BY <1>2, <1>3, <1>5, <2>2, <2>3 DEF Underway
  <2> QED BY <1>3, <2>1, <2>4, <2>5, CallerFollows
<1> QED BY <1>4, <1>5

\* Announces change no passkey (announce.rs, the users lock).
LEMMA AnnounceFollows ==
    ASSUME Invariant, NEW h \in Handler, Find(h) \/ Load(h) \/ Count(h),
           NEW u \in User \ disturbed
    PROVE  Followed(u)'
<1>1. TypeOK /\ Followed(u) /\ UNCHANGED <<site, passkey2id, call>>
  BY DEF Invariant, Find, Load, Count
<1>2. /\ (users'[u] = NoUser) <=> (users[u] = NoUser)
      /\ users[u] # NoUser => users'[u].passkey = users[u].passkey
  <2>1. CASE Find(h) \/ Load(h) \/ users' = users
    BY <2>1 DEF Find, Load
  <2>2. CASE Count(h) /\ users' = [users EXCEPT ![announce[h].user].rates = "used"]
    <3>1. CASE announce[h].user = u /\ users[u] # NoUser
      <4>1. users[u] \in Entry
        BY <1>1, <3>1, PresentUser
      <4>2. users'[u] = [users[u] EXCEPT !.rates = "used"]
        BY <1>1, <2>2, <3>1 DEF TypeOK
      <4>3. users'[u] \in Entry /\ users'[u].passkey = users[u].passkey
        BY <4>1, <4>2 DEF Entry, Rates
      <4> QED BY <3>1, <4>3, EntryAssumption
    <3>2. CASE announce[h].user # u
      BY <1>1, <2>2, <3>2 DEF TypeOK
    <3>3. CASE announce[h].user = u /\ users[u] = NoUser
      BY <2>2, <3>3 DEF Count
    <3> QED BY <3>1, <3>2, <3>3
  <2> QED BY <2>1, <2>2 DEF Count
<1>3. /\ Valid(u)' = Valid(u)
      /\ \A c \in Call : About(c, u)' <=> About(c, u)
  BY <1>1 DEF Valid, About
<1>4. \A c \in Call : Underway(c, u) => Underway(c, u)'
  BY <1>1, <1>2, <1>3 DEF Underway
<1>5. Agreed(u) => Agreed(u)'
  BY <1>1, <1>2, <1>3 DEF Agreed
<1> QED BY <1>1, <1>3, <1>4, <1>5 DEF Followed, OneCall

\* Initially the maps are what the website has (store.rs, Stores::new).
LEMMA InvariantInit == Init => Invariant
<1> SUFFICES ASSUME Init PROVE Invariant
  OBVIOUS
<1>1. TypeOK
  BY TypeInit
<1>2. \A k \in Passkey, u \in User : passkey2id[k] = u <=> site[u] = k
  <2>1. ASSUME NEW k \in Passkey, NEW u \in User, site[u] = k
        PROVE  passkey2id[k] = u
    <3>1. \A v \in User : site[v] = k => v = u
      BY <2>1, SentinelAssumption DEF Init
    <3>2. (CHOOSE v \in User : site[v] = k) = u
      BY <2>1, <3>1
    <3> QED BY <2>1, <3>2 DEF Init, LoadedPasskeys
  <2>2. ASSUME NEW k \in Passkey, NEW u \in User, passkey2id[k] = u
        PROVE  site[u] = k
    <3>1. \E v \in User : site[v] = k
      BY <2>2, SentinelAssumption DEF Init, LoadedPasskeys
    <3>2. passkey2id[k] = CHOOSE v \in User : site[v] = k
      BY <3>1 DEF Init, LoadedPasskeys
    <3> QED BY <2>2, <3>1, <3>2
  <2> QED BY <2>1, <2>2
<1>3. \A c \in Call, u \in User : ~About(c, u)
  BY DEF Init, About
<1>4. PasskeysApart
  BY <1>2, <1>3, SentinelAssumption DEF PasskeysApart, StandsFor, Init
<1>5. ASSUME NEW u \in User
      PROVE  Followed(u)
  <2>1. Valid(u) = {site[u]} \ {NoPasskey}
    BY <1>1, <1>2, SentinelAssumption DEF Valid, TypeOK
  <2>2. IF site[u] = NoPasskey THEN users[u] = NoUser
        ELSE users[u] # NoUser /\ users[u].passkey = site[u]
    <3>1. site[u] # NoPasskey => [passkey |-> site[u], rates |-> "fresh"] \in Entry
      BY <1>1 DEF TypeOK, Entry, Rates
    <3> QED BY <3>1, EntryAssumption DEF Init, LoadedUsers
  <2> QED BY <1>3, <2>1, <2>2 DEF Followed, OneCall, Agreed
<1> QED BY <1>1, <1>4, <1>5 DEF Invariant

\* Every step keeps the invariant.
LEMMA InvariantStep == Invariant /\ [Next]_vars => Invariant'
<1> SUFFICES ASSUME Invariant, [Next]_vars PROVE Invariant'
  OBVIOUS
<1>1. TypeOK' /\ PasskeysApart'
  BY TypeStep, ApartStep DEF Invariant
<1>2. ASSUME NEW u \in User \ disturbed'
      PROVE  Followed(u)'
  <2>1. CASE \E c \in Call : Website(c)
    BY <2>1, WebsiteFollows
  <2>2. CASE \E c \in Call : Handle(c)
    <3>1. disturbed' = disturbed
      BY <2>2 DEF Handle, TakeOut, Keep, Refuse, Retire, Enter, Map, Forget, Unmap
    <3> QED BY <2>2, <3>1, HandleFollows
  <2>3. CASE \E h \in Handler : Find(h) \/ Load(h) \/ Count(h)
    <3>1. disturbed' = disturbed
      BY <2>3 DEF Find, Load, Count
    <3> QED BY <2>3, <3>1, AnnounceFollows
  <2>4. CASE UNCHANGED vars
    BY <2>4 DEF vars, Invariant, Followed, OneCall, About, Underway, Agreed, Valid
  <2> QED BY <2>1, <2>2, <2>3, <2>4 DEF Next
<1> QED BY <1>1, <1>2 DEF Invariant

\* Once a user's calls have come one after the other, the user and the passkey
\* map are what the website has, however the calls about other users and the
\* announces interleave with them (api/user.rs, upsert and destroy).
THEOREM MapsFollowSite == Spec => []StoresFollowSite
<1>1. Invariant => StoresFollowSite
  BY DEF Invariant, StoresFollowSite, Settled, Followed, Agreed, About, Valid
<1> QED BY <1>1, InvariantInit, InvariantStep, PTL DEF Spec

(***************************************************************************)
(* Rates survive.                                                          *)
(***************************************************************************)
\* The call c has taken u out of the store and not put u back.
TookOut(c, u) == About(c, u) /\ call[c].pc \in {"retiring", "entering"}

\* The rates are used wherever they are: in the store or in the call.
Kept(u) ==
    \/ users[u] # NoUser /\ users[u].rates = "used"
    \/ \E c \in Call : TookOut(c, u) /\ call[c].rates = "used"

\* While a call has a user, the store has not: or an announce would count for
\* an entry that the call then overwrites.
RatesInv ==
    \A u \in User \ disturbed :
        /\ \A c \in Call : TookOut(c, u) => users[u] = NoUser
        /\ u \in listed => Kept(u)

\* A call's step carries the rates of its user along (api/user.rs, old_user).
LEMMA HandleKeepsRates ==
    ASSUME Invariant, RatesInv, NEW c \in Call, Handle(c), NEW u \in User \ disturbed
    PROVE  /\ \A d \in Call : TookOut(d, u)' => users'[u] = NoUser
           /\ u \in listed' => Kept(u)'
<1> DEFINE w == call[c].user
<1>1. /\ TypeOK /\ Followed(u) /\ call[c] # Free /\ w \in User
  BY CallPhases DEF Invariant, Handle, TakeOut, Keep, Refuse, Retire, Enter, Map, Forget, Unmap, Free
<1>2. /\ \A d \in Call : d # c => call'[d] = call[d]
      /\ \A d \in Call : d # c => (TookOut(d, u)' <=> TookOut(d, u))
  <2>1. \A d \in Call : d # c => call'[d] = call[d]
    BY <1>1 DEF Handle, TakeOut, Keep, Refuse, Retire, Enter, Map, Forget, Unmap, Entering, TypeOK
  <2> QED BY <2>1 DEF TookOut, About
<1>3. /\ \A d \in Call : TookOut(d, u) => users[u] = NoUser
      /\ u \in listed => Kept(u)
  BY DEF RatesInv
<1>4. CASE w # u
  <2>1. users'[u] = users[u] /\ (u \in listed' <=> u \in listed)
    BY <1>1, <1>4 DEF Handle, TakeOut, Keep, Refuse, Retire, Enter, Map, Forget, Unmap, TypeOK
  <2>2. ~TookOut(c, u)
    BY <1>4 DEF TookOut, About
  <2>3. ~TookOut(c, u)'
    <3>1. CASE TakeOut(c)
      BY <1>1, <1>4, <3>1 DEF TakeOut, TypeOK, TookOut, About
    <3>2. CASE Keep(c) \/ Retire(c)
      BY <1>1, <1>4, <3>2 DEF Keep, Retire, Entering, TypeOK, TookOut, About
    <3>3. CASE Refuse(c) \/ Map(c) \/ Unmap(c)
      BY <1>1, <3>3 DEF Refuse, Map, Unmap, TypeOK, TookOut, About
    <3>4. CASE Enter(c)
      BY <1>1, <3>4 DEF Enter, TypeOK, TookOut
    <3>5. CASE Forget(c)
      <4>1. call[c] \in Ending /\ call'[c] = [call[c] EXCEPT !.pc = "unmapping"]
        BY <1>1, <3>5, CallPhases DEF Forget, TypeOK
      <4> QED BY <4>1 DEF Ending, TookOut
    <3> QED BY <3>1, <3>2, <3>3, <3>4, <3>5 DEF Handle
  <2> QED BY <1>2, <1>3, <2>1, <2>2, <2>3 DEF Kept
<1>5. CASE w = u
  <2>1. About(c, u) /\ Underway(c, u) /\ \A d \in Call : d # c => ~About(d, u)
    BY <1>1, <1>5 DEF About, Followed, OneCall
  <2>2. \A d \in Call : d # c => ~TookOut(d, u) /\ ~TookOut(d, u)'
    BY <1>2, <2>1 DEF TookOut
  <2>3. CASE TakeOut(c)
    <3>1. users'[u] = NoUser /\ listed' = listed /\ ~TookOut(c, u)
      BY <1>1, <1>5, <2>3 DEF TakeOut, TypeOK, TookOut
    <3>2. call'[c] = [pc |-> "retiring", user |-> u, passkey |-> call[c].passkey,
                      new_passkey |-> call[c].new_passkey,
                      rates |-> IF users[u] = NoUser THEN "fresh" ELSE users[u].rates]
      BY <1>1, <1>5, <2>3 DEF TakeOut, TypeOK
    <3>3. TookOut(c, u)'
      BY <3>2 DEF TookOut, About, Free
    <3>4. u \in listed => users[u] # NoUser /\ users[u].rates = "used"
      BY <1>3, <2>2, <3>1 DEF Kept
    <3>5. u \in listed => call'[c].rates = "used"
      BY <3>2, <3>4
    <3> QED BY <3>1, <3>3, <3>5 DEF Kept
  <2>4. CASE Keep(c) \/ Retire(c)
    <3>1. users' = users /\ listed' = listed
      BY <2>4 DEF Keep, Retire
    <3>2. /\ call'[c].pc = "entering" /\ call'[c].user = u /\ call'[c].rates = call[c].rates
          /\ call[c].pc = "retiring"
      BY <1>1, <1>5, <2>4 DEF Keep, Retire, Entering, TypeOK
    <3>3. TookOut(c, u) /\ TookOut(c, u)'
      BY <2>1, <3>2 DEF TookOut, About, Free
    <3> QED BY <1>3, <2>2, <3>1, <3>2, <3>3 DEF Kept
  <2>5. CASE Refuse(c)
    BY <2>1, <2>5 DEF Refuse, Underway
  <2>6. CASE Enter(c)
    <3>1. /\ users'[u] = [passkey |-> call[c].passkey, rates |-> call[c].rates]
          /\ listed' = listed
      BY <1>1, <1>5, <2>6 DEF Enter, TypeOK
    <3>2. call[c] \in InHand
      BY <1>1, <2>6, CallPhases DEF Enter
    <3>3. users'[u] # NoUser /\ users'[u].rates = call[c].rates
      BY <3>1, <3>2, EntryAssumption DEF InHand, Entry
    <3>4. ~TookOut(c, u)'
      BY <1>1, <2>6 DEF Enter, TypeOK, TookOut
    <3>5. TookOut(c, u)
      BY <2>1, <2>6 DEF Enter, TookOut
    <3>6. u \in listed => call[c].rates = "used"
      BY <1>3, <2>2, <3>5 DEF Kept
    <3> QED BY <2>2, <3>1, <3>3, <3>4, <3>6 DEF Kept
  <2>7. CASE Map(c) \/ Unmap(c)
    <3>1. users' = users /\ listed' = listed /\ ~TookOut(c, u)
      BY <2>7 DEF Map, Unmap, TookOut
    <3>2. ~TookOut(c, u)'
      BY <1>1, <2>7 DEF Map, Unmap, TypeOK, TookOut, About
    <3> QED BY <1>3, <2>2, <3>1, <3>2 DEF Kept
  <2>8. CASE Forget(c)
    <3>1. users'[u] = NoUser /\ u \notin listed'
      BY <1>1, <1>5, <2>8 DEF Forget, TypeOK
    <3> QED BY <3>1
  <2> QED BY <2>3, <2>4, <2>5, <2>6, <2>7, <2>8 DEF Handle
<1> QED BY <1>4, <1>5

\* A new call has taken nobody out yet (api/user.rs).
LEMMA WebsiteKeepsRates ==
    ASSUME TypeOK, RatesInv, NEW c \in Call, Website(c), NEW u \in User \ disturbed'
    PROVE  /\ \A d \in Call : TookOut(d, u)' => users'[u] = NoUser
           /\ u \in listed' => Kept(u)'
<1>1. /\ disturbed \subseteq disturbed' /\ users' = users /\ listed' = listed
      /\ call[c] = Free /\ \A d \in Call : d # c => call'[d] = call[d]
  BY DEF Website, Register, Edit, ChangePasskey, Remove, Send, TypeOK
<1>2. call'[c].pc \in {"taking", "removing"}
  BY DEF Website, Register, Edit, ChangePasskey, Remove, Send, InsertUser, RemoveUser, TypeOK
<1>3. \A d \in Call : TookOut(d, u)' <=> TookOut(d, u)
  BY <1>1, <1>2 DEF TookOut, About
<1>4. \A d \in Call : TookOut(d, u) => d # c
  BY <1>1 DEF TookOut, About
<1>5. /\ \A d \in Call : TookOut(d, u) => users[u] = NoUser
      /\ u \in listed => Kept(u)
  BY <1>1 DEF RatesInv
<1> QED BY <1>1, <1>3, <1>4, <1>5 DEF Kept

\* An announce counts for a user in the store, and for nobody else
\* (announce.rs, the users lock).
LEMMA AnnounceKeepsRates ==
    ASSUME TypeOK, RatesInv, NEW h \in Handler, Find(h) \/ Load(h) \/ Count(h),
           NEW u \in User \ disturbed
    PROVE  /\ \A d \in Call : TookOut(d, u)' => users'[u] = NoUser
           /\ u \in listed' => Kept(u)'
<1>1. /\ call' = call
      /\ \A d \in Call : TookOut(d, u) => users[u] = NoUser
      /\ u \in listed => Kept(u)
  BY DEF RatesInv, Find, Load, Count
<1>2. \A d \in Call : TookOut(d, u)' <=> TookOut(d, u)
  BY <1>1 DEF TookOut, About
<1>3. CASE users'[u] = users[u] /\ (u \in listed' <=> u \in listed)
  BY <1>1, <1>2, <1>3 DEF Kept
<1>4. CASE /\ users[u] # NoUser
           /\ users'[u] = [users[u] EXCEPT !.rates = "used"]
  <2>1. users[u] \in Entry
    BY <1>4, PresentUser
  <2>2. users'[u] \in Entry /\ users'[u].rates = "used"
    BY <1>4, <2>1 DEF Entry, Rates
  <2> QED BY <1>1, <1>2, <1>4, <2>2, EntryAssumption DEF Kept
<1>5. CASE Find(h) \/ Load(h)
  BY <1>3, <1>5 DEF Find, Load
<1>6. CASE Count(h)
  <2>1. CASE announce[h].user = u /\ users[u] # NoUser
    BY <1>4, <1>6, <2>1 DEF Count, TypeOK
  <2>2. CASE announce[h].user # u \/ users[u] = NoUser
    BY <1>3, <1>6, <2>2 DEF Count, TypeOK
  <2> QED BY <2>1, <2>2
<1> QED BY <1>5, <1>6

\* Initially nobody's rates count anything, and no call is in flight.
LEMMA RatesInit == Init => RatesInv
BY DEF Init, RatesInv, TookOut, About

\* Every step keeps the rates, with what Invariant says of the calls: that one
\* user's calls do not meet.
LEMMA RatesStep == Invariant /\ RatesInv /\ [Next]_vars => RatesInv'
<1> SUFFICES ASSUME Invariant, RatesInv, [Next]_vars, NEW u \in User \ disturbed'
             PROVE  /\ \A d \in Call : TookOut(d, u)' => users'[u] = NoUser
                    /\ u \in listed' => Kept(u)'
  BY DEF RatesInv
<1>1. TypeOK
  BY DEF Invariant
<1>2. CASE \E c \in Call : Website(c)
  BY <1>1, <1>2, WebsiteKeepsRates
<1>3. CASE \E c \in Call : Handle(c)
  <2>1. disturbed' = disturbed
    BY <1>3 DEF Handle, TakeOut, Keep, Refuse, Retire, Enter, Map, Forget, Unmap
  <2> QED BY <1>3, <2>1, HandleKeepsRates
<1>4. CASE \E h \in Handler : Find(h) \/ Load(h) \/ Count(h)
  <2>1. disturbed' = disturbed
    BY <1>4 DEF Find, Load, Count
  <2> QED BY <1>1, <1>4, <2>1, AnnounceKeepsRates
<1>5. CASE UNCHANGED vars
  BY <1>5 DEF vars, RatesInv, TookOut, About, Kept
<1> QED BY <1>2, <1>3, <1>4, <1>5 DEF Next

\* A user whose rates count some peer list keeps them through any number of
\* calls that come one after the other, while announces go on counting
\* (api/user.rs, old_user; announce.rs, the users lock).
THEOREM RatesKept == Spec => []RatesSurvive
<1>1. Invariant /\ RatesInv => RatesSurvive
  <2> SUFFICES ASSUME Invariant, RatesInv, NEW u \in listed \ disturbed
               PROVE  \/ users[u] # NoUser /\ users[u].rates = "used"
                      \/ \E c \in Call : /\ call[c].pc \in {"retiring", "entering"}
                                         /\ call[c].user = u /\ call[c].rates = "used"
    BY DEF RatesSurvive
  <2>1. u \in User
    BY DEF Invariant, TypeOK
  <2> QED BY <2>1 DEF RatesInv, Kept, TookOut, About
<1> QED BY <1>1, InvariantInit, InvariantStep, RatesInit, RatesStep, PTL DEF Spec
=============================================================================
