----------------------------- MODULE EditorDoor -----------------------------
(***************************************************************************)
(* Who may do what under /edit: resolveAuth of editor-auth.js with its     *)
(* three channels (the signed cookie of a link, a bearer token, the        *)
(* assertion of Cloudflare Access), the key cache of access-jwt.js, and    *)
(* the gates of the routes in editor.js and the endpoints.                 *)
(*                                                                         *)
(* One isolate of the Worker serves the requests; a deployment starts a    *)
(* new one with a cold cache; what the old one has begun is not followed.   *)
(* A signature is what it promises: nobody makes one without the key. The  *)
(* signing keys of Access are numbered in the order in which it uses them. *)
(***************************************************************************)
EXTENDS Naturals, Sequences, FiniteSets

CONSTANTS
    Callers, Slots, NoOne,
    Deployments,          \* the configurations deployed, in their order
    LastKey, LastTime, LastLink,  \* bounds: keys of Access, the clock, values of a secret
    Ttl,                  \* JWKS_TTL_MS
    Skew                  \* CLOCK_SKEW_SEC

Early == {"edit", "instructor", "admin"}
Late == {"publisher", "release_service", "release_observer"}
Scopes == Early \cup Late

\* A slot's grants are the version of each scope, 0 for none; a secret is 0 when unset.
Configurations ==
    [grants : [Slots -> [Scopes -> Nat]], secret : [Slots -> 0..LastLink],
     emails : [Callers -> Slots \cup {NoOne}]]

ASSUME DoorAssumption ==
    /\ Deployments \in Seq(Configurations) /\ Deployments # <<>>
    /\ LastKey \in Nat \ {0} /\ LastTime \in Nat /\ LastLink \in Nat
    /\ Ttl \in Nat \ {0, 1} /\ Skew \in Nat
    /\ NoOne \notin Slots

VARIABLES
    deployed,   \* how many deployments there were
    clock,      \* one unit is longer than JWKS_FETCH_TIMEOUT_MS
    signing,    \* the key Access signs with
    oldest,     \* the oldest key it still publishes
    withdrawn,  \* history: when a key was last published, for those that are not
    cache,      \* jwksCache: keys and the time it asked for them, or NoOne
    jar,        \* the cookie a browser has, or NoOne
    asks        \* each caller's request that waits for the key set, or NoOne

doorVars == <<deployed, clock, signing, oldest, withdrawn, cache, jar, asks>>

Keys == 1..LastKey
Published == oldest..signing
Times == 0..LastTime

DoorInit ==
    /\ deployed = 1 /\ clock = 0 /\ signing = 1 /\ oldest = 1
    /\ withdrawn = [k \in Keys |-> NoOne]
    /\ cache = NoOne
    /\ jar = NoOne /\ asks = [c \in Callers |-> NoOne]

-----------------------------------------------------------------------------
(* Slots, links and cookies.                                               *)

\* parseScopeConfig: a slot that mixes the observer with another scope does not count.
Configured(cf) ==
    {s \in Slots : cf.grants[s]["release_observer"] # 0 =>
                       \A o \in Scopes \ {"release_observer"} : cf.grants[s][o] = 0}

Granted(cf, s) == {o \in Scopes : cf.grants[s][o] # 0}

\* scopeStamp: the later scopes are bound when they are granted.
Stamp(grants) == [o \in Early \cup {o \in Late : grants[o] # 0} |-> grants[o]]

\* resolveOpaqueToken: a secret shared by two slots opens neither.
SlotsOf(cf, link) == {s \in Configured(cf) : link # 0 /\ cf.secret[s] = link}
HasSlot(cf, link) == Cardinality(SlotsOf(cf, link)) = 1
SlotOf(cf, link) == CHOOSE s \in SlotsOf(cf, link) : TRUE

Current == Deployments[deployed]

\* verifyCookieValue, and the stamp of today.
Holds(cookie) ==
    /\ cookie # NoOne /\ cookie.slot \in Configured(Current)
    /\ cookie.stamp = Stamp(Current.grants[cookie.slot])

\* The exchange of ?t= for a cookie; a bad link leaves the cookie alone. The field under
\* is history: the grants the cookie was made for.
ClickLink(link) ==
    /\ HasSlot(Current, link)
    /\ LET s == SlotOf(Current, link)
       IN  jar' = [slot |-> s, stamp |-> Stamp(Current.grants[s]), under |-> Current.grants[s]]
    /\ UNCHANGED <<deployed, clock, signing, oldest, withdrawn, cache, asks>>

-----------------------------------------------------------------------------
(* The key set of Access.                                                  *)

CacheIsWarm == cache # NoOne /\ clock - cache.at < Ttl

\* timeClaimsValid, lookupAccessSlot and the slot's grants.
Identified(c, cf, exp) ==
    /\ clock <= exp + Skew
    /\ cf.emails[c] # NoOne /\ cf.emails[c] \in Configured(cf)

\* The answers of resolveAuth. The last two fields are history: what the answer rests on,
\* and whether it had to be.
Unidentified == [channel |-> "none", slot |-> NoOne, scopes |-> {}, on |-> NoOne, fair |-> TRUE]
Somebody(cf, s, channel, on) ==
    [channel |-> channel, slot |-> s, scopes |-> Granted(cf, s), on |-> on, fair |-> TRUE]

\* The cookie comes first.
ByCookie == IF Holds(jar) THEN {Somebody(Current, jar.slot, "cookie", jar)} ELSE {}

\* Then the bearer token; a request with neither and no assertion gets nothing.
ByBearer ==
    {Unidentified} \cup {Somebody(Current, SlotOf(Current, link), "bearer", link) :
                       link \in {l \in 1..LastLink : HasSlot(Current, l)}}

\* Then an assertion, on the host of Access only, with a key of some key set. A refusal
\* is fair when the key is not published or the caller not identified.
Identify(c, cf, kid, keys, exp) ==
    IF kid \in keys /\ Identified(c, cf, exp) THEN Somebody(cf, cf.emails[c], "access", kid)
    ELSE [Unidentified EXCEPT !.on = kid, !.fair = kid \notin Published \/ ~Identified(c, cf, exp)]

HasKey(kid) == CacheIsWarm /\ kid \in cache.keys

\* A warm cache with the key answers at once.
ByCache ==
    {Identify(c, Current, kid, cache.keys, exp) :
        c \in Callers, kid \in {k \in 1..signing : HasKey(k)}, exp \in Times}

\* Otherwise the key set is fetched, by force when the cache is warm.
Arrive(c, kid) ==
    /\ asks[c] = NoOne /\ ~HasKey(kid)
    /\ asks' = [asks EXCEPT ![c] = [kid |-> kid, since |-> clock, reply |-> {},
                                    warm |-> CacheIsWarm]]
    /\ UNCHANGED <<deployed, clock, signing, oldest, withdrawn, cache, jar>>

\* External: the edge of Access makes its reply.
EdgeReplies(c) ==
    /\ asks[c] # NoOne /\ asks[c].reply = {}
    /\ asks' = [asks EXCEPT ![c].reply = Published]
    /\ UNCHANGED <<deployed, clock, signing, oldest, withdrawn, cache, jar>>

\* The reply overwrites what the isolate has, however old it is; there is no second fetch.
FetchReturns(c) ==
    /\ asks[c] # NoOne /\ asks[c].reply # {}
    /\ cache' = [keys |-> asks[c].reply, at |-> asks[c].since]
    /\ asks' = [asks EXCEPT ![c] = NoOne]
    /\ UNCHANGED <<deployed, clock, signing, oldest, withdrawn, jar>>

BySet(c) ==
    {Identify(c, Current, asks[c].kid, asks[c].reply, exp) : exp \in Times}

FetchFails(c) ==
    /\ asks[c] # NoOne /\ asks' = [asks EXCEPT ![c] = NoOne]
    /\ UNCHANGED <<deployed, clock, signing, oldest, withdrawn, cache, jar>>

\* Mutant: keys are kept for as long as the refresh fails.
KeepsOldKeys(c) == IF asks[c].warm \/ cache = NoOne THEN {} ELSE cache.keys

\* After a first fetch that failed the cache is looked at again.
LeftKeys(c) == IF asks[c].warm \/ ~CacheIsWarm THEN {} ELSE cache.keys

\* A failed fetch excuses any refusal.
ByLeftKeys(c) ==
    {[Identify(c, Current, asks[c].kid, LeftKeys(c), exp) EXCEPT !.fair = TRUE] :
        exp \in Times}

\* Every answer that may be given now.
EdgeAnswers ==
    ByCookie \cup ByBearer \cup ByCache
    \cup (UNION {BySet(c) : c \in {d \in Callers : asks[d] # NoOne /\ asks[d].reply # {}}})
    \cup (UNION {ByLeftKeys(c) : c \in {d \in Callers : asks[d] # NoOne}})

-----------------------------------------------------------------------------
(* The surroundings.                                                       *)

\* No fetch lives for a whole unit.
TimePasses ==
    /\ clock < LastTime /\ \A c \in Callers : asks[c] # NoOne => asks[c].since = clock
    /\ clock' = clock + 1
    /\ UNCHANGED <<deployed, signing, oldest, withdrawn, cache, jar, asks>>

\* External: Access signs with a new key, and stops to publish the oldest.
NewKey ==
    /\ signing < LastKey /\ signing' = signing + 1
    /\ UNCHANGED <<deployed, clock, oldest, withdrawn, cache, jar, asks>>
KeyWithdrawn ==
    /\ oldest < signing /\ oldest' = oldest + 1
    /\ withdrawn' = [withdrawn EXCEPT ![oldest] = clock]
    /\ UNCHANGED <<deployed, clock, signing, cache, jar, asks>>

Deploy ==
    /\ deployed < Len(Deployments) /\ deployed' = deployed + 1
    /\ cache' = NoOne /\ asks' = [c \in Callers |-> NoOne]
    /\ UNCHANGED <<clock, signing, oldest, withdrawn, jar>>

DoorNext ==
    \/ \E link \in 1..LastLink : ClickLink(link)
    \/ \E c \in Callers :
          \/ EdgeReplies(c) \/ FetchReturns(c) \/ FetchFails(c)
          \/ \E kid \in 1..signing : Arrive(c, kid)
    \/ TimePasses \/ NewKey \/ KeyWithdrawn \/ Deploy

DoorSpec == DoorInit /\ [][DoorNext]_doorVars

-----------------------------------------------------------------------------
(* The gates of the routes. One of needs is enough.                        *)

Gate(needs, channels) == [needs |-> needs, channels |-> channels]
AnyChannel == {"cookie", "bearer", "access"}

\* admin stands for the review page and every endpoint of the daemon and of Damien.
PageGates ==
    [page |-> Gate({"edit"}, AnyChannel),
     instructor |-> Gate({"instructor"}, AnyChannel),
     history |-> Gate({"edit", "instructor"}, AnyChannel),
     admin |-> Gate({"admin"}, AnyChannel),
     publish |-> Gate({"publisher"}, {"access"})]

\* migrate stands for the one-off reconciliations, release for the executor's endpoints,
\* observe for reading a release.
ApiGates ==
    [suggest |-> Gate({"edit", "instructor"}, AnyChannel),
     revert |-> Gate({"edit", "instructor", "admin"}, AnyChannel),
     migrate |-> Gate({"admin"}, {"bearer"}),
     release |-> Gate({"release_service"}, {"bearer"}),
     observe |-> Gate({"release_service", "release_observer"}, {"bearer"})]

\* What an answer opens. The endpoints of the publisher have the gate of their page.
Opens(a) ==
    LET Open(gates) == {r \in DOMAIN gates : /\ a.channel \in gates[r].channels
                                             /\ a.scopes \cap gates[r].needs # {}}
    IN  Open(PageGates) \cup Open(ApiGates)

\* Where /edit/ leads.
Landing(a) ==
    IF "admin" \in a.scopes THEN "admin"
    ELSE IF {"edit", "instructor"} \cap a.scopes # {} THEN "page" ELSE "none"

-----------------------------------------------------------------------------
(* Properties.                                                             *)

\* The variables have their types.
DoorTypeOK ==
    /\ deployed \in DOMAIN Deployments /\ clock \in Times
    /\ signing \in Keys /\ oldest \in 1..signing
    /\ withdrawn \in [Keys -> Times \cup {NoOne}]
    /\ cache \in [keys : SUBSET Keys, at : Times] \cup {NoOne}
    /\ jar # NoOne => jar.slot \in Slots
    /\ asks \in [Callers -> [kid : Keys, since : Times, reply : SUBSET Keys,
                             warm : BOOLEAN] \cup {NoOne}]

\* "A backstop" (KTD4): an assertion is never accepted on a key that Access withdrew a
\* full TTL ago, whatever refreshes failed, were slow or overtook one another.
KeyIsAlive(a) ==
    a.channel = "access" => a.on \in Published \/ clock - withdrawn[a.on] < Ttl

\* Rotating any scope of a slot ends every cookie made before.
CookieIsOfToday(a) == a.channel = "cookie" => a.on.under = Current.grants[a.slot]

\* Whoever observes releases can do nothing else, and nobody is at once the human who
\* publishes and the service that releases or migrates, however slots are configured.
DutiesAreSeparate(a) ==
    /\ "release_observer" \in a.scopes => Opens(a) \subseteq {"observe"}
    /\ "publish" \in Opens(a) => Opens(a) \cap {"release", "migrate"} = {}

\* The door keeps its promises on every channel. A rotation locks nobody out: a current
\* assertion of a mapped caller on a published key is refused only when the caller's own
\* fetch of the key set failed.
DoorIsSound ==
    \A a \in EdgeAnswers : KeyIsAlive(a) /\ a.fair /\ CookieIsOfToday(a) /\ DutiesAreSeparate(a)

\* Not run: the landing never leads to the uniform 404. A slot with the instructor scope
\* alone is sent to a page that needs the edit scope.
LandingLeadsIn == \A a \in EdgeAnswers : Landing(a) # "none" => Landing(a) \in Opens(a)
=============================================================================
