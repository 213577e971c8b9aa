---------------------------- MODULE AzureQueries ----------------------------
(***************************************************************************)
(* How an integration test looks at what a template has deployed: the      *)
(* assertions of the tests, one after the other, and the functions of      *)
(* test-harness/terratest-extensions/modules/azure they call.  Others      *)
(* create and delete resources, rotate secrets and use the same cache      *)
(* meanwhile.  Every call may fail, and ends the test then.                *)
(*                                                                         *)
(* An item of a listing is a number, its place in the order in which Azure *)
(* lists.  It comes a page at a time, with a link to the next page: some   *)
(* services put the last item into the link, others how many to skip.      *)
(***************************************************************************)
EXTENDS Naturals, FiniteSets

CONSTANTS
  Listing,            \* assertions on a listing
  Exact, RoleCheck,   \* those that compare its length; those of role assignments
  FirstPage,          \* those that read the first page only
  ByOffset,           \* those whose links say how many items to skip
  LastItem, PageSize, \* how many items there may be, and how many a page holds
  Expected,           \* Expected[l]: the items the outputs of Terraform name
  ScopeOf, RoleOf,    \* of an item that is a role assignment
  Secrets,            \* the assertion on the secrets of an Elasticsearch deployment
  Secret, Version,    \* what the vault keeps, a version for each deployment
  Cache,              \* the assertion that writes to a Redis cache
  Key, OtherKey,      \* its random key, and those others use
  NoCheck,
  MaxChanges,         \* bound: how often others change something
  Faults              \* whether calls may fail

Item == 1..LastItem

ASSUME QueryAssumption ==
  /\ Exact \subseteq Listing /\ RoleCheck \subseteq Listing \ Exact /\ FirstPage \cup ByOffset \subseteq Listing
  /\ {Secrets, Cache, NoCheck} \cap Listing = {}
  /\ Secrets # Cache /\ NoCheck \notin {Secrets, Cache}
  /\ LastItem \in Nat /\ PageSize \in Nat \ {0}
  /\ Expected \in [Listing -> SUBSET Item]
  /\ Version \subseteq Nat \ {0} /\ 1 \in Version /\ MaxChanges \in Nat
  /\ Faults \in BOOLEAN

\* rand.Int: no two tests use one key.
ASSUME KeysDiffer == Key \notin OtherKey

VARIABLES
  check,     \* the assertion that is evaluated
  phase,     \* how far it is
  items,     \* what the collection holds that it lists
  page,      \* the page that was read last
  link,      \* the link to the next page: an item or a number, none if 0
  results,   \* what was appended to the results
  length,    \* their length
  always, ever,  \* what was in the collection all the time, and at some time
  changed,   \* what others have done to it meanwhile
  latest,    \* latest[s]: the version of secret s that is current
  read,      \* read[s]: the value the test has got of s
  entries,   \* the keys in the cache
  changes    \* how often others have changed something

testVars == <<check, phase>>
listVars == <<page, link, results, length>>
history == <<always, ever, changed>>
vars == <<testVars, listVars, history, items, latest, read, entries, changes>>

NoValue == 0
Output == 1   \* the version of the secrets the outputs of Terraform name
NothingRead == [s \in Secret |-> NoValue]

Asserting(c, p) == check = c /\ phase = p
Reading == check \in Listing /\ phase = "reading"
Running == phase \in {"reading", "returned", "comparing", "connected", "set", "got"}

-----------------------------------------------------------------------------
(* Listings.                                                               *)

\* The place of an item in a collection, or of where it was.
Place(i, now) == Cardinality({j \in now : j <= i})

\* Fault: the page begins with the last item of the one before.
PageAfter_Overlapping(skip, now) ==
  {i \in now : skip <= Place(i, now) /\ Place(i, now) <= skip + PageSize}

PageAfter(skip, now) ==
  {i \in now : skip < Place(i, now) /\ Place(i, now) <= skip + PageSize}

LastOf(s) == IF s = {} THEN 0 ELSE CHOOSE i \in s : \A j \in s : j <= i

Fetch(l, skip, now) ==
  /\ page' = PageAfter(skip, now)
  /\ link' = IF Cardinality(now) <= skip + PageSize THEN 0
             ELSE IF l \in ByOffset THEN skip + PageSize ELSE LastOf(page')

\* How many items come before the page that the link leads to.
Skipped(now) == IF check \in ByOffset THEN link ELSE Place(link, now)

\* Fault: the results are collected in a variable that outlives the call.
NoResults_Kept == UNCHANGED <<results, length>>

\* results := make(..., 0)
NoResults == results' = {} /\ length' = 0

\* The client is authorized and asks for the first page.  The collection is
\* another one for every listing.
List(l) ==
  /\ phase \in {"idle", "passed"}
  /\ check' = l /\ phase' = "reading"
  /\ items' \in SUBSET Item
  /\ Fetch(l, 0, items')
  /\ NoResults
  /\ always' = items' /\ ever' = items' /\ changed' = {}
  /\ UNCHANGED <<latest, read, entries, changes>>

\* NotDone and Value or Values.
Append == results' = results \cup page /\ length' = length + Cardinality(page)

\* listAccountContainers returns with the first page.
AnotherPage == link # 0 /\ check \notin FirstPage

\* A page is appended and the next one read, if there is one.
NextPage ==
  /\ Reading
  /\ Append
  /\ IF AnotherPage
     THEN Fetch(check, Skipped(items), items) /\ UNCHANGED phase
     ELSE phase' = "returned" /\ UNCHANGED <<page, link>>
  /\ UNCHANGED <<check, history, items, latest, read, entries, changes>>

\* Fault: an error of Next ends the loop.
ReadFails_Break == Append /\ phase' = "returned"

\* An error of Next: nothing is returned, and the test fails.
ReadFails == phase' = "failed" /\ UNCHANGED <<results, length>>

NextFails ==
  /\ Faults /\ Reading /\ AnotherPage
  /\ ReadFails
  /\ UNCHANGED <<check, page, link, history, items, latest, read, entries, changes>>

-----------------------------------------------------------------------------
(* Assertions on a listing.                                                *)

\* Fault: the test tries until the assertion holds.
Require_Eventually(holds) == holds /\ phase' = "passed"

\* require.Equal, require.Contains, assert.ElementsMatch: an assertion that fails
\* is taken to end the test.
Require(holds) == phase' = IF holds THEN "passed" ELSE "differs"

\* Fault: it is enough that what is expected is there.
Matches_Contained(l) == Expected[l] \subseteq results

\* The length is compared, and every name looked for.  The names of the rules of a
\* namespace are looked for in a listing of their own each, not all in one.
Matches(l) ==
  /\ l \in Exact => length = Cardinality(Expected[l])
  /\ Expected[l] \subseteq results

\* A map from scopes to roles keeps the last assignment of a scope, both of
\* those listed and of those expected.
RoleMap(assignments) ==
  [s \in {ScopeOf[i] : i \in assignments} |->
     RoleOf[LastOf({i \in assignments : ScopeOf[i] = s})]]

RolesMatch(l) ==
  LET expected == RoleMap(Expected[l])
      actual == RoleMap(results)
  IN  \A s \in DOMAIN expected : s \in DOMAIN actual /\ actual[s] = expected[s]

AssertListing ==
  /\ check \in Listing /\ phase = "returned"
  /\ Require(IF check \in RoleCheck THEN RolesMatch(check) ELSE Matches(check))
  /\ UNCHANGED <<check, listVars, history, items, latest, read, entries, changes>>

-----------------------------------------------------------------------------
(* Secrets, and an entry of a cache.                                       *)

Begin(c, p) ==
  /\ phase \in {"idle", "passed"}
  /\ check' = c /\ phase' = p
  /\ items' = {} /\ page' = {} /\ link' = 0 /\ results' = {} /\ length' = 0
  /\ always' = {} /\ ever' = {} /\ changed' = {}

CompareSecrets ==
  /\ Begin(Secrets, "reading")
  /\ read' = NothingRead
  /\ UNCHANGED <<latest, entries, changes>>

\* Fault: the secret is asked for without a version.
SecretValue_Latest(s) == latest[s]

\* GetKeyVaultSecretValue: of the version the outputs name.  A value stands for
\* the deployment it was written for.
SecretValue(s) == Output

GetSecret(s) ==
  /\ Asserting(Secrets, "reading") /\ read[s] = NoValue
  /\ read' = [read EXCEPT ![s] = SecretValue(s)]
  /\ phase' = IF \A u \in Secret \ {s} : read[u] # NoValue THEN "comparing" ELSE "reading"
  /\ UNCHANGED <<check, listVars, history, items, latest, entries, changes>>

\* The outputs hold the values of the deployment they describe.
AssertSecrets ==
  /\ Asserting(Secrets, "comparing")
  /\ Require(\A s \in Secret : read[s] = Output)
  /\ UNCHANGED <<check, listVars, history, items, latest, read, entries, changes>>

\* RedisClient, with a ping.
Connect == Begin(Cache, "connected") /\ UNCHANGED <<latest, read, entries, changes>>

\* Fault: the key is the same in all tests.
CacheKey_Fixed(ours) == IF OtherKey = {} THEN ours ELSE CHOOSE k \in OtherKey : TRUE

CacheKey(ours) == ours

\* SetRedisCacheEntry, with no end to its life.
SetEntry ==
  /\ Asserting(Cache, "connected")
  /\ entries' = entries \cup {CacheKey(Key)}
  /\ phase' = "set"
  /\ UNCHANGED <<check, listVars, history, items, latest, read, changes>>

\* GetRedisCacheEntryValueStr: an entry that is missing is an error, redis.Nil.
GetEntry ==
  /\ Asserting(Cache, "set")
  /\ phase' = IF CacheKey(Key) \in entries THEN "got" ELSE "failed"
  /\ UNCHANGED <<check, listVars, history, items, latest, read, entries, changes>>

\* RemoveRedisCacheEntry, which must remove one.
RemoveEntry ==
  /\ Asserting(Cache, "got")
  /\ entries' = entries \ {CacheKey(Key)}
  /\ Require(CacheKey(Key) \in entries)
  /\ UNCHANGED <<check, listVars, history, items, latest, read, changes>>

-----------------------------------------------------------------------------
(* Faults of a call: for roles also RoleName, of every assignment listed.  *)

CallFails ==
  /\ Faults
  /\ \/ phase \in {"idle", "passed"}
     \/ check \in RoleCheck /\ phase = "returned" /\ results # {}
     \/ Asserting(Secrets, "reading")
     \/ check = Cache /\ phase \in {"connected", "set", "got"}
  /\ phase' = "failed"
  /\ UNCHANGED <<check, listVars, history, items, latest, read, entries, changes>>

\* A connection that breaks after the command was executed.
AnswerLost ==
  /\ Faults
  /\ \/ Asserting(Cache, "connected") /\ entries' = entries \cup {CacheKey(Key)}
     \/ Asserting(Cache, "got") /\ entries' = entries \ {CacheKey(Key)}
  /\ phase' = "failed"
  /\ UNCHANGED <<check, listVars, history, items, latest, read, changes>>

-----------------------------------------------------------------------------
(* Others, while the test runs.                                            *)

Others == Running /\ changes < MaxChanges /\ changes' = changes + 1

Observe(now, how) ==
  /\ items' = now
  /\ changed' = changed \cup {how}
  /\ always' = always \cap now
  /\ ever' = ever \cup now

Create ==
  /\ Others /\ Reading
  /\ \E i \in Item \ items : Observe(items \cup {i}, "created")
  /\ UNCHANGED <<testVars, listVars, latest, read, entries>>

Delete ==
  /\ Others /\ Reading
  /\ \E i \in items : Observe(items \ {i}, "deleted")
  /\ UNCHANGED <<testVars, listVars, latest, read, entries>>

\* A later deployment writes the secrets anew, one after the other.
Rotate(s) ==
  /\ Others /\ check = Secrets
  /\ latest[s] + 1 \in Version
  /\ latest' = [latest EXCEPT ![s] = @ + 1]
  /\ UNCHANGED <<testVars, listVars, history, items, read, entries>>

\* Another test sets and removes an entry.
OtherEntry(k) ==
  /\ Others /\ check = Cache
  /\ entries' = IF k \in entries THEN entries \ {k} ELSE entries \cup {k}
  /\ UNCHANGED <<testVars, listVars, history, items, latest, read>>

-----------------------------------------------------------------------------
Init ==
  /\ check = NoCheck /\ phase = "idle"
  /\ items = {} /\ page = {} /\ link = 0 /\ results = {} /\ length = 0
  /\ always = {} /\ ever = {} /\ changed = {}
  /\ latest = [s \in Secret |-> Output] /\ read = NothingRead
  /\ entries = {} /\ changes = 0

\* The next assertion of the test.
Start == (\E l \in Listing : List(l)) \/ CompareSecrets \/ Connect

Continue ==
  \/ NextPage \/ NextFails \/ AssertListing
  \/ (\E s \in Secret : GetSecret(s)) \/ AssertSecrets
  \/ SetEntry \/ GetEntry \/ RemoveEntry
  \/ CallFails \/ AnswerLost

Next ==
  \/ Start \/ Continue \/ Create \/ Delete
  \/ \E s \in Secret : Rotate(s)
  \/ \E k \in OtherKey : OtherEntry(k)

Spec == Init /\ [][Next]_vars

\* The test process runs on.
FairSpec == Spec /\ WF_vars(Continue)

-----------------------------------------------------------------------------
(* Properties.                                                             *)

\* Types; a page is no longer than asked for, what is listed was there at some time
\* of this listing, and is counted.
TypeOK ==
  /\ check \in Listing \cup {Secrets, Cache, NoCheck}
  /\ phase \in {"idle", "reading", "returned", "comparing", "connected", "set", "got",
                "passed", "differs", "failed"}
  /\ items \subseteq Item /\ always \subseteq items /\ items \subseteq ever /\ ever \subseteq Item
  /\ changed \subseteq {"created", "deleted"}
  /\ page \cup results \subseteq ever /\ Cardinality(page) <= PageSize /\ link \in Nat
  /\ length \in Nat /\ length >= Cardinality(results)
  /\ latest \in [Secret -> Version] /\ read \in [Secret -> {NoValue} \cup Version]
  /\ entries \subseteq {Key} \cup OtherKey /\ changes \in 0..MaxChanges

Returned == check \in Listing /\ phase \in {"returned", "passed", "differs"}

\* Where links count items, a deletion moves the following ones to a page that was
\* read already, and a creation some of those read to the next page.
NoneMissed == check \notin ByOffset \/ "deleted" \notin changed
NoneTwice == check \notin ByOffset \/ "created" \notin changed

\* A listing that is returned has every item that was there from the first page
\* to the last, none that was there at no time, and none twice, although others
\* create and delete items between two pages, and calls fail.  One that counts
\* items may miss some if others delete and repeat some if others create; one
\* that reads the first page only has what fits on it.
ListingComplete ==
  Returned =>
    /\ NoneMissed /\ (check \in FirstPage => Cardinality(ever) <= PageSize) => always \subseteq results
    /\ results \subseteq ever
    /\ NoneTwice => length = Cardinality(results)

\* An assertion on the exact content of a collection passes only if everything
\* expected was there at some time of the listing, and nothing else all the time
\* (servicebus_tests.go: "each subscription from the output should also exist").
\* Repeated items cannot make it pass; of others one may be missed where links
\* count items and somebody deleted.
PassIsJustified ==
  phase = "passed" /\ check \in Exact \ FirstPage =>
    /\ Expected[check] \subseteq ever
    /\ NoneMissed => always \subseteq Expected[check]

\* The verdict on a collection nobody changes is the right one, if it was listed
\* to its end.  For roles that is so as long as no two assignments share a scope;
\* other than that a pass says only that every scope expected has some role.
VerdictExact ==
  phase \in {"passed", "differs"} /\ check \in Listing /\ changed = {} =>
    LET expected == Expected[check]
        listed == check \in FirstPage => Cardinality(ever) <= PageSize
        Sole(i) == \A j \in expected \cup ever : ScopeOf[j] = ScopeOf[i] => j = i
        ByItem == /\ phase = "passed" => expected \subseteq ever
                  /\ expected \subseteq ever /\ listed => phase = "passed"
    IN  CASE check \in Exact     -> /\ phase = "passed" => expected \subseteq ever
                                    /\ listed => (phase = "passed" <=> ever = expected)
          [] check \in RoleCheck ->
               /\ phase = "passed" =>
                    \A i \in expected : \E j \in ever : ScopeOf[j] = ScopeOf[i]
               /\ (\A i \in expected : Sole(i)) => ByItem
          [] OTHER               -> ByItem

\* What others do in the same vault or cache makes no test fail: the secrets
\* compared are those of the deployment the outputs describe, although a later
\* one rewrites them between two reads, and the entry a test sets is there until
\* the test removes it.  A test that passed leaves none behind.
OthersDoNotInterfere ==
  /\ phase = "differs" => check \in Listing
  /\ check = Cache /\ phase \in {"set", "got"} => CacheKey(Key) \in entries
  /\ Asserting(Cache, "passed") => CacheKey(Key) \notin entries

\* Every assertion comes to an end, although the collection changes.
AssertionEnds == Running ~> ~Running
=============================================================================
