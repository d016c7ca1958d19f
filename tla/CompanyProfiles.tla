-------------------------- MODULE CompanyProfiles --------------------------
(***************************************************************************)
(* The company profiles of mcp_server/research_broker.py, a cache of the   *)
(* provider's ticker details in Lakebase.  Three operations fill it: adding *)
(* a ticker to a watchlist (after the confirmed write, and only if it was   *)
(* not a replay), researching a company, and reading a watchlist, which     *)
(* looks up one missing profile at each read.  The provider may fail, and   *)
(* the first two then leave the profile out.                                *)
(***************************************************************************)
EXTENDS Integers, FiniteSets

CONSTANTS
    Symbols,            \* numbers: symbols sort as they do
    HasDetails,         \* those the provider has details of
    Named,              \* ... with the name of a company
    Readers,
    MaxChanges,         \* bound: additions to the list and removals
    MaxOutages          \* bound: calls of the provider that fail

ASSUME ProfilesAssumption ==
    /\ Symbols \subseteq Nat /\ HasDetails \subseteq Symbols /\ Named \subseteq HasDetails
    /\ MaxChanges \in Nat /\ MaxOutages \in Nat

VARIABLES
    watched,    \* the tickers of the list
    profiles,   \* those companies has a row for
    adding,     \* the tickers added whose enrichment is still to run
    reading,    \* reading[r]: the profiles a read found missing, {} between reads
    answered,   \* answered[r]: the tickers the last answer had without a name
    changes, outages

profileVars == <<watched, profiles, adding, reading, answered, changes, outages>>

ProfilesInit ==
    /\ watched = {} /\ profiles = {} /\ adding = {}
    /\ reading = [r \in Readers |-> {}]
    /\ answered = [r \in Readers |-> {}]
    /\ changes = 0 /\ outages = 0

(* _refresh_company_profile: a call of the provider, and a row if it answers   *)
(* with details; what it raises is swallowed by those who call it here.        *)
Lookup(t) ==
    \/ /\ profiles' = profiles \cup ({t} \cap HasDetails)
       /\ UNCHANGED outages
    \/ /\ outages < MaxOutages
       /\ outages' = outages + 1
       /\ UNCHANGED profiles

Add(t) ==
    /\ changes < MaxChanges /\ changes' = changes + 1
    /\ watched' = watched \cup {t}
    /\ adding' = adding \cup {t}
    /\ UNCHANGED <<profiles, reading, answered, outages>>

Enrich(t) ==
    /\ t \in adding
    /\ Lookup(t)
    /\ adding' = adding \ {t}
    /\ UNCHANGED <<watched, reading, answered, changes>>

(* The process ends between the write and the enrichment.                      *)
LoseEnrichment(t) ==
    /\ t \in adding
    /\ adding' = adding \ {t}
    /\ UNCHANGED <<watched, profiles, reading, answered, changes, outages>>

Remove(t) ==
    /\ changes < MaxChanges /\ changes' = changes + 1
    /\ watched' = watched \ {t}
    /\ UNCHANGED <<profiles, adding, reading, answered, outages>>

(* get_company_research: an error if there are no details.                     *)
Research(t) ==
    /\ t \in HasDetails
    /\ profiles' = profiles \cup {t}
    /\ UNCHANGED <<watched, adding, reading, answered, changes, outages>>

(* The rows of the list, joined with companies.  A row without a name misses   *)
(* its profile, whether or not there is a company.  Nothing is looked up when  *)
(* no profile is missing.                                                      *)
Nameless(tickers, rows) == tickers \ (rows \cap Named)

ReadRows(r) ==
    /\ reading[r] = {}
    /\ reading' = [reading EXCEPT ![r] = Nameless(watched, profiles)]
    /\ answered' = [answered EXCEPT ![r] = IF Nameless(watched, profiles) = {} THEN {} ELSE @]
    /\ UNCHANGED <<watched, profiles, adding, changes, outages>>

(* A variant: the last of the missing ones.                                    *)
LookedUpLast(missing) == CHOOSE t \in missing : \A u \in missing : t >= u

(* sorted(...)[0]: one call of the provider at each read.                      *)
LookedUp(missing) == CHOOSE t \in missing : \A u \in missing : t <= u

(* Then the profiles that were missing are read again.                         *)
HealAndAnswer(r) ==
    /\ reading[r] # {}
    /\ Lookup(LookedUp(reading[r]))
    /\ answered' = [answered EXCEPT ![r] = Nameless(reading[r], profiles')]
    /\ reading' = [reading EXCEPT ![r] = {}]
    /\ UNCHANGED <<watched, adding, changes>>

ReadList(r) == ReadRows(r) \/ HealAndAnswer(r)

ProfilesNext ==
    \/ \E t \in Symbols : \/ Add(t) \/ Enrich(t) \/ LoseEnrichment(t)
                          \/ Remove(t) \/ Research(t)
    \/ \E r \in Readers : ReadList(r)

ProfilesSpec == ProfilesInit /\ [][ProfilesNext]_profileVars

----------------------------------------------------------------------------
(* A list that is read again and again shows a name for each of its tickers    *)
(* that the provider has a name of ("Missing profiles will be retried on a     *)
(* later read", research_broker.py:425), whatever enrichment was lost and      *)
(* however the provider failed, unless the provider has no name of a ticker    *)
(* before it in the order: that one is looked up at every read and nothing     *)
(* else is.                                                                    *)
Blocked(t) == \E u \in watched : u < t /\ u \notin Named
ProfilesHeal ==
    \A t \in Named : \A r \in Readers :
        []<>(t \notin watched \/ Blocked(t) \/ t \notin answered[r])
=============================================================================
