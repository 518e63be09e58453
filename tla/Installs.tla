------------------------------ MODULE Installs ------------------------------
(***************************************************************************)
(* InstallService and ProvisionHost (install/execute.rs): what installs    *)
(* share on the host.  A run is admitted by looking for another one of its *)
(* service and only then entered in the journal's map; beyond that nothing *)
(* excludes anything.  Shared are                                          *)
(*                                                                         *)
(*   - a secret both ends of a pair must hold, made by whichever comes     *)
(*     first (install/llm_keys.rs),                                        *)
(*   - the Caddyfile, read, merged and written anew (install/caddy.rs),    *)
(*   - the wrappers that update, back up and remove services, rendered     *)
(*     from the services the host is seen to carry.                        *)
(*                                                                         *)
(* A service is its compose project, and a file that is truncated and then *)
(* written can be read in between.  What a client hears is in RunStream,   *)
(* the record of a run in Jobs.                                            *)
(***************************************************************************)
EXTENDS Naturals

CONSTANTS
    Runs,        \* calls of InstallService and ProvisionHost
    Services,    \* what can be installed
    Gateway,     \* the end of the pair that checks the secret
    Chat,        \* the end that presents it, where there is a gateway
    Secrets,     \* random values; one in use is never drawn again
    Headers,     \* each service: the sets of hostnames it may be asked to serve
    Before,      \* the sets of services the host may start with
    None,        \* no service, and no secret
    MaxEvents    \* deaths of the agent and uninstalls

ASSUME InstallsAssumption ==
    /\ {Gateway, Chat} \subseteq Services
    /\ None \notin Services \cup Secrets
    /\ Before \subseteq SUBSET Services
    /\ MaxEvents \in Nat

VARIABLES
    stage, svc, asked,        \* each run: where it is, and its request
    recorded,                 \* RUNNING of install/journal.rs
    secret,                   \* the file both ends read
    key,                      \* each run: the secret it goes on with
    env, holds,               \* each service: its .env, and its container
    up,                       \* the services docker has containers of
    sites, seen,              \* the Caddyfile, and as a run has read it
    wrappers, scanned,        \* the services the wrappers know, and a run saw
    events,
    crowd, blind,             \* history: runs that overlapped; whose scan failed
    raced,                    \* history: two runs have made a secret at once
    fresh, kept, current,     \* history: runs, files and containers with a secret
                              \* that was not purged since it was read
    removal,                  \* each service: where its uninstall wrapper is
    copy,                     \* the copy an uninstall filters the Caddyfile into
    spoilt,                   \* history: a Caddyfile cut short or written over
    mixed,                    \* history: written over what another has written
    doubtful,                 \* history: so were the wrappers, at the last try
    noted, served             \* history: installed, with wrappers and with a site

requestVars == <<svc, asked>>
secretVars  == <<secret, key, env, holds, raced, fresh, kept, current>>
siteVars    == <<sites, seen, spoilt, mixed>>
removalVars == <<removal, copy>>
surfaceVars == <<wrappers, scanned, blind, doubtful>>
successVars == <<noted, served>>
vars == <<stage, requestVars, recorded, secretVars, up, siteVars, surfaceVars,
          successVars, removalVars, events, crowd>>

Apart  == {"idle", "looking", "opening", "over"}
Stages == Apart \cup {"starting", "reading", "minting", "writing", "keeping", "composing",
                      "merging", "judged", "truncated", "adrift", "surveying", "rendering",
                      "halfway", "closing", "bare", "failing"}

Served == UNION {Headers[s] : s \in Services}

Block == [owner : Services, names : Served \ {{}}]

TypeOK ==
    /\ stage \in [Runs -> Stages]
    /\ svc \in [Runs -> Services \cup {None}]
    /\ asked \in [Runs -> Served \cup {{}}]
    /\ recorded \subseteq Runs
    /\ secret \in Secrets \cup {None} /\ key \in [Runs -> Secrets \cup {None}]
    /\ env \in [Services -> Secrets \cup {None}]
    /\ holds \in [Services -> Secrets \cup {None}]
    /\ up \subseteq Services
    /\ sites \subseteq Block /\ seen \in [Runs -> SUBSET Block]
    /\ wrappers \subseteq Services /\ scanned \in [Runs -> SUBSET Services]
    /\ events \in 0..MaxEvents
    /\ crowd \subseteq Runs /\ blind \subseteq Runs
    /\ raced \in BOOLEAN /\ fresh \subseteq Runs
    /\ kept \subseteq Services /\ current \subseteq Services
    /\ removal \in [Services -> {"none", "down", "filtered", "stranded", "moved"}]
    /\ copy \subseteq Block
    /\ spoilt \in BOOLEAN /\ mixed \in BOOLEAN /\ doubtful \in BOOLEAN
    /\ noted \subseteq Services /\ served \subseteq Services

(* A host on which these services were installed, one after another.       *)
InitWith(there, k) ==
    LET paired == IF Gateway \in there THEN {Gateway, Chat} \cap there ELSE {}
    IN  /\ up = there /\ wrappers = there /\ noted = there
        /\ secret = IF paired = {} THEN None ELSE k
        /\ env = [s \in Services |-> IF s \in paired THEN k ELSE None]
        /\ holds = env /\ kept = paired /\ current = paired

Init ==
    /\ \E k \in Secrets : \E there \in Before : InitWith(there, k)
    /\ stage = [r \in Runs |-> "idle"] /\ svc = [r \in Runs |-> None]
    /\ asked = [r \in Runs |-> {}] /\ recorded = {}
    /\ key = [r \in Runs |-> None]
    /\ sites = {} /\ seen = [r \in Runs |-> {}] /\ scanned = [r \in Runs |-> {}]
    /\ events = 0
    /\ crowd = {} /\ blind = {} /\ raced = FALSE /\ fresh = {}
    /\ removal = [s \in Services |-> "none"] /\ copy = {}
    /\ spoilt = FALSE /\ mixed = FALSE /\ doubtful = FALSE /\ served = {}

Working == {r \in Runs : stage[r] \notin Apart}

Goes(r, from, to) == stage[r] = from /\ stage' = [stage EXCEPT ![r] = to]

Removing == \E s \in Services : removal[s] # "none"

(* A run that starts to work while others do, or an uninstall.             *)
Joins(r) ==
    crowd' = IF Working = {} /\ ~Removing THEN crowd ELSE crowd \cup Working \cup {r}

(* Runs that are over, with all they knew.                                 *)
Forgotten(f, gone, nothing) == [r \in Runs |-> IF r \in gone THEN nothing ELSE f[r]]
Over(gone) ==
    /\ stage' = Forgotten(stage, gone, "over")
    /\ svc' = Forgotten(svc, gone, None) /\ asked' = Forgotten(asked, gone, {})
    /\ key' = Forgotten(key, gone, None)
    /\ seen' = Forgotten(seen, gone, {}) /\ scanned' = Forgotten(scanned, gone, {})
    /\ recorded' = recorded \ gone
    /\ fresh' = fresh \ gone /\ crowd' = crowd \ gone /\ blind' = blind \ gone
    /\ UNCHANGED <<secret, env, holds, raced, kept, current, up, sites, mixed, wrappers,
                   doubtful, removalVars>>

-----------------------------------------------------------------------------
(* Admission                                                               *)

(* conflicting_names: names some other block serves.  A block of the same  *)
(* names is ours, unless it says it is somebody else's.                    *)
Conflict(file, names, owner) ==
    \E b \in file : ~(b.names = names /\ b.owner = owner) /\ b.names \cap names # {}

(* The preflight, of which only the names can change meanwhile; a refused  *)
(* request leaves no trace.                                                *)
InstallService(r) ==
    /\ Goes(r, "idle", "looking")
    /\ \E s \in Services : \E names \in Headers[s] :
          /\ ~Conflict(sites, names, s)
          /\ svc' = [svc EXCEPT ![r] = s]
          /\ asked' = [asked EXCEPT ![r] = names]
    /\ UNCHANGED <<recorded, secretVars, up, siteVars, surfaceVars, successVars, removalVars,
                   events, crowd>>

(* ProvisionHost renders the host's surface without installing anything.   *)
ProvisionHost(r) ==
    /\ Goes(r, "idle", "surveying") /\ Joins(r)
    /\ UNCHANGED <<requestVars, recorded, secretVars, up, siteVars, surfaceVars, successVars,
                   removalVars, events>>

LookForRun(r) ==
    /\ stage[r] = "looking"
    /\ IF \E o \in recorded : svc[o] = svc[r]
       THEN Over({r}) /\ UNCHANGED <<spoilt, successVars, events>>
       ELSE /\ Goes(r, "looking", "opening")
            /\ UNCHANGED <<requestVars, recorded, secretVars, up, siteVars, surfaceVars,
                           successVars, removalVars, events, crowd>>

(* A journal that cannot be opened records nothing and stops nobody.       *)
OpenJournal(r) ==
    /\ Goes(r, "opening", "starting") /\ Joins(r)
    /\ recorded' \in {recorded, recorded \cup {r}}
    /\ UNCHANGED <<requestVars, secretVars, up, siteVars, surfaceVars, successVars, removalVars,
                   events>>

-----------------------------------------------------------------------------
(* The steps of a service                                                  *)

OnlyService ==
    UNCHANGED <<requestVars, recorded, siteVars, surfaceVars, successVars, removalVars,
                events, crowd>>

(* Packages, directories and the compose file.  The chat asks docker       *)
(* whether there is a gateway, and takes an error for a no.                *)
Start(r) ==
    /\ \/ svc[r] = Gateway /\ Goes(r, "starting", "reading")
       \/ svc[r] = Chat /\ Gateway \in up /\ Goes(r, "starting", "reading")
       \/ svc[r] # Gateway /\ Goes(r, "starting", "composing")
       \/ Goes(r, "starting", "failing")
    /\ OnlyService /\ UNCHANGED <<secretVars, up>>

InUse == {secret} \cup {key[r] : r \in Runs} \cup {env[s] : s \in Services}
                  \cup {holds[s] : s \in Services}

(* A secret of its own, perhaps while another run makes one.               *)
Draws(r) ==
    /\ Goes(r, "reading", "minting")
    /\ \E k \in Secrets \ InUse : key' = [key EXCEPT ![r] = k]
    /\ raced' = (raced \/ \E o \in Runs : stage[o] \in {"minting", "writing"})

(* Slip: a secret is made for every install.                               *)
ReadSecretAnew(r) ==
    /\ Draws(r) /\ fresh' = fresh \cup {r}
    /\ OnlyService /\ UNCHANGED <<secret, env, holds, kept, current, up>>

(* ensure_shared_secret: what is on disk, or one of its own.               *)
ReadSecret(r) ==
    /\ \/ secret # None /\ Goes(r, "reading", "keeping")
          /\ key' = [key EXCEPT ![r] = secret] /\ UNCHANGED raced
       \/ secret = None /\ Draws(r)
    /\ fresh' = fresh \cup {r}
    /\ OnlyService /\ UNCHANGED <<secret, env, holds, kept, current, up>>

TruncateSecret(r) ==
    /\ \/ Goes(r, "minting", "writing") /\ secret' = None
       \/ Goes(r, "minting", "failing") /\ UNCHANGED secret
    /\ OnlyService /\ UNCHANGED <<key, env, holds, raced, fresh, kept, current, up>>

WriteSecret(r) ==
    /\ \/ Goes(r, "writing", "keeping") /\ secret' = key[r]
       \/ Goes(r, "writing", "failing") /\ secret' \in {secret, key[r]}
    /\ OnlyService /\ UNCHANGED <<key, env, holds, raced, fresh, kept, current, up>>

(* set_env_value writes the whole .env anew.                               *)
KeepSecret(r) ==
    /\ \/ /\ Goes(r, "keeping", "composing") \/ Goes(r, "keeping", "failing")
          /\ env' = [env EXCEPT ![svc[r]] = key[r]]
          /\ kept' = IF r \in fresh THEN kept \cup {svc[r]} ELSE kept \ {svc[r]}
       \/ /\ Goes(r, "keeping", "failing") /\ env' \in {env, [env EXCEPT ![svc[r]] = None]}
          /\ UNCHANGED kept
    /\ key' = [key EXCEPT ![r] = None] /\ fresh' = fresh \ {r}
    /\ OnlyService /\ UNCHANGED <<secret, holds, raced, current, up>>

(* Pull and up: a container that starts takes the .env as it is.           *)
Compose(r) ==
    /\ \/ /\ Goes(r, "composing", "merging") \/ Goes(r, "composing", "failing")
          /\ up' = up \cup {svc[r]}
          /\ holds' = [holds EXCEPT ![svc[r]] = env[svc[r]]]
          /\ current' = IF svc[r] \in kept THEN current \cup {svc[r]} ELSE current \ {svc[r]}
       \/ Goes(r, "composing", "failing") /\ UNCHANGED <<up, holds, current>>
    /\ OnlyService /\ UNCHANGED <<secret, key, env, raced, fresh, kept>>

-----------------------------------------------------------------------------
(* The site                                                                *)

OnlySite ==
    UNCHANGED <<requestVars, recorded, secretVars, up, surfaceVars, successVars, removalVars,
                events, crowd>>

Judges(r) ==
    /\ asked[r] # {} /\ Goes(r, "merging", "judged")
    /\ seen' = [seen EXCEPT ![r] = sites]
    /\ UNCHANGED <<sites, spoilt, mixed>>

(* Slip: the names were judged before the run began.                       *)
ReadSitesOnly(r) ==
    /\ Judges(r) \/ (asked[r] = {} /\ Goes(r, "merging", "surveying") /\ UNCHANGED siteVars)
    /\ OnlySite

(* write_caddy_site: the file is read and judged by its names ...          *)
ReadSites(r) ==
    /\ \/ asked[r] = {} /\ Goes(r, "merging", "surveying") /\ UNCHANGED siteVars
       \/ Conflict(sites, asked[r], svc[r]) /\ Goes(r, "merging", "failing") /\ UNCHANGED siteVars
       \/ ~Conflict(sites, asked[r], svc[r]) /\ Judges(r)
    /\ OnlySite

(* ... and written anew: truncated as it is opened, ...                    *)
TruncateSites(r) ==
    /\ Goes(r, "judged", "truncated")
    /\ sites' = {} /\ spoilt' = (spoilt \/ r \in crowd)
    /\ UNCHANGED <<seen, mixed>> /\ OnlySite

(* merge_site replaces the block of the same names.                        *)
Merged(file, names, owner) ==
    {b \in file : b.names # names} \cup {[owner |-> owner, names |-> names]}

(* ... then written from its beginning, over what another run has written  *)
(* there since, whose end may stick out.  A write that fails may leave a   *)
(* part; one to a file that was replaced meanwhile is lost.  A reload may  *)
(* fail after it.                                                          *)
WriteSites(r) ==
    LET new == Merged(seen[r], asked[r], svc[r])
    IN  /\ \/ /\ Goes(r, "truncated", "surveying") \/ Goes(r, "truncated", "failing")
              /\ \E rest \in SUBSET sites : sites' = new \cup rest
              /\ mixed' = (mixed \/ sites # {})
              /\ UNCHANGED spoilt
           \/ /\ Goes(r, "truncated", "failing")
              /\ \E part \in SUBSET new, rest \in SUBSET sites : sites' = part \cup rest
              /\ mixed' = (mixed \/ sites # {}) /\ spoilt' = TRUE
           \/ /\ Goes(r, "adrift", "surveying") \/ Goes(r, "adrift", "failing")
              /\ UNCHANGED <<sites, spoilt, mixed>>
        /\ seen' = [seen EXCEPT ![r] = {}]
        /\ OnlySite

-----------------------------------------------------------------------------
(* The wrappers                                                            *)

OnlySurface ==
    UNCHANGED <<requestVars, recorded, secretVars, up, siteVars, successVars, removalVars,
                events, crowd>>

Installed(r) == {svc[r]} \ {None}

(* Slip: docker is not asked.                                              *)
SurveyOwn(r) ==
    /\ Goes(r, "surveying", "rendering")
    /\ scanned' = [scanned EXCEPT ![r] = Installed(r)]
    /\ UNCHANGED <<wrappers, blind, doubtful>> /\ OnlySurface

(* host_service_ids: what docker shows and what was just installed; a scan *)
(* that fails shows nothing.  A request without a role renders nothing.    *)
Survey(r) ==
    /\ \/ Goes(r, "surveying", "bare") /\ UNCHANGED <<scanned, blind>>
       \/ /\ Goes(r, "surveying", "rendering")
          /\ \/ scanned' = [scanned EXCEPT ![r] = up \cup Installed(r)] /\ UNCHANGED blind
             \/ scanned' = [scanned EXCEPT ![r] = Installed(r)] /\ blind' = blind \cup {r}
    /\ UNCHANGED <<wrappers, doubtful>> /\ OnlySurface

(* The wrappers are written over one by one: in between, each is the old   *)
(* one, cut short, or the new one ...                                      *)
StartRender(r) ==
    /\ Goes(r, "rendering", "halfway")
    /\ wrappers' \in {wrappers, {}, scanned[r]} /\ doubtful' = TRUE
    /\ UNCHANGED <<scanned, blind>> /\ OnlySurface

(* ... and stays so, when one cannot be written.                           *)
Render(r) ==
    /\ \/ /\ Goes(r, "halfway", "closing")
          /\ wrappers' = scanned[r] /\ doubtful' = (r \in crowd \cup blind)
       \/ /\ Goes(r, "halfway", "failing")
          /\ UNCHANGED <<wrappers, doubtful>>
    /\ scanned' = [scanned EXCEPT ![r] = {}] /\ blind' = blind \ {r}
    /\ OnlySurface

(* The status is read again, the client told and the journal closed.       *)
Close(r) ==
    /\ \/ /\ stage[r] \in {"closing", "bare"}
          /\ LET done == IF r \in crowd THEN {} ELSE Installed(r) \cap up
             IN  /\ noted'  = IF stage[r] = "closing" THEN noted \cup done ELSE noted
                 /\ served' = IF asked[r] # {} THEN served \cup done ELSE served
       \/ stage[r] = "failing" /\ UNCHANGED successVars
    /\ Over({r}) /\ UNCHANGED <<spoilt, events>>

-----------------------------------------------------------------------------
(* The world                                                               *)

(* The agent dies with all of its runs, and starts again.                  *)
AgentDies ==
    /\ events < MaxEvents /\ events' = events + 1
    /\ Over({r \in Runs : stage[r] # "idle"})
    /\ spoilt' = (spoilt \/ \E r \in Runs : stage[r] = "truncated")
    /\ UNCHANGED successVars

(* The uninstall wrapper stops a service's containers, or goes on without. *)
(* It writes no wrapper, and no claim keeps it from a service that is      *)
(* being installed; two of them may cut each other's copy of the Caddyfile.*)
Remove(s) ==
    /\ removal[s] = "none" /\ removal' = [removal EXCEPT ![s] = "down"]
    /\ s \in wrappers /\ events < MaxEvents /\ events' = events + 1
    /\ \/ up' = up \ {s} /\ holds' = [holds EXCEPT ![s] = None]
       \/ UNCHANGED <<up, holds>>
    /\ crowd' = crowd \cup Working
    /\ spoilt' = (spoilt \/ Removing) /\ mixed' = (mixed \/ Removing)
    /\ noted' = noted \ {s} /\ served' = served \ {s}
    /\ UNCHANGED <<stage, requestVars, recorded, secret, key, env, raced, fresh, kept, current,
                   sites, seen, surfaceVars, copy>>

OnlyRemoval ==
    UNCHANGED <<requestVars, recorded, key, holds, raced, up, seen, surfaceVars, successVars,
                events, crowd>>

(* remove_caddy_site filters the Caddyfile into a copy, one for all ...    *)
FilterSites(s) ==
    /\ removal[s] = "down" /\ removal' = [removal EXCEPT ![s] = "filtered"]
    /\ \E gone \in SUBSET {b \in sites : b.owner = s} : copy' = sites \ gone
    /\ spoilt' = (spoilt \/ \E r \in Runs : stage[r] = "truncated")
    /\ UNCHANGED <<stage, secretVars, sites, mixed>> /\ OnlyRemoval

(* ... and moves that over the file, whoever has it open or has written it *)
(* since; another wrapper then finds no copy to move.                      *)
MoveSites(s) ==
    /\ removal[s] = "filtered"
    /\ removal' = [x \in Services |-> IF x = s THEN "moved"
                                      ELSE IF removal[x] = "filtered" THEN "stranded"
                                      ELSE removal[x]]
    /\ sites' = copy /\ copy' = {}
    /\ stage' = [r \in Runs |-> IF stage[r] = "truncated" THEN "adrift" ELSE stage[r]]
    /\ UNCHANGED <<secretVars, spoilt, mixed>> /\ OnlyRemoval

(* With a purge the .env goes, and the gateway's secret.                   *)
Purge(s) ==
    /\ removal[s] \in {"down", "moved"} /\ removal' = [removal EXCEPT ![s] = "none"]
    /\ env' = [env EXCEPT ![s] = None]
    /\ IF s = Gateway THEN secret' = None /\ fresh' = {} /\ kept' = {} /\ current' = {}
       ELSE UNCHANGED <<secret, fresh, kept, current>>
    /\ UNCHANGED <<stage, sites, spoilt, mixed, copy>> /\ OnlyRemoval

(* Without one it ends here, and wherever it fails or is killed.           *)
EndRemoval(s) ==
    /\ removal[s] # "none" /\ removal' = [removal EXCEPT ![s] = "none"]
    /\ copy' = IF \E x \in Services \ {s} : removal[x] = "filtered" THEN copy ELSE {}
    /\ UNCHANGED <<stage, secretVars, sites, spoilt, mixed>> /\ OnlyRemoval

Removal(s) == Remove(s) \/ FilterSites(s) \/ MoveSites(s) \/ Purge(s) \/ EndRemoval(s)

RunStep(r) ==
    \/ InstallService(r) \/ ProvisionHost(r) \/ LookForRun(r) \/ OpenJournal(r)
    \/ Start(r) \/ ReadSecret(r) \/ TruncateSecret(r) \/ WriteSecret(r) \/ KeepSecret(r)
    \/ Compose(r) \/ ReadSites(r) \/ TruncateSites(r) \/ WriteSites(r)
    \/ Survey(r) \/ StartRender(r) \/ Render(r) \/ Close(r)

(* Every run may be over.                                                  *)
Next == AgentDies \/ (\E s \in Services : Removal(s)) \/ \E r \in Runs : RunStep(r)

Spec == Init /\ [][Next]_vars

-----------------------------------------------------------------------------
(* Properties                                                              *)

(* A secret that was handed out is never replaced: an end that has started *)
(* with one, and whose secret was not purged since, holds what is on disk, *)
(* through failed writes, deaths and re-installs, unless two runs once     *)
(* made one at the same time (install/llm_keys.rs:303-341).                *)
SecretsAgree ==
    ~raced => \A s \in {Gateway, Chat} \cap current : holds[s] \in {None, secret}

(* When nobody is at work, the host's surface has what is on the host: the *)
(* wrappers name every installed service, or they were last written by a   *)
(* run that failed, overlapped with another or could not see the host; and *)
(* every service that was given a site has one, unless a Caddyfile was cut *)
(* short or written by a run beside another or beside an uninstall, or two *)
(* uninstalls overlapped (install/execute.rs:2705-2790, 7712-7759).        *)
SurfaceKnowsAll ==
    Working = {} =>
        /\ doubtful \/ noted \subseteq wrappers
        /\ spoilt \/ \A s \in served : \E b \in sites : b.owner = s

(* No two blocks of the Caddyfile share a name, which would take every     *)
(* site down, however runs, deaths and uninstalls take turns at the file,  *)
(* as long as no run has written where another had written since the run's *)
(* own truncation, and no two uninstalls have overlapped                   *)
(* (install/execute.rs:7733-7759, install/caddy.rs:254-333).               *)
NoNameTwice ==
    mixed \/ \A b, c \in sites : b.names \cap c.names # {} => b = c
=============================================================================
