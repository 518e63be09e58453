--------------------------- MODULE Installs_proofs ---------------------------
(***************************************************************************)
(* Proofs about Installs, for any number of runs, services, names and      *)
(* secrets.  TLC checks the same on two runs.                              *)
(*                                                                         *)
(* One inductive invariant per thing the runs share, each on top of        *)
(* TypeInv: NameInv of the Caddyfile's names, SecretInv of the secret,     *)
(* WrapperInv and SiteInv of what the wrappers and the sites know.  The    *)
(* last two rest on CrowdInv: which runs overlapped, with each other or    *)
(* with an uninstall, is on record.                                        *)
(***************************************************************************)
EXTENDS Installs, TLAPS

(* A run that works on a service has one.                                  *)
Serving == {"looking", "opening", "starting", "reading", "minting", "writing", "keeping",
            "composing", "merging", "judged", "truncated", "adrift"}

(* A run between its reading of the Caddyfile and its writing.             *)
Held == {"judged", "truncated"}

TypeInv ==
    /\ TypeOK
    /\ \A r \in Runs : stage[r] \in Serving => svc[r] \in Services
    /\ \A r \in Runs : stage[r] \in Held => asked[r] # {}

(* No two blocks of a file share a name.                                   *)
Distinct(file) == \A b, c \in file : b.names \cap c.names # {} => b = c

(* What a run has read and judged stays fit to be written back; where      *)
(* nothing was mixed, so do the file and the copy an uninstall moves.      *)
NameInv ==
    /\ \A r \in Runs : stage[r] \in Held => ~Conflict(seen[r], asked[r], svc[r])
    /\ mixed \/
        /\ Distinct(sites) /\ Distinct(copy)
        /\ \A r \in Runs : stage[r] \in Held => Distinct(seen[r])

(* The two ends of the shared secret.                                      *)
Pair == {Gateway, Chat}

(* Where nobody raced, one run at most makes a secret, and only where      *)
(* there is none; what is fresh, kept or current is what is on disk.       *)
SecretInv ==
    /\ \A r \in Runs : stage[r] \in {"minting", "writing"} => key[r] \in Secrets
    /\ raced \/
        /\ \A r \in Runs : stage[r] \in {"minting", "writing"} =>
              /\ secret = None
              /\ \A o \in Runs : stage[o] \in {"minting", "writing"} => o = r
        /\ \A r \in fresh : stage[r] = "keeping" => key[r] = secret /\ secret # None
        /\ \A s \in Pair \cap kept : env[s] \in {None, secret}
        /\ \A s \in Pair \cap current : holds[s] \in {None, secret}

(* Runs that work together know of each other, and of an uninstall.        *)
CrowdInv ==
    /\ \A r, o \in Working : r # o => r \in crowd
    /\ Removing => Working \subseteq crowd

(* What is noted is up and, where nothing is in doubt, in the wrappers; a  *)
(* run that was alone renders all of it, its own service included.         *)
WrapperInv ==
    /\ noted \subseteq up
    /\ doubtful \/ noted \subseteq wrappers
    /\ \A r \in Runs \ crowd :
          /\ stage[r] \in {"rendering", "halfway"} /\ r \notin blind =>
                noted \cup Installed(r) \subseteq scanned[r]
          /\ stage[r] = "closing" => doubtful \/ Installed(r) \subseteq wrappers

(* The file serves s.                                                      *)
HasSite(file, s) == \E b \in file : b.owner = s

(* The stages past the Caddyfile.                                          *)
Sited == {"surveying", "rendering", "halfway", "closing", "bare"}

(* Where nothing was spoilt, the file, or the one copy of it that is being *)
(* written or moved, serves all that is served, and each run past it its   *)
(* own.  What is being removed is not served.                              *)
SiteInv ==
    /\ \A r \in Runs : stage[r] = "idle" => asked[r] = {}
    /\ \A r \in Runs : stage[r] = "adrift" => r \in crowd
    /\ \A s \in Services : removal[s] # "none" => s \notin served
    /\ spoilt \/
        /\ \A r \in Runs \ crowd : stage[r] = "judged" => \A s \in served : HasSite(seen[r], s)
        /\ \A r \in Runs : stage[r] = "truncated" =>
              /\ \A s \in served : HasSite(seen[r], s)
              /\ \A o \in Runs : stage[o] = "truncated" => o = r
        /\ (\A r \in Runs : stage[r] # "truncated") => \A s \in served : HasSite(sites, s)
        /\ \A r \in Runs \ crowd :
              stage[r] \in Sited /\ asked[r] # {} => HasSite(sites, svc[r])
        /\ \A s \in Services : removal[s] = "filtered" =>
              /\ \A r \in Runs : stage[r] # "truncated"
              /\ \A x \in served : HasSite(copy, x)

-----------------------------------------------------------------------------
(* Types                                                                   *)

USE InstallsAssumption DEF InstallsAssumption

(* The host starts well typed.                                             *)
LEMMA InitTyped == Init => TypeInv
<1> SUFFICES ASSUME Init PROVE TypeInv
  OBVIOUS
<1>1. PICK k \in Secrets, there \in Before : InitWith(there, k)
  BY DEF Init
<1>2. there \subseteq Services
  BY <1>1
<1>3. env \in [Services -> Secrets \cup {None}] /\ secret \in Secrets \cup {None}
  BY <1>1 DEF InitWith
<1>4. kept \subseteq Services /\ current \subseteq Services /\ holds = env
  BY <1>1, <1>2 DEF InitWith
<1>5. up \subseteq Services /\ wrappers \subseteq Services /\ noted \subseteq Services
  BY <1>1, <1>2 DEF InitWith
<1>6. events \in 0..MaxEvents /\ served \subseteq Services /\ sites \subseteq Block
  BY DEF Init
<1>9. removal \in [Services -> {"none", "down", "filtered", "stranded", "moved"}] /\ copy \subseteq Block
  BY DEF Init
<1>7. /\ stage \in [Runs -> Stages] /\ svc \in [Runs -> Services \cup {None}]
      /\ asked \in [Runs -> Served \cup {{}}] /\ key \in [Runs -> Secrets \cup {None}]
      /\ seen \in [Runs -> SUBSET Block] /\ scanned \in [Runs -> SUBSET Services]
  BY DEF Init, Stages, Apart
<1>8. TypeOK
  BY <1>3, <1>4, <1>5, <1>6, <1>7, <1>9 DEF Init, TypeOK
<1> QED BY <1>8 DEF Init, TypeInv, Serving, Held

(* Runs that end leave everything typed.                                   *)
LEMMA OverTyped ==
    ASSUME TypeInv, NEW gone \in SUBSET Runs, Over(gone),
           spoilt' \in BOOLEAN, events' \in 0..MaxEvents,
           noted' \subseteq Services, served' \subseteq Services
    PROVE  TypeInv'
<1>1. stage' \in [Runs -> Stages] /\ svc' \in [Runs -> Services \cup {None}]
      /\ asked' \in [Runs -> Served \cup {{}}]
  BY DEF TypeInv, TypeOK, Over, Forgotten, Stages, Apart
<1>2. key' \in [Runs -> Secrets \cup {None}] /\ seen' \in [Runs -> SUBSET Block]
      /\ scanned' \in [Runs -> SUBSET Services]
  BY DEF TypeInv, TypeOK, Over, Forgotten, Block
<1>3. \A r \in Runs : r \notin gone => stage'[r] = stage[r] /\ svc'[r] = svc[r] /\ asked'[r] = asked[r]
  BY DEF Over, Forgotten
<1>4. \A r \in gone : stage'[r] = "over"
  BY DEF Over, Forgotten
<1>5. TypeOK'
  BY <1>1, <1>2 DEF TypeInv, TypeOK, Over, Block, removalVars
<1>6. \A r \in Runs : stage'[r] \in Serving => svc'[r] \in Services
  BY <1>3, <1>4 DEF TypeInv, Serving
<1>7. \A r \in Runs : stage'[r] \in Held => asked'[r] # {}
  BY <1>3, <1>4 DEF TypeInv, Held
<1> QED BY <1>5, <1>6, <1>7 DEF TypeInv

(* Every step keeps the types.                                             *)
LEMMA NextTyped == TypeInv /\ [Next]_vars => TypeInv'
<1> SUFFICES ASSUME TypeInv, [Next]_vars PROVE TypeInv'
  OBVIOUS
<1> USE DEF Stages, Apart, removalVars
<1>1. ASSUME NEW r \in Runs, InstallService(r) PROVE TypeInv'
  <2>1. PICK s \in Services : \E names \in Headers[s] :
            svc' = [svc EXCEPT ![r] = s] /\ asked' = [asked EXCEPT ![r] = names]
    BY <1>1 DEF InstallService
  <2>2. \A names \in Headers[s] : names \in Served
    BY DEF Served
  <2> QED BY <1>1, <2>1, <2>2 DEF InstallService, Goes, TypeInv, TypeOK, Serving, Held,
             secretVars, siteVars, surfaceVars, successVars
<1>2. ASSUME NEW r \in Runs, ProvisionHost(r) PROVE TypeInv'
  BY <1>2 DEF ProvisionHost, Goes, Joins, Working, TypeInv, TypeOK, Serving, Held,
     requestVars, secretVars, siteVars, surfaceVars, successVars
<1>3. ASSUME NEW r \in Runs, LookForRun(r) PROVE TypeInv'
  <2>1. CASE Over({r}) /\ UNCHANGED <<spoilt, successVars, events>>
    BY <2>1, OverTyped DEF TypeInv, TypeOK, successVars
  <2>2. CASE Goes(r, "looking", "opening")
               /\ UNCHANGED <<requestVars, recorded, secretVars, up, siteVars, surfaceVars,
                              successVars, removalVars, events, crowd>>
    BY <2>2 DEF Goes, TypeInv, TypeOK, Serving, Held, requestVars, secretVars, siteVars,
       surfaceVars, successVars
  <2> QED BY <1>3, <2>1, <2>2 DEF LookForRun
<1>4. ASSUME NEW r \in Runs, OpenJournal(r) PROVE TypeInv'
  BY <1>4 DEF OpenJournal, Goes, Joins, Working, TypeInv, TypeOK, Serving, Held,
     requestVars, secretVars, siteVars, surfaceVars, successVars
<1>5. ASSUME NEW r \in Runs, Start(r) \/ TruncateSecret(r) \/ WriteSecret(r) PROVE TypeInv'
  BY <1>5 DEF Start, TruncateSecret, WriteSecret, OnlyService, Goes, TypeInv, TypeOK,
     Serving, Held, requestVars, secretVars, siteVars, surfaceVars, successVars
<1>6. ASSUME NEW r \in Runs, ReadSecret(r) PROVE TypeInv'
  <2>1. \E to \in {"keeping", "minting"} : Goes(r, "reading", to)
    BY <1>6 DEF ReadSecret, Draws
  <2>2. /\ stage' \in [Runs -> Stages] /\ UNCHANGED requestVars
        /\ \A q \in Runs : stage'[q] \in Serving => stage[q] \in Serving
        /\ \A q \in Runs : stage'[q] \in Held => stage[q] \in Held
    BY <1>6, <2>1 DEF Goes, ReadSecret, OnlyService, TypeInv, TypeOK, Serving, Held
  <2>3. key' \in [Runs -> Secrets \cup {None}] /\ raced' \in BOOLEAN /\ fresh' \subseteq Runs
    <3>1. raced' \in BOOLEAN
      BY <1>6 DEF ReadSecret, Draws, TypeInv, TypeOK
    <3>2. fresh' \subseteq Runs /\ secret \in Secrets \cup {None}
      BY <1>6 DEF ReadSecret, TypeInv, TypeOK
    <3>3. \E k \in Secrets \cup {None} : key' = [key EXCEPT ![r] = k]
      BY <1>6, <3>2 DEF ReadSecret, Draws
    <3> QED BY <3>1, <3>2, <3>3 DEF TypeInv, TypeOK
  <2>4. TypeOK'
    BY <1>6, <2>2, <2>3 DEF ReadSecret, OnlyService, TypeInv, TypeOK, requestVars, siteVars,
       surfaceVars, successVars
  <2> QED BY <2>2, <2>4 DEF TypeInv, requestVars
<1>7. ASSUME NEW r \in Runs, KeepSecret(r) PROVE TypeInv'
  BY <1>7 DEF KeepSecret, OnlyService, Goes, TypeInv, TypeOK,
     Serving, Held, requestVars, siteVars, surfaceVars, successVars
<1>8. ASSUME NEW r \in Runs, Compose(r) PROVE TypeInv'
  BY <1>8 DEF Compose, OnlyService, Goes, TypeInv, TypeOK,
     Serving, Held, requestVars, siteVars, surfaceVars, successVars
<1>9. ASSUME NEW r \in Runs, ReadSites(r) \/ TruncateSites(r) PROVE TypeInv'
  <2>1. UNCHANGED requestVars
    BY <1>9 DEF ReadSites, TruncateSites, OnlySite
  <2>2. \/ Goes(r, "merging", "surveying") \/ Goes(r, "merging", "failing")
        \/ Goes(r, "merging", "judged") /\ asked[r] # {}
        \/ Goes(r, "judged", "truncated")
    BY <1>9 DEF ReadSites, TruncateSites, Judges
  <2>3. /\ stage' \in [Runs -> Stages]
        /\ \A q \in Runs : stage'[q] \in Serving => stage[q] \in Serving
        /\ \A q \in Runs : stage'[q] \in Held => stage[q] \in Held \/ asked[q] # {}
    BY <2>2 DEF Goes, TypeInv, TypeOK, Serving, Held
  <2>4. /\ seen' \in [Runs -> SUBSET Block] /\ sites' \subseteq Block
        /\ spoilt' \in BOOLEAN /\ mixed' \in BOOLEAN
    BY <1>9 DEF ReadSites, TruncateSites, Judges, siteVars, TypeInv, TypeOK
  <2>5. TypeOK'
    BY <1>9, <2>3, <2>4 DEF ReadSites, TruncateSites, OnlySite, TypeInv, TypeOK, requestVars, secretVars,
       surfaceVars, successVars
  <2> QED BY <2>1, <2>3, <2>5 DEF TypeInv, requestVars
<1>10. ASSUME NEW r \in Runs, WriteSites(r) PROVE TypeInv'
  <2>1. UNCHANGED requestVars
    BY <1>10 DEF WriteSites, OnlySite
  <2>2. stage[r] = "truncated" => Merged(seen[r], asked[r], svc[r]) \subseteq Block
    BY DEF Merged, Block, TypeInv, TypeOK, Serving, Held
  <2>3. /\ stage' \in [Runs -> Stages]
        /\ \A q \in Runs : stage'[q] \in Serving => stage[q] \in Serving
        /\ \A q \in Runs : stage'[q] \in Held => stage[q] \in Held
    BY <1>10 DEF WriteSites, Goes, TypeInv, TypeOK, Serving, Held
  <2>4. /\ seen' \in [Runs -> SUBSET Block] /\ sites' \subseteq Block
        /\ spoilt' \in BOOLEAN /\ mixed' \in BOOLEAN
    <3>1. sites' \subseteq Block
      BY <1>10, <2>2 DEF WriteSites, Goes, TypeInv, TypeOK
    <3>2. seen' \in [Runs -> SUBSET Block]
      BY <1>10 DEF WriteSites, TypeInv, TypeOK
    <3>3. spoilt' \in BOOLEAN /\ mixed' \in BOOLEAN
      BY <1>10 DEF WriteSites, TypeInv, TypeOK
    <3> QED BY <3>1, <3>2, <3>3
  <2>5. TypeOK'
    BY <1>10, <2>3, <2>4 DEF WriteSites, OnlySite, TypeInv, TypeOK, requestVars, secretVars,
       surfaceVars, successVars
  <2> QED BY <2>1, <2>3, <2>5 DEF TypeInv, requestVars
<1>11. ASSUME NEW r \in Runs, Survey(r) \/ StartRender(r) \/ Render(r) PROVE TypeInv'
  <2>1. UNCHANGED requestVars
    BY <1>11 DEF Survey, StartRender, Render, OnlySurface
  <2>2. /\ stage' \in [Runs -> Stages]
        /\ \A q \in Runs : stage'[q] \in Serving => stage[q] \in Serving
        /\ \A q \in Runs : stage'[q] \in Held => stage[q] \in Held
    BY <1>11 DEF Survey, StartRender, Render, Goes, TypeInv, TypeOK, Serving, Held
  <2>3. up \cup Installed(r) \subseteq Services /\ scanned[r] \subseteq Services
    BY DEF Installed, TypeInv, TypeOK
  <2>4. /\ scanned' \in [Runs -> SUBSET Services] /\ blind' \subseteq Runs
        /\ wrappers' \subseteq Services /\ doubtful' \in BOOLEAN
    <3>1. doubtful' \in BOOLEAN
      <4>1. \/ doubtful' = doubtful \/ doubtful' = TRUE
            \/ doubtful' = (r \in crowd \cup blind)
        BY <1>11, Zenon DEF Survey, StartRender, Render
      <4>2. (r \in crowd \cup blind) \in BOOLEAN
        OBVIOUS
      <4>3. doubtful \in BOOLEAN
        BY DEF TypeInv, TypeOK
      <4> QED BY <4>1, <4>2, <4>3, Zenon
    <3>2. blind' \subseteq Runs /\ wrappers' \subseteq Services
      BY <1>11, <2>3 DEF Survey, StartRender, Render, TypeInv, TypeOK
    <3>3. scanned' = scanned \/ \E S \in SUBSET Services : scanned' = [scanned EXCEPT ![r] = S]
      BY <1>11, <2>3 DEF Survey, StartRender, Render
    <3> QED BY <3>1, <3>2, <3>3 DEF TypeInv, TypeOK
  <2>5. TypeOK'
    BY <1>11, <2>2, <2>4 DEF Survey, StartRender, Render, OnlySurface, TypeInv, TypeOK, requestVars,
       secretVars, siteVars, successVars
  <2> QED BY <2>1, <2>2, <2>5 DEF TypeInv, requestVars
<1>12. ASSUME NEW r \in Runs, Close(r) PROVE TypeInv'
  <2>1. noted' \subseteq Services /\ served' \subseteq Services
    BY <1>12 DEF Close, TypeInv, TypeOK, successVars
  <2> QED BY <1>12, <2>1, OverTyped DEF Close, TypeInv, TypeOK
<1>13. CASE AgentDies
  <2>1. events' \in 0..MaxEvents
    BY <1>13 DEF AgentDies, TypeInv, TypeOK
  <2> QED BY <1>13, <2>1, OverTyped DEF AgentDies, TypeInv, TypeOK, successVars
<1>14. ASSUME NEW s \in Services, Remove(s) PROVE TypeInv'
  <2>1. events' \in 0..MaxEvents
    BY <1>14 DEF Remove, TypeInv, TypeOK
  <2>2. removal' \in [Services -> {"none", "down", "filtered", "stranded", "moved"}]
    BY <1>14 DEF Remove, TypeInv, TypeOK
  <2>3. spoilt' \in BOOLEAN /\ mixed' \in BOOLEAN
    BY <1>14 DEF Remove, Removing, TypeInv, TypeOK
  <2> QED BY <1>14, <2>1, <2>2, <2>3 DEF Remove, Working, TypeInv, TypeOK, Serving, Held, requestVars,
             siteVars, surfaceVars
<1>16. ASSUME NEW s \in Services, FilterSites(s) \/ Purge(s) \/ EndRemoval(s) PROVE TypeInv'
  <2>1. \E to \in {"none", "filtered"} : removal' = [removal EXCEPT ![s] = to]
    BY <1>16 DEF FilterSites, Purge, EndRemoval
  <2>2. removal' \in [Services -> {"none", "down", "filtered", "stranded", "moved"}]
    BY <2>1 DEF TypeInv, TypeOK
  <2>3. copy' \subseteq Block /\ spoilt' \in BOOLEAN
    BY <1>16 DEF FilterSites, Purge, EndRemoval, TypeInv, TypeOK
  <2>4. /\ env' \in [Services -> Secrets \cup {None}] /\ secret' \in Secrets \cup {None}
        /\ fresh' \subseteq Runs /\ kept' \subseteq Services /\ current' \subseteq Services
    BY <1>16 DEF FilterSites, Purge, EndRemoval, secretVars, TypeInv, TypeOK
  <2>5. UNCHANGED <<stage, requestVars, sites, mixed>> /\ OnlyRemoval
    BY <1>16 DEF FilterSites, Purge, EndRemoval, OnlyRemoval
  <2>6. TypeOK'
    BY <2>2, <2>3, <2>4, <2>5 DEF OnlyRemoval, TypeInv, TypeOK, requestVars, surfaceVars,
       successVars
  <2> QED BY <2>5, <2>6 DEF TypeInv, Serving, Held, requestVars
<1>17. ASSUME NEW s \in Services, MoveSites(s) PROVE TypeInv'
  <2>1. removal' \in [Services -> {"none", "down", "filtered", "stranded", "moved"}]
    BY <1>17 DEF MoveSites, TypeInv, TypeOK
  <2>2. /\ stage' \in [Runs -> Stages]
        /\ \A q \in Runs : stage'[q] \in Serving => stage[q] \in Serving
        /\ \A q \in Runs : stage'[q] \in Held => stage[q] \in Held
    BY <1>17 DEF MoveSites, TypeInv, TypeOK, Serving, Held
  <2>3. TypeOK'
    BY <1>17, <2>1, <2>2 DEF MoveSites, OnlyRemoval, TypeInv, TypeOK, requestVars, secretVars,
       surfaceVars, successVars
  <2> QED BY <1>17, <2>2, <2>3 DEF MoveSites, OnlyRemoval, TypeInv, requestVars
<1>15. CASE UNCHANGED vars
  BY <1>15 DEF vars, TypeInv, TypeOK, requestVars, secretVars, siteVars, surfaceVars,
     successVars
<1> QED BY <1>1, <1>2, <1>3, <1>4, <1>5, <1>6, <1>7, <1>8, <1>9, <1>10, <1>11, <1>12,
           <1>13, <1>14, <1>15, <1>16, <1>17 DEF Next, RunStep, Removal

(* Every variable keeps its type.                                          *)
THEOREM TypeCorrect == Spec => []TypeOK
<1>1. TypeInv => TypeOK
  BY DEF TypeInv
<1> QED BY <1>1, InitTyped, NextTyped, PTL DEF Spec

-----------------------------------------------------------------------------
(* Names                                                                   *)

(* A file that was read and judged is still distinct with the new block.   *)
LEMMA MergedDistinct ==
    ASSUME NEW file, NEW names, NEW owner, Distinct(file), ~Conflict(file, names, owner)
    PROVE  Distinct(Merged(file, names, owner))
<1> DEFINE new == [owner |-> owner, names |-> names]
<1>1. new.names = names
  OBVIOUS
<1>2. \A b \in file : b.names # names => b.names \cap names = {}
  BY DEF Conflict
<1>3. \A b \in Merged(file, names, owner) : b = new \/ (b \in file /\ b.names \cap names = {})
  BY <1>2 DEF Merged
<1> HIDE DEF new
<1> QED BY <1>1, <1>3 DEF Distinct

(* Every step keeps the file's names apart.                                *)
LEMMA NextNames == TypeInv /\ NameInv /\ [Next]_vars => NameInv'
<1> SUFFICES ASSUME TypeInv, NameInv, [Next]_vars PROVE NameInv'
  OBVIOUS
<1> USE DEF removalVars
<1>0. /\ stage \in [Runs -> Stages] /\ seen \in [Runs -> SUBSET Block]
      /\ svc \in [Runs -> Services \cup {None}] /\ asked \in [Runs -> Served \cup {{}}]
      /\ mixed \in BOOLEAN
  BY DEF TypeInv, TypeOK
<1>1. ASSUME mixed' = mixed,
             mixed \/ (Distinct(sites) /\ Distinct(copy) => Distinct(sites') /\ Distinct(copy')),
             \A r \in Runs : stage'[r] \in Held =>
                /\ stage[r] \in Held /\ seen'[r] = seen[r]
                /\ asked'[r] = asked[r] /\ svc'[r] = svc[r]
      PROVE  NameInv'
  BY <1>0, <1>1 DEF NameInv, Conflict
<1>2. ASSUME NEW gone, Over(gone) PROVE NameInv'
  <2>1. UNCHANGED <<sites, copy, mixed>>
    BY <1>2 DEF Over
  <2>2. \A r \in Runs : stage'[r] \in Held =>
            /\ stage[r] \in Held /\ seen'[r] = seen[r]
            /\ asked'[r] = asked[r] /\ svc'[r] = svc[r]
    BY <1>2 DEF Over, Forgotten, Held
  <2> QED BY <1>1, <2>1, <2>2
<1>3. ASSUME NEW r \in Runs, InstallService(r) PROVE NameInv'
  <2>1. \A q \in Runs : stage'[q] \in Held =>
            /\ stage[q] \in Held /\ seen'[q] = seen[q]
            /\ asked'[q] = asked[q] /\ svc'[q] = svc[q]
    BY <1>0, <1>3 DEF InstallService, Goes, siteVars, Held
  <2>2. UNCHANGED <<sites, copy, mixed>>
    BY <1>3 DEF InstallService, siteVars
  <2> QED BY <1>1, <2>1, <2>2
<1>4. ASSUME NEW r \in Runs, LookForRun(r) PROVE NameInv'
  <2>1. CASE Goes(r, "looking", "opening") /\ UNCHANGED <<requestVars, siteVars, copy>>
    <3>1. \A q \in Runs : stage'[q] \in Held =>
              /\ stage[q] \in Held /\ seen'[q] = seen[q]
              /\ asked'[q] = asked[q] /\ svc'[q] = svc[q]
      BY <1>0, <2>1 DEF Goes, siteVars, requestVars, Held
    <3> QED BY <1>1, <2>1, <3>1 DEF siteVars
  <2> QED BY <1>2, <1>4, <2>1 DEF LookForRun
<1>5. ASSUME NEW r \in Runs,
             ProvisionHost(r) \/ OpenJournal(r) \/ Start(r) \/ ReadSecret(r)
               \/ TruncateSecret(r) \/ WriteSecret(r) \/ KeepSecret(r) \/ Compose(r)
               \/ Survey(r) \/ StartRender(r) \/ Render(r)
      PROVE  NameInv'
  <2>1. UNCHANGED <<requestVars, siteVars, copy>>
    BY <1>5 DEF ProvisionHost, OpenJournal, Start, ReadSecret, TruncateSecret, WriteSecret,
       KeepSecret, Compose, Survey, StartRender, Render, OnlyService, OnlySurface
  <2>2. \E from, to \in Stages : to \notin Held /\ Goes(r, from, to)
    BY <1>5 DEF ProvisionHost, OpenJournal, Start, ReadSecret, Draws, TruncateSecret,
       WriteSecret, KeepSecret, Compose, Survey, StartRender, Render, Stages, Apart, Held
  <2>3. \A q \in Runs : stage'[q] \in Held => stage[q] \in Held
    BY <1>0, <2>2 DEF Goes
  <2> QED BY <1>1, <2>1, <2>3 DEF siteVars, requestVars
<1>6. ASSUME NEW r \in Runs, ReadSites(r) PROVE NameInv'
  <2>1. UNCHANGED <<requestVars, copy, mixed>>
    BY <1>6 DEF ReadSites, Judges, OnlySite, siteVars
  <2>2. CASE UNCHANGED siteVars /\ \E to \in {"surveying", "failing"} : Goes(r, "merging", to)
    <3>1. \A q \in Runs : stage'[q] \in Held => stage[q] \in Held
      BY <1>0, <2>2 DEF Goes, Held
    <3> QED BY <1>1, <2>1, <2>2, <3>1 DEF siteVars, requestVars
  <2>3. CASE ~Conflict(sites, asked[r], svc[r]) /\ Judges(r)
    <3>1. sites' = sites /\ seen' = [seen EXCEPT ![r] = sites]
      BY <2>3 DEF Judges
    <3>2. \A q \in Runs : q # r => stage'[q] = stage[q]
      BY <1>0, <2>3 DEF Judges, Goes
    <3>3. \A q \in Runs : stage'[q] \in Held => ~Conflict(seen'[q], asked'[q], svc'[q])
      BY <1>0, <2>1, <2>3, <3>1, <3>2 DEF NameInv, requestVars
    <3>4. mixed \/ \A q \in Runs : stage'[q] \in Held => Distinct(seen'[q])
      BY <1>0, <3>1, <3>2 DEF NameInv
    <3>5. \A q \in Runs : stage'[q] \in Held => ~Conflict(seen[q], asked[q], svc[q])'
      BY <3>3 DEF Conflict
    <3> QED BY <2>1, <3>1, <3>4, <3>5 DEF NameInv, Distinct
  <2> QED BY <1>6, <2>2, <2>3 DEF ReadSites
<1>7. ASSUME NEW r \in Runs, TruncateSites(r) PROVE NameInv'
  <2>1. UNCHANGED <<requestVars, copy, mixed, seen>> /\ sites' = {}
    BY <1>7 DEF TruncateSites, OnlySite
  <2>2. \A q \in Runs : stage'[q] \in Held => stage[q] \in Held
    BY <1>0, <1>7 DEF TruncateSites, Goes, Held
  <2>3. Distinct(sites') /\ Distinct(copy') = Distinct(copy)
    BY <2>1 DEF Distinct
  <2> QED BY <1>1, <2>1, <2>2, <2>3 DEF requestVars
<1>8. ASSUME NEW r \in Runs, WriteSites(r) PROVE NameInv'
  <2>1. UNCHANGED <<requestVars, copy>> /\ seen' = [seen EXCEPT ![r] = {}]
    BY <1>8 DEF WriteSites, OnlySite
  <2>2. \A q \in Runs : stage'[q] \in Held => stage[q] \in Held /\ q # r
    BY <1>0, <1>8 DEF WriteSites, Goes, Held
  <2>3. \A q \in Runs : stage'[q] \in Held =>
            /\ stage[q] \in Held /\ seen'[q] = seen[q]
            /\ asked'[q] = asked[q] /\ svc'[q] = svc[q]
    BY <1>0, <2>1, <2>2 DEF requestVars
  <2>4. CASE UNCHANGED <<sites, mixed>>
    BY <1>1, <2>1, <2>3, <2>4
  <2>5. CASE /\ stage[r] = "truncated" /\ mixed' = (mixed \/ sites # {})
             /\ \E part \in SUBSET Merged(seen[r], asked[r], svc[r]), rest \in SUBSET sites :
                    sites' = part \cup rest
    <3>1. PICK part \in SUBSET Merged(seen[r], asked[r], svc[r]), rest \in SUBSET sites :
              sites' = part \cup rest
      BY <2>5
    <3>2. CASE mixed \/ sites # {}
      <4>1. mixed'
        BY <2>5, <3>2
      <4>2. \A q \in Runs : stage'[q] \in Held => ~Conflict(seen[q], asked[q], svc[q])'
        BY <2>3 DEF NameInv, Conflict
      <4> QED BY <4>1, <4>2 DEF NameInv
    <3>3. CASE ~mixed /\ sites = {}
      <4>1. ~Conflict(seen[r], asked[r], svc[r]) /\ Distinct(seen[r])
        BY <2>5, <3>3 DEF NameInv, Held
      <4>2. Distinct(Merged(seen[r], asked[r], svc[r]))
        BY <4>1, MergedDistinct
      <4>3. sites' \subseteq Merged(seen[r], asked[r], svc[r])
        BY <3>1, <3>3
      <4>4. Distinct(sites')
        BY <4>2, <4>3 DEF Distinct
      <4>5. mixed' = mixed
        BY <1>0, <2>5, <3>3
      <4> QED BY <1>1, <2>1, <2>3, <4>4, <4>5
    <3> QED BY <1>0, <3>2, <3>3
  <2>6. \/ UNCHANGED <<sites, mixed>>
        \/ /\ stage[r] = "truncated" /\ mixed' = (mixed \/ sites # {})
           /\ \E part \in SUBSET Merged(seen[r], asked[r], svc[r]), rest \in SUBSET sites :
                  sites' = part \cup rest
    BY <1>8 DEF WriteSites, Goes
  <2> QED BY <2>4, <2>5, <2>6
<1>9. ASSUME NEW r \in Runs, Close(r) PROVE NameInv'
  BY <1>2, <1>9 DEF Close
<1>10. CASE AgentDies
  BY <1>2, <1>10 DEF AgentDies
<1>11. ASSUME NEW s \in Services, Removal(s) PROVE NameInv'
  <2>1. UNCHANGED <<requestVars, seen>> /\ (mixed' \/ UNCHANGED mixed)
    <3>1. UNCHANGED <<requestVars, seen>>
      BY <1>11 DEF Removal, Remove, FilterSites, MoveSites, Purge, EndRemoval, OnlyRemoval
    <3>2. UNCHANGED mixed \/ mixed' = (mixed \/ Removing)
      BY <1>11 DEF Removal, Remove, FilterSites, MoveSites, Purge, EndRemoval
    <3>3. Removing \in BOOLEAN
      BY DEF Removing
    <3> QED BY <1>0, <3>1, <3>2, <3>3
  <2>2. \A q \in Runs : stage'[q] \in Held => stage[q] \in Held
    BY <1>0, <1>11 DEF Removal, Remove, FilterSites, MoveSites, Purge, EndRemoval, Held
  <2>3. sites' \in {sites, copy} /\ (copy' \in {copy, {}} \/ \E gone : copy' = sites \ gone)
    BY <1>11 DEF Removal, Remove, FilterSites, MoveSites, Purge, EndRemoval, siteVars
  <2>4. Distinct(sites) /\ Distinct(copy) => Distinct(sites') /\ Distinct(copy')
    BY <2>3 DEF Distinct
  <2>5. \A q \in Runs : stage'[q] \in Held => ~Conflict(seen[q], asked[q], svc[q])'
    BY <2>1, <2>2 DEF NameInv, Conflict, requestVars
  <2>6. CASE mixed'
    BY <2>5, <2>6 DEF NameInv
  <2>7. CASE UNCHANGED mixed
    BY <1>1, <2>1, <2>2, <2>4, <2>7 DEF requestVars
  <2> QED BY <2>1, <2>6, <2>7
<1>12. CASE UNCHANGED vars
  BY <1>1, <1>12 DEF vars, requestVars, siteVars
<1> QED BY <1>3, <1>4, <1>5, <1>6, <1>7, <1>8, <1>9, <1>10, <1>11, <1>12 DEF Next, RunStep

(* The host starts with no sites at all.                                   *)
LEMMA InitNames == Init => NameInv
BY DEF Init, NameInv, Distinct, Held

(* No two blocks of the Caddyfile share a name, for any number of installs *)
(* and uninstalls that take turns at it, deaths and writes cut short, as   *)
(* long as no install has written where another had written since its own  *)
(* truncation and no two uninstalls have overlapped                        *)
(* (install/execute.rs:7733-7759).                                         *)
THEOREM NamesAreServedOnce == Spec => []NoNameTwice
<1>1. NameInv => NoNameTwice
  BY DEF NameInv, NoNameTwice, Distinct
<1> QED BY <1>1, InitTyped, NextTyped, InitNames, NextNames, PTL DEF Spec

-----------------------------------------------------------------------------
(* The secret                                                              *)

(* The stages of a run that makes a secret.                                *)
Making == {"minting", "writing"}

(* A step that leaves the secret and both ends alone, and takes no run to  *)
(* where it makes or keeps one.                                            *)
LEMMA QuietSecret ==
    ASSUME SecretInv, UNCHANGED <<secret, env, holds, raced, kept, current>>,
           fresh' \subseteq fresh, fresh \subseteq Runs,
           \A r \in Runs : stage'[r] \in Making \cup {"keeping"} =>
              stage'[r] = stage[r] /\ key'[r] = key[r]
    PROVE  SecretInv'
BY DEF SecretInv, Making, Pair

(* Runs that end.                                                          *)
LEMMA OverSecret ==
    ASSUME TypeInv, SecretInv, NEW gone, Over(gone)
    PROVE  SecretInv'
<1>1. /\ UNCHANGED <<secret, env, holds, raced, kept, current>> /\ fresh' \subseteq fresh
      /\ fresh \subseteq Runs
  BY DEF Over, TypeInv, TypeOK
<1>2. \A r \in Runs : stage'[r] \in Making \cup {"keeping"} =>
          stage'[r] = stage[r] /\ key'[r] = key[r]
  BY DEF Over, Forgotten, Making
<1> QED BY <1>1, <1>2, QuietSecret

(* Every step keeps the secret one.                                        *)
LEMMA NextSecret == TypeInv /\ SecretInv /\ [Next]_vars => SecretInv'
<1> SUFFICES ASSUME TypeInv, SecretInv, [Next]_vars PROVE SecretInv'
  OBVIOUS
<1>0. /\ stage \in [Runs -> Stages] /\ key \in [Runs -> Secrets \cup {None}]
      /\ env \in [Services -> Secrets \cup {None}] /\ holds \in [Services -> Secrets \cup {None}]
      /\ fresh \subseteq Runs /\ None \notin Secrets /\ Pair \subseteq Services
      /\ secret \in Secrets \cup {None}
      /\ \A r \in Runs : stage[r] \in Serving => svc[r] \in Services
  BY DEF TypeInv, TypeOK, Pair
<1>1. ASSUME NEW r \in Runs,
             InstallService(r) \/ ProvisionHost(r) \/ OpenJournal(r) \/ Start(r)
               \/ ReadSites(r) \/ TruncateSites(r) \/ WriteSites(r)
               \/ Survey(r) \/ StartRender(r) \/ Render(r)
      PROVE  SecretInv'
  <2>1. UNCHANGED secretVars
    BY <1>1 DEF InstallService, ProvisionHost, OpenJournal, Start, ReadSites, TruncateSites,
       WriteSites, Survey, StartRender, Render, OnlyService, OnlySite, OnlySurface
  <2>2. \E from \in Stages, to \in Stages \ {"minting", "writing", "keeping"} : Goes(r, from, to)
    BY <1>1 DEF InstallService, ProvisionHost, OpenJournal, Start, ReadSites, Judges,
       TruncateSites, WriteSites, Survey, StartRender, Render, Stages, Apart
  <2>3. \A q \in Runs : stage'[q] \in Making \cup {"keeping"} => stage'[q] = stage[q]
    BY <1>0, <2>2 DEF Goes, Making
  <2> QED BY <1>0, <2>1, <2>3, QuietSecret DEF secretVars
<1>2. ASSUME NEW r \in Runs, LookForRun(r) PROVE SecretInv'
  <2>1. CASE Goes(r, "looking", "opening") /\ UNCHANGED secretVars
    <3>1. \A q \in Runs : stage'[q] \in Making \cup {"keeping"} => stage'[q] = stage[q]
      BY <1>0, <2>1 DEF Goes, Making
    <3> QED BY <1>0, <2>1, <3>1, QuietSecret DEF secretVars
  <2> QED BY <1>2, <2>1, OverSecret DEF LookForRun
<1>3. ASSUME NEW r \in Runs, ReadSecret(r) PROVE SecretInv'
  <2>1. UNCHANGED <<secret, env, holds, kept, current>> /\ fresh' = fresh \cup {r}
    BY <1>3 DEF ReadSecret
  <2>2. CASE /\ secret # None /\ Goes(r, "reading", "keeping")
             /\ key' = [key EXCEPT ![r] = secret] /\ UNCHANGED raced
    <3>1. stage'[r] = "keeping" /\ key'[r] = secret
      BY <1>0, <2>2 DEF Goes
    <3>2. \A q \in Runs : q # r => stage'[q] = stage[q] /\ key'[q] = key[q]
      BY <1>0, <2>2 DEF Goes
    <3> QED BY <1>0, <2>1, <2>2, <3>1, <3>2 DEF SecretInv
  <2>3. CASE secret = None /\ Draws(r)
    <3>1. stage'[r] = "minting" /\ key'[r] \in Secrets
      BY <1>0, <2>3 DEF Draws, Goes
    <3>2. \A q \in Runs : q # r => stage'[q] = stage[q] /\ key'[q] = key[q]
      BY <1>0, <2>3 DEF Draws, Goes
    <3>3. raced' \/ (~raced /\ \A o \in Runs : stage[o] \notin {"minting", "writing"})
      BY <2>3 DEF Draws
    <3> QED BY <1>0, <2>1, <2>3, <3>1, <3>2, <3>3 DEF SecretInv
  <2> QED BY <1>3, <2>2, <2>3 DEF ReadSecret
<1>4. ASSUME NEW r \in Runs, TruncateSecret(r) PROVE SecretInv'
  <2>1. /\ UNCHANGED <<key, env, holds, raced, fresh, kept, current>>
        /\ stage[r] = "minting" /\ secret' \in {secret, None}
    BY <1>4 DEF TruncateSecret, Goes
  <2>2. raced \/ secret' = secret
    BY <2>1 DEF SecretInv
  <2>3. stage'[r] \in {"writing", "failing"} /\ \A q \in Runs : q # r => stage'[q] = stage[q]
    BY <1>0, <1>4 DEF TruncateSecret, Goes
  <2> QED BY <1>0, <2>1, <2>2, <2>3 DEF SecretInv
<1>5. ASSUME NEW r \in Runs, WriteSecret(r) PROVE SecretInv'
  <2>1. /\ UNCHANGED <<key, env, holds, raced, fresh, kept, current>>
        /\ stage[r] = "writing" /\ key[r] \in Secrets
    BY <1>5 DEF WriteSecret, Goes, SecretInv
  <2>2. \/ stage'[r] = "keeping" /\ secret' = key[r]
        \/ stage'[r] = "failing" /\ secret' \in {secret, key[r]}
    BY <1>0, <1>5 DEF WriteSecret, Goes
  <2>3. \A q \in Runs : q # r => stage'[q] = stage[q]
    BY <1>0, <1>5 DEF WriteSecret, Goes
  <2>4. \A q \in Runs : stage'[q] \in {"minting", "writing"} => key'[q] \in Secrets
    BY <2>1, <2>2, <2>3 DEF SecretInv
  <2>5. ASSUME ~raced PROVE
          /\ secret = None
          /\ \A q \in Runs : stage'[q] \notin {"minting", "writing"}
          /\ \A q \in fresh : q # r => stage'[q] # "keeping"
    BY <1>0, <2>1, <2>2, <2>3, <2>5 DEF SecretInv
  <2>6. ASSUME ~raced PROVE
          /\ \A s \in Pair \cap kept : env[s] = None
          /\ \A s \in Pair \cap current : holds[s] = None
    BY <2>1, <2>5, <2>6 DEF SecretInv
  <2> QED BY <1>0, <2>1, <2>2, <2>4, <2>5, <2>6 DEF SecretInv
<1>6. ASSUME NEW r \in Runs, KeepSecret(r) PROVE SecretInv'
  <2>1. /\ UNCHANGED <<secret, holds, raced, current>>
        /\ stage[r] = "keeping" /\ svc[r] \in Services
        /\ key' = [key EXCEPT ![r] = None] /\ fresh' = fresh \ {r}
    BY <1>0, <1>6 DEF KeepSecret, Goes, Serving
  <2>2. stage'[r] \in {"composing", "failing"} /\ \A q \in Runs : q # r => stage'[q] = stage[q]
    BY <1>0, <1>6 DEF KeepSecret, Goes
  <2>3. \/ /\ env' = [env EXCEPT ![svc[r]] = key[r]]
           /\ kept' = IF r \in fresh THEN kept \cup {svc[r]} ELSE kept \ {svc[r]}
        \/ env' \in {env, [env EXCEPT ![svc[r]] = None]} /\ UNCHANGED kept
    BY <1>6 DEF KeepSecret
  <2>4. raced \/ (r \in fresh => key[r] = secret)
    BY <2>1 DEF SecretInv
  <2>5. raced \/ \A s \in Pair \cap kept' : env'[s] \in {None, secret}
    BY <1>0, <2>1, <2>3, <2>4 DEF SecretInv
  <2>6. \A q \in Runs : q # r => key'[q] = key[q]
    BY <1>0, <2>1
  <2> QED BY <1>0, <2>1, <2>2, <2>5, <2>6 DEF SecretInv
<1>7. ASSUME NEW r \in Runs, Compose(r) PROVE SecretInv'
  <2>1. /\ UNCHANGED <<secret, key, env, raced, fresh, kept>>
        /\ stage[r] = "composing" /\ svc[r] \in Services
    BY <1>0, <1>7 DEF Compose, Goes, Serving
  <2>2. stage'[r] \in {"merging", "failing"} /\ \A q \in Runs : q # r => stage'[q] = stage[q]
    BY <1>0, <1>7 DEF Compose, Goes
  <2>3. \/ /\ holds' = [holds EXCEPT ![svc[r]] = env[svc[r]]]
           /\ current' = IF svc[r] \in kept THEN current \cup {svc[r]} ELSE current \ {svc[r]}
        \/ UNCHANGED <<holds, current>>
    BY <1>7 DEF Compose
  <2>4. raced \/ \A s \in Pair \cap current' : holds'[s] \in {None, secret}
    BY <1>0, <2>1, <2>3 DEF SecretInv
  <2> QED BY <1>0, <2>1, <2>2, <2>4 DEF SecretInv
<1>8. ASSUME NEW r \in Runs, Close(r) PROVE SecretInv'
  BY <1>8, OverSecret DEF Close
<1>9. CASE AgentDies
  BY <1>9, OverSecret DEF AgentDies
<1>10. ASSUME NEW s \in Services, Remove(s) PROVE SecretInv'
  <2>1. /\ UNCHANGED <<stage, key, raced, secret, env, fresh, kept, current>>
        /\ holds' \in {holds, [holds EXCEPT ![s] = None]}
    BY <1>10 DEF Remove
  <2> QED BY <1>0, <2>1 DEF SecretInv
<1>12. ASSUME NEW s \in Services, Purge(s) PROVE SecretInv'
  <2>1. UNCHANGED <<stage, key, raced, holds>> /\ env' = [env EXCEPT ![s] = None]
    BY <1>12 DEF Purge, OnlyRemoval
  <2>2. CASE secret' = None /\ fresh' = {} /\ kept' = {} /\ current' = {}
    BY <2>1, <2>2 DEF SecretInv
  <2>3. CASE UNCHANGED <<secret, fresh, kept, current>>
    BY <1>0, <2>1, <2>3 DEF SecretInv
  <2> QED BY <1>12, <2>2, <2>3 DEF Purge
<1>13. ASSUME NEW s \in Services, FilterSites(s) \/ MoveSites(s) \/ EndRemoval(s) PROVE SecretInv'
  <2>1. UNCHANGED secretVars
    BY <1>13 DEF FilterSites, MoveSites, EndRemoval
  <2>2. \A q \in Runs : stage'[q] \in Making \cup {"keeping"} => stage'[q] = stage[q]
    BY <1>0, <1>13 DEF FilterSites, MoveSites, EndRemoval, Making
  <2> QED BY <1>0, <2>1, <2>2, QuietSecret DEF secretVars
<1>11. CASE UNCHANGED vars
  BY <1>0, <1>11, QuietSecret DEF vars, secretVars
<1> QED BY <1>1, <1>2, <1>3, <1>4, <1>5, <1>6, <1>7, <1>8, <1>9, <1>10, <1>11,
           <1>12, <1>13 DEF Next, RunStep, Removal

(* Where both ends were installed before, they hold one secret.            *)
LEMMA InitSecret == Init => SecretInv
<1> SUFFICES ASSUME Init PROVE SecretInv
  OBVIOUS
<1>1. PICK k \in Secrets, there \in Before : InitWith(there, k)
  BY DEF Init
<1>2. \A s \in Pair \cap kept : env[s] \in {None, secret}
  BY <1>1 DEF InitWith, Pair
<1>3. \A s \in Pair \cap current : holds[s] \in {None, secret}
  BY <1>1 DEF InitWith, Pair
<1> QED BY <1>2, <1>3 DEF Init, SecretInv

(* The two ends of the pair agree through failures, deaths and installs    *)
(* again, unless two runs once made a secret at the same time              *)
(* (install/llm_keys.rs:303-341).                                          *)
THEOREM SecretsStayShared == Spec => []SecretsAgree
<1>1. SecretInv => SecretsAgree
  BY DEF SecretInv, SecretsAgree, Pair
<1> QED BY <1>1, InitTyped, NextTyped, InitSecret, NextSecret, PTL DEF Spec

-----------------------------------------------------------------------------
(* Who works together                                                      *)

(* A step inside a run's work, or before it.                               *)
Inside(r, from, to) == Goes(r, from, to) /\ (from \in Apart <=> to \in Apart)

(* Such a step leaves who works as it was.                                 *)
LEMMA InsideWorks ==
    ASSUME TypeInv, NEW r \in Runs, NEW from, NEW to, Inside(r, from, to)
    PROVE  Working' = Working
BY DEF Inside, Goes, Working, TypeInv, TypeOK

(* Runs that end leave the others as they were.                            *)
LEMMA OverWorks ==
    ASSUME NEW gone \in SUBSET Runs, Over(gone)
    PROVE  /\ Working' = Working \ gone /\ crowd' = crowd \ gone
           /\ \A r \in Runs \ gone : /\ stage'[r] = stage[r] /\ asked'[r] = asked[r]
                                     /\ svc'[r] = svc[r] /\ seen'[r] = seen[r]
                                     /\ scanned'[r] = scanned[r]
           /\ \A r \in gone : stage'[r] = "over"
BY DEF Over, Forgotten, Working, Apart

(* Where each action takes its run.                                        *)
LEMMA StepsInside ==
    ASSUME NEW r \in Runs,
           InstallService(r) \/ Start(r) \/ ReadSecret(r) \/ TruncateSecret(r)
             \/ WriteSecret(r) \/ KeepSecret(r) \/ Compose(r) \/ ReadSites(r)
             \/ TruncateSites(r) \/ WriteSites(r) \/ Survey(r) \/ StartRender(r) \/ Render(r)
    PROVE  \E from, to \in Stages : Inside(r, from, to)
<1> USE DEF Inside, Stages, Apart
<1>1. CASE InstallService(r) \/ Start(r) \/ ReadSecret(r) \/ TruncateSecret(r)
  BY <1>1 DEF InstallService, Start, ReadSecret, Draws, TruncateSecret
<1>2. CASE WriteSecret(r) \/ KeepSecret(r) \/ Compose(r) \/ ReadSites(r)
  BY <1>2 DEF WriteSecret, KeepSecret, Compose, ReadSites, Judges
<1>3. CASE TruncateSites(r) \/ WriteSites(r) \/ Survey(r) \/ StartRender(r) \/ Render(r)
  BY <1>3 DEF TruncateSites, WriteSites, Survey, StartRender, Render
<1> QED BY <1>1, <1>2, <1>3

(* Every step keeps the overlaps known.                                    *)
LEMMA NextCrowd == TypeInv /\ CrowdInv /\ [Next]_vars => CrowdInv'
<1> SUFFICES ASSUME TypeInv, CrowdInv, [Next]_vars PROVE CrowdInv'
  OBVIOUS
<1>1. ASSUME Working' = Working, crowd' = crowd, Removing' => Removing PROVE CrowdInv'
  BY <1>1 DEF CrowdInv
<1>2. ASSUME NEW gone \in SUBSET Runs, Over(gone) PROVE CrowdInv'
  <2>1. Removing' = Removing
    BY <1>2 DEF Over, removalVars, Removing
  <2> QED BY <1>2, <2>1, OverWorks DEF CrowdInv
<1>3. ASSUME NEW r \in Runs,
             InstallService(r) \/ Start(r) \/ ReadSecret(r) \/ TruncateSecret(r)
               \/ WriteSecret(r) \/ KeepSecret(r) \/ Compose(r) \/ ReadSites(r)
               \/ TruncateSites(r) \/ WriteSites(r) \/ Survey(r) \/ StartRender(r) \/ Render(r)
      PROVE  CrowdInv'
  <2>1. crowd' = crowd /\ removal' = removal
    BY <1>3 DEF InstallService, Start, ReadSecret, TruncateSecret, WriteSecret, KeepSecret,
       Compose, ReadSites, TruncateSites, WriteSites, Survey, StartRender, Render, OnlyService,
       OnlySite, OnlySurface, removalVars
  <2>2. Working' = Working
    BY <1>3, StepsInside, InsideWorks
  <2> QED BY <1>1, <2>1, <2>2 DEF Removing
<1>4. ASSUME NEW r \in Runs, ProvisionHost(r) \/ OpenJournal(r) PROVE CrowdInv'
  <2>1. Joins(r) /\ removal' = removal /\ \A q \in Runs : q # r => stage'[q] = stage[q]
    BY <1>4 DEF ProvisionHost, OpenJournal, Goes, TypeInv, TypeOK, removalVars
  <2>2. Working' \subseteq Working \cup {r}
    BY <2>1 DEF Working
  <2> QED BY <2>1, <2>2 DEF Joins, CrowdInv, Removing
<1>5. ASSUME NEW r \in Runs, LookForRun(r) PROVE CrowdInv'
  <2>1. CASE Goes(r, "looking", "opening") /\ UNCHANGED <<crowd, removalVars>>
    BY <1>1, <2>1, InsideWorks DEF Inside, Apart, Removing, removalVars
  <2> QED BY <1>2, <1>5, <2>1 DEF LookForRun
<1>6. ASSUME NEW r \in Runs, Close(r) PROVE CrowdInv'
  BY <1>2, <1>6 DEF Close
<1>7. CASE AgentDies
  BY <1>2, <1>7 DEF AgentDies
<1>8. ASSUME NEW s \in Services, Remove(s) PROVE CrowdInv'
  BY <1>8 DEF Remove, CrowdInv, Working
<1>10. ASSUME NEW s \in Services, FilterSites(s) \/ MoveSites(s) \/ Purge(s) \/ EndRemoval(s)
       PROVE  CrowdInv'
  <2>1. crowd' = crowd /\ (Removing' => Removing)
    BY <1>10 DEF FilterSites, MoveSites, Purge, EndRemoval, OnlyRemoval, Removing
  <2>2. \A q \in Runs : stage'[q] \in Apart <=> stage[q] \in Apart
    BY <1>10 DEF FilterSites, MoveSites, Purge, EndRemoval, Apart
  <2> QED BY <1>1, <2>1, <2>2 DEF Working
<1>9. CASE UNCHANGED vars
  BY <1>1, <1>9 DEF vars, Working, Removing, removalVars
<1> QED BY <1>3, <1>4, <1>5, <1>6, <1>7, <1>8, <1>9, <1>10 DEF Next, RunStep, Removal

-----------------------------------------------------------------------------
(* The wrappers                                                            *)

(* The stages of a run that renders wrappers.                              *)
Rendering == {"rendering", "halfway", "closing"}

(* A step that writes no wrapper and takes no run to where it would.       *)
LEMMA QuietWrappers ==
    ASSUME WrapperInv, UNCHANGED <<noted, wrappers, doubtful, blind>>, up \subseteq up',
           \A r \in Runs : stage'[r] \in Rendering /\ r \notin crowd' =>
              /\ r \notin crowd /\ stage'[r] = stage[r]
              /\ svc'[r] = svc[r] /\ scanned'[r] = scanned[r]
    PROVE  WrapperInv'
BY DEF WrapperInv, Installed, Rendering

(* Runs that end, and add nothing to what is noted.                        *)
LEMMA OverWrappers ==
    ASSUME WrapperInv, NEW gone \in SUBSET Runs, Over(gone), noted' = noted
    PROVE  WrapperInv'
<1>1. UNCHANGED <<wrappers, doubtful, up>> /\ blind' = blind \ gone
  BY DEF Over
<1>2. \A r \in Runs : stage'[r] \in Rendering /\ r \notin crowd' =>
          /\ r \notin gone /\ r \notin crowd /\ stage'[r] = stage[r]
          /\ svc'[r] = svc[r] /\ scanned'[r] = scanned[r]
  BY OverWorks DEF Rendering
<1> QED BY <1>1, <1>2 DEF WrapperInv, Installed, Rendering

(* Every step keeps the wrappers in touch with the host.                   *)
LEMMA NextWrappers == TypeInv /\ CrowdInv /\ WrapperInv /\ [Next]_vars => WrapperInv'
<1> SUFFICES ASSUME TypeInv, CrowdInv, WrapperInv, [Next]_vars PROVE WrapperInv'
  OBVIOUS
<1>0. /\ stage \in [Runs -> Stages] /\ svc \in [Runs -> Services \cup {None}]
      /\ scanned \in [Runs -> SUBSET Services]
  BY DEF TypeInv, TypeOK
<1>1. ASSUME NEW r \in Runs,
             InstallService(r) \/ ProvisionHost(r) \/ OpenJournal(r) \/ Start(r)
               \/ ReadSecret(r) \/ TruncateSecret(r) \/ WriteSecret(r) \/ KeepSecret(r)
               \/ Compose(r) \/ ReadSites(r) \/ TruncateSites(r) \/ WriteSites(r)
      PROVE  WrapperInv'
  <2>1. UNCHANGED <<surfaceVars, noted>>
    BY <1>1 DEF InstallService, ProvisionHost, OpenJournal, Start, ReadSecret, TruncateSecret,
       WriteSecret, KeepSecret, Compose, ReadSites, TruncateSites, WriteSites, OnlyService,
       OnlySite, successVars
  <2>2. up \subseteq up' /\ crowd \subseteq crowd'
    BY <1>1 DEF InstallService, ProvisionHost, OpenJournal, Joins, Start, ReadSecret,
       TruncateSecret, WriteSecret, KeepSecret, Compose, ReadSites, TruncateSites, WriteSites,
       OnlyService, OnlySite
  <2>3. \E from \in Stages, to \in Stages \ Rendering : Goes(r, from, to)
    BY <1>1 DEF InstallService, ProvisionHost, OpenJournal, Start, ReadSecret, Draws,
       TruncateSecret, WriteSecret, KeepSecret, Compose, ReadSites, Judges, TruncateSites,
       WriteSites, Stages, Apart, Rendering
  <2>4. \A q \in Runs : q # r => svc'[q] = svc[q]
    BY <1>0, <1>1 DEF InstallService, ProvisionHost, OpenJournal, Start, ReadSecret,
       TruncateSecret, WriteSecret, KeepSecret, Compose, ReadSites, TruncateSites, WriteSites,
       OnlyService, OnlySite, requestVars
  <2>5. \A q \in Runs : stage'[q] \in Rendering => stage'[q] = stage[q] /\ q # r
    BY <1>0, <2>3 DEF Goes
  <2> QED BY <2>1, <2>2, <2>4, <2>5, QuietWrappers DEF surfaceVars
<1>2. ASSUME NEW r \in Runs, LookForRun(r) PROVE WrapperInv'
  <2>1. CASE Goes(r, "looking", "opening")
               /\ UNCHANGED <<requestVars, up, surfaceVars, successVars, crowd>>
    <3>1. \A q \in Runs : stage'[q] \in Rendering => stage'[q] = stage[q]
      BY <1>0, <2>1 DEF Goes, Rendering
    <3> QED BY <2>1, <3>1, QuietWrappers DEF requestVars, surfaceVars, successVars
  <2> QED BY <1>2, <2>1, OverWrappers DEF LookForRun, successVars
<1>3. ASSUME NEW r \in Runs, Survey(r) PROVE WrapperInv'
  <2>1. UNCHANGED <<requestVars, up, wrappers, doubtful, noted, crowd>>
    BY <1>3 DEF Survey, OnlySurface, successVars
  <2>2. \A q \in Runs : q # r => stage'[q] = stage[q] /\ scanned'[q] = scanned[q]
    BY <1>0, <1>3 DEF Survey, Goes
  <2>3. \/ stage'[r] = "bare" /\ UNCHANGED blind
        \/ stage'[r] = "rendering" /\ scanned'[r] = up \cup Installed(r) /\ UNCHANGED blind
        \/ stage'[r] = "rendering" /\ blind' = blind \cup {r}
    BY <1>0, <1>3 DEF Survey, Goes
  <2> QED BY <2>1, <2>2, <2>3 DEF WrapperInv, Installed, requestVars
<1>4. ASSUME NEW r \in Runs, Render(r) PROVE WrapperInv'
  <2>1. UNCHANGED <<requestVars, up, noted, crowd>> /\ blind' = blind \ {r}
    BY <1>4 DEF Render, OnlySurface, successVars
  <2>2. stage[r] = "halfway" /\ \A q \in Runs : q # r => stage'[q] = stage[q] /\ scanned'[q] = scanned[q]
    BY <1>0, <1>4 DEF Render, Goes
  <2>3. \A q \in Runs \ crowd : q # r => stage[q] \notin Rendering
    BY <2>2 DEF CrowdInv, Working, Apart, Rendering
  <2>4. \/ /\ stage'[r] = "closing" /\ wrappers' = scanned[r]
           /\ doubtful' = (r \in crowd \cup blind)
        \/ stage'[r] = "failing" /\ UNCHANGED <<wrappers, doubtful>>
    BY <1>0, <1>4 DEF Render, Goes
  <2>5. CASE stage'[r] = "failing" /\ UNCHANGED <<wrappers, doubtful>>
    BY <2>1, <2>2, <2>3, <2>5 DEF WrapperInv, Installed, requestVars, Rendering
  <2>6. CASE /\ stage'[r] = "closing" /\ wrappers' = scanned[r]
             /\ doubtful' = (r \in crowd \cup blind)
    <3>1. doubtful' \/ r \notin crowd \cup blind
      BY <2>6
    <3>2. doubtful' \/ (noted \cup Installed(r) \subseteq wrappers')
      BY <2>2, <2>6, <3>1 DEF WrapperInv
    <3> QED BY <2>1, <2>2, <2>3, <2>6, <3>2 DEF WrapperInv, Installed, requestVars, Rendering
  <2> QED BY <2>4, <2>5, <2>6
<1>9. ASSUME NEW r \in Runs, StartRender(r) PROVE WrapperInv'
  <2>1. UNCHANGED <<requestVars, up, noted, crowd, blind, scanned>> /\ doubtful' = TRUE
    BY <1>9 DEF StartRender, OnlySurface, successVars
  <2>2. /\ stage[r] = "rendering" /\ stage'[r] = "halfway"
        /\ \A q \in Runs : q # r => stage'[q] = stage[q]
    BY <1>0, <1>9 DEF StartRender, Goes
  <2> QED BY <2>1, <2>2 DEF WrapperInv, Installed, requestVars
<1>5. ASSUME NEW r \in Runs, Close(r) PROVE WrapperInv'
  <2>1. Over({r})
    BY <1>5 DEF Close
  <2>2. CASE noted' = noted
    BY <2>1, <2>2, OverWrappers
  <2>3. CASE /\ stage[r] = "closing" /\ r \notin crowd
             /\ noted' = noted \cup (Installed(r) \cap up)
    <3>1. \A q \in Runs : q # r => stage[q] \in Apart \/ q \in crowd
      BY <2>3 DEF CrowdInv, Working, Apart
    <3>2. \A q \in Runs : stage'[q] \in Rendering => q \in crowd'
      BY <2>1, <3>1, OverWorks DEF Apart, Rendering
    <3>3. UNCHANGED <<up, wrappers, doubtful>>
      BY <2>1 DEF Over
    <3> QED BY <2>3, <3>2, <3>3 DEF WrapperInv, Rendering
  <2> QED BY <1>5, <2>2, <2>3 DEF Close, successVars
<1>6. CASE AgentDies
  BY <1>6, OverWrappers DEF AgentDies, successVars
<1>7. ASSUME NEW s \in Services, Remove(s) PROVE WrapperInv'
  <2>1. UNCHANGED <<stage, wrappers, doubtful>> /\ up \ {s} \subseteq up' /\ noted' = noted \ {s}
    BY <1>7 DEF Remove, surfaceVars
  <2>2. \A q \in Runs : stage'[q] \in Rendering => q \in crowd'
    BY <1>7, <2>1 DEF Remove, Working, Apart, Rendering
  <2> QED BY <2>1, <2>2 DEF WrapperInv, Rendering
<1>10. ASSUME NEW s \in Services, FilterSites(s) \/ MoveSites(s) \/ Purge(s) \/ EndRemoval(s)
       PROVE  WrapperInv'
  <2>1. UNCHANGED <<svc, up, surfaceVars, noted, crowd>>
    BY <1>10 DEF FilterSites, MoveSites, Purge, EndRemoval, OnlyRemoval, requestVars, successVars
  <2>2. \A q \in Runs : stage'[q] \in Rendering => stage'[q] = stage[q]
    BY <1>10 DEF FilterSites, MoveSites, Purge, EndRemoval, Rendering
  <2> QED BY <2>1, <2>2, QuietWrappers DEF surfaceVars
<1>8. CASE UNCHANGED vars
  BY <1>8, QuietWrappers DEF vars, requestVars, surfaceVars, successVars
<1> QED BY <1>1, <1>2, <1>3, <1>4, <1>5, <1>6, <1>7, <1>8, <1>9, <1>10
        DEF Next, RunStep, Removal

-----------------------------------------------------------------------------
(* The sites                                                               *)

(* A step that takes r to no such stage, and to no copy of the file.       *)
QuietRun(r) ==
    /\ stage'[r] = "idle" => asked'[r] = {}
    /\ stage[r] = "truncated" <=> stage'[r] = "truncated"
    /\ stage'[r] = "truncated" => seen'[r] = seen[r]
    /\ stage'[r] = "judged" /\ r \notin crowd' =>
          stage[r] = "judged" /\ r \notin crowd /\ seen'[r] = seen[r]
    /\ stage'[r] = "adrift" => r \in crowd'
    /\ stage'[r] \in Sited /\ r \notin crowd' /\ asked'[r] # {} =>
          stage[r] \in Sited /\ r \notin crowd /\ asked'[r] = asked[r] /\ svc'[r] = svc[r]

(* A step that leaves the file alone, and is quiet for every run.          *)
LEMMA QuietSites ==
    ASSUME SiteInv, UNCHANGED <<sites, served, spoilt, removalVars>>,
           \A r \in Runs : QuietRun(r)
    PROVE  SiteInv'
<1>1. UNCHANGED <<sites, served, spoilt, removal, copy>>
  BY DEF removalVars
<1>2. /\ \A r \in Runs : stage'[r] = "idle" => asked'[r] = {}
      /\ \A r \in Runs : stage'[r] = "adrift" => r \in crowd'
      /\ \A s \in Services : removal'[s] # "none" => s \notin served'
  BY <1>1 DEF SiteInv, QuietRun
<1>3. CASE spoilt
  BY <1>1, <1>2, <1>3 DEF SiteInv
<1>4. CASE ~spoilt
  <2>1. \A r \in Runs \ crowd' : stage'[r] = "judged" => \A s \in served' : HasSite(seen'[r], s)
    BY <1>1, <1>4 DEF SiteInv, QuietRun
  <2>2. \A r \in Runs : stage'[r] = "truncated" =>
            /\ \A s \in served' : HasSite(seen'[r], s)
            /\ \A o \in Runs : stage'[o] = "truncated" => o = r
    BY <1>1, <1>4 DEF SiteInv, QuietRun
  <2>3. (\A r \in Runs : stage'[r] # "truncated") => \A s \in served' : HasSite(sites', s)
    BY <1>1, <1>4 DEF SiteInv, QuietRun
  <2>4. \A r \in Runs \ crowd' : stage'[r] \in Sited /\ asked'[r] # {} => HasSite(sites', svc'[r])
    BY <1>1, <1>4 DEF SiteInv, QuietRun
  <2>5. \A s \in Services : removal'[s] = "filtered" =>
            /\ \A r \in Runs : stage'[r] # "truncated"
            /\ \A x \in served' : HasSite(copy', x)
    BY <1>1, <1>4 DEF SiteInv, QuietRun
  <2>6. \A r \in Runs : \A s : HasSite(seen[r], s)' <=> HasSite(seen'[r], s)
    BY DEF HasSite
  <2>7. \A s : (HasSite(sites, s)' <=> HasSite(sites', s)) /\ (HasSite(copy, s)' <=> HasSite(copy', s))
    BY DEF HasSite
  <2> QED BY <1>2, <2>1, <2>2, <2>3, <2>4, <2>5, <2>6, <2>7 DEF SiteInv, HasSite
<1> QED BY <1>3, <1>4

(* Runs that end while none of them is writing the file.                   *)
LEMMA OverSites ==
    ASSUME SiteInv, NEW gone \in SUBSET Runs, Over(gone), served' = served, spoilt' = spoilt,
           \A r \in gone : stage[r] # "truncated"
    PROVE  SiteInv'
<1>1. \A r \in Runs : stage'[r] # "over" => r \notin gone
  BY OverWorks
<1>2. \A r \in Runs : QuietRun(r)
  BY <1>1, OverWorks DEF QuietRun, Sited, SiteInv
<1>3. UNCHANGED <<sites, removalVars>>
  BY DEF Over
<1> QED BY <1>2, <1>3, QuietSites

(* A file that is written anew with one block more has the sites it had.   *)
LEMMA MergedHasSites ==
    ASSUME NEW file, NEW names, NEW owner, names # {}, ~Conflict(file, names, owner)
    PROVE  /\ HasSite(Merged(file, names, owner), owner)
           /\ \A s : HasSite(file, s) => HasSite(Merged(file, names, owner), s)
<1> DEFINE new == [owner |-> owner, names |-> names]
<1>1. new \in Merged(file, names, owner) /\ new.owner = owner
  BY DEF Merged
<1>2. \A b \in file : b.names # names => b \in Merged(file, names, owner)
  BY DEF Merged
<1>3. \A b \in file : b.names = names => b.owner = owner
  BY DEF Conflict
<1> HIDE DEF new
<1> QED BY <1>1, <1>2, <1>3 DEF HasSite

(* Every step keeps the sites of those that were served.                   *)
LEMMA NextSites ==
    TypeInv /\ NameInv /\ CrowdInv /\ SiteInv /\ [Next]_vars => SiteInv'
<1> SUFFICES ASSUME TypeInv, NameInv, CrowdInv, SiteInv, [Next]_vars PROVE SiteInv'
  OBVIOUS
<1>0. /\ stage \in [Runs -> Stages] /\ svc \in [Runs -> Services \cup {None}]
      /\ asked \in [Runs -> Served \cup {{}}] /\ seen \in [Runs -> SUBSET Block]
      /\ spoilt \in BOOLEAN
      /\ removal \in [Services -> {"none", "down", "filtered", "stranded", "moved"}]
  BY DEF TypeInv, TypeOK
<1>1. ASSUME NEW r \in Runs, InstallService(r) PROVE SiteInv'
  <2>1. UNCHANGED <<siteVars, removalVars, served, crowd>>
    BY <1>1 DEF InstallService, successVars
  <2>2. stage[r] = "idle" /\ stage'[r] = "looking"
    BY <1>0, <1>1 DEF InstallService, Goes
  <2>3. \A q \in Runs : q # r => stage'[q] = stage[q] /\ asked'[q] = asked[q] /\ svc'[q] = svc[q]
    BY <1>0, <1>1 DEF InstallService, Goes
  <2>4. \A q \in Runs : QuietRun(q)
    BY <2>1, <2>2, <2>3 DEF QuietRun, Sited, SiteInv, siteVars
  <2> QED BY <2>1, <2>4, QuietSites DEF siteVars
<1>2. ASSUME NEW r \in Runs, ProvisionHost(r) PROVE SiteInv'
  <2>1. UNCHANGED <<requestVars, siteVars, removalVars, served>> /\ crowd \subseteq crowd'
    BY <1>2 DEF ProvisionHost, Joins, successVars
  <2>2. stage[r] = "idle" /\ stage'[r] = "surveying" /\ asked[r] = {}
    BY <1>0, <1>2 DEF ProvisionHost, Goes, SiteInv
  <2>3. \A q \in Runs : q # r => stage'[q] = stage[q]
    BY <1>0, <1>2 DEF ProvisionHost, Goes
  <2>4. \A q \in Runs : QuietRun(q)
    BY <2>1, <2>2, <2>3 DEF QuietRun, SiteInv, siteVars, requestVars
  <2> QED BY <2>1, <2>4, QuietSites DEF siteVars
<1>3. ASSUME NEW r \in Runs,
             OpenJournal(r) \/ Start(r) \/ ReadSecret(r) \/ TruncateSecret(r) \/ WriteSecret(r)
               \/ KeepSecret(r) \/ Compose(r) \/ Survey(r) \/ StartRender(r) \/ Render(r)
      PROVE  SiteInv'
  <2>1. UNCHANGED <<requestVars, siteVars, removalVars, served>> /\ crowd \subseteq crowd'
    BY <1>3 DEF OpenJournal, Joins, Start, ReadSecret, TruncateSecret, WriteSecret, KeepSecret,
       Compose, Survey, StartRender, Render, OnlyService, OnlySurface, successVars
  <2>2. \E from, to \in Stages \ {"idle", "judged", "truncated", "adrift"} :
            Goes(r, from, to) /\ (to \in Sited => from \in Sited)
    BY <1>3 DEF OpenJournal, Start, ReadSecret, Draws, TruncateSecret, WriteSecret, KeepSecret,
       Compose, Survey, StartRender, Render, Stages, Apart, Sited
  <2>3. \A q \in Runs : QuietRun(q)
    BY <1>0, <2>1, <2>2 DEF Goes, QuietRun, SiteInv, siteVars, requestVars
  <2> QED BY <2>1, <2>3, QuietSites DEF siteVars
<1>4. ASSUME NEW r \in Runs, LookForRun(r) PROVE SiteInv'
  <2>1. stage[r] = "looking"
    BY <1>4 DEF LookForRun, Goes
  <2>2. CASE Over({r}) /\ UNCHANGED <<spoilt, successVars>>
    BY <2>1, <2>2, OverSites DEF successVars
  <2>3. CASE Goes(r, "looking", "opening")
               /\ UNCHANGED <<requestVars, siteVars, successVars, removalVars, crowd>>
    <3>1. \A q \in Runs : QuietRun(q)
      BY <1>0, <2>3 DEF Goes, QuietRun, Sited, SiteInv, siteVars, requestVars
    <3> QED BY <2>3, <3>1, QuietSites DEF siteVars, successVars
  <2> QED BY <1>4, <2>2, <2>3 DEF LookForRun
<1>5. ASSUME NEW r \in Runs, ReadSites(r) PROVE SiteInv'
  <2>1. UNCHANGED <<requestVars, served, removalVars, crowd>>
    BY <1>5 DEF ReadSites, OnlySite, successVars
  <2>2. CASE /\ UNCHANGED siteVars
             /\ \/ asked[r] = {} /\ Goes(r, "merging", "surveying")
                \/ Goes(r, "merging", "failing")
    <3>1. \A q \in Runs : QuietRun(q)
      BY <1>0, <2>1, <2>2 DEF Goes, QuietRun, Sited, SiteInv, siteVars, requestVars
    <3> QED BY <2>1, <2>2, <3>1, QuietSites DEF siteVars
  <2>3. CASE Judges(r)
    <3>1. /\ stage[r] = "merging" /\ stage'[r] = "judged" /\ seen'[r] = sites
          /\ \A q \in Runs : q # r => stage'[q] = stage[q] /\ seen'[q] = seen[q]
          /\ UNCHANGED <<sites, spoilt>>
      BY <1>0, <2>3 DEF Judges, Goes
    <3>2. r \notin crowd => \A q \in Runs : q # r => stage[q] \in Apart
      BY <3>1 DEF CrowdInv, Working, Apart
    <3>3. spoilt \/ r \in crowd \/ \A s \in served : HasSite(seen'[r], s)
      BY <3>1, <3>2 DEF SiteInv, Apart
    <3>4. \A q \in Runs : q # r => QuietRun(q)
      BY <2>1, <3>1 DEF QuietRun, SiteInv, requestVars
    <3>5. \A q \in Runs : stage'[q] = "truncated" <=> stage[q] = "truncated"
      BY <3>1
    <3>6. /\ \A q \in Runs : stage'[q] = "idle" => asked'[q] = {}
          /\ \A q \in Runs : stage'[q] = "adrift" => q \in crowd'
          /\ \A s \in Services : removal'[s] # "none" => s \notin served'
      BY <2>1, <3>1 DEF SiteInv, requestVars, removalVars
    <3>7. CASE spoilt
      BY <3>1, <3>6, <3>7 DEF SiteInv
    <3>8. CASE ~spoilt
      <4>1. \A q \in Runs \ crowd' : stage'[q] = "judged" => \A s \in served' : HasSite(seen'[q], s)
        BY <2>1, <3>1, <3>3, <3>8 DEF SiteInv
      <4>2. \A q \in Runs \ crowd' : stage'[q] \in Sited => q # r
        BY <3>1 DEF Sited
      <4> QED BY <2>1, <3>1, <3>5, <3>6, <3>8, <4>1, <4>2
              DEF SiteInv, HasSite, requestVars, removalVars
    <3> QED BY <3>7, <3>8
  <2> QED BY <1>5, <2>2, <2>3 DEF ReadSites
<1>6. ASSUME NEW r \in Runs, TruncateSites(r) PROVE SiteInv'
  <2>1. UNCHANGED <<requestVars, served, removalVars, crowd, seen>>
    BY <1>6 DEF TruncateSites, OnlySite, successVars
  <2>2. /\ stage[r] = "judged" /\ stage'[r] = "truncated"
        /\ \A q \in Runs : q # r => stage'[q] = stage[q]
    BY <1>0, <1>6 DEF TruncateSites, Goes
  <2>3. /\ \A q \in Runs : stage'[q] = "idle" => asked'[q] = {}
        /\ \A q \in Runs : stage'[q] = "adrift" => q \in crowd'
        /\ \A s \in Services : removal'[s] # "none" => s \notin served'
    BY <2>1, <2>2 DEF SiteInv, requestVars, removalVars
  <2>4. CASE spoilt \/ r \in crowd
    <3>1. spoilt' = TRUE
      BY <1>0, <1>6, <2>4 DEF TruncateSites
    <3> QED BY <2>3, <3>1 DEF SiteInv
  <2>5. CASE ~spoilt /\ r \notin crowd
    <3>1. \A q \in Runs : q # r => stage'[q] \in Apart
      BY <2>2, <2>5 DEF CrowdInv, Working, Apart
    <3>2. \A s \in served : HasSite(seen[r], s)
      BY <2>2, <2>5 DEF SiteInv
    <3>3. \A s \in Services : removal[s] = "none"
      BY <2>2, <2>5 DEF CrowdInv, Working, Apart, Removing
    <3> QED BY <2>1, <2>2, <2>3, <3>1, <3>2, <3>3 DEF SiteInv, Apart, Sited, HasSite, removalVars
  <2> QED BY <2>4, <2>5
<1>7. ASSUME NEW r \in Runs, WriteSites(r) PROVE SiteInv'
  <2>1. UNCHANGED <<requestVars, served, removalVars, crowd>> /\ seen' = [seen EXCEPT ![r] = {}]
    BY <1>7 DEF WriteSites, OnlySite, successVars
  <2>2. /\ stage[r] \in {"truncated", "adrift"} /\ stage'[r] \in {"surveying", "failing"}
        /\ \A q \in Runs : q # r => stage'[q] = stage[q]
    BY <1>0, <1>7 DEF WriteSites, Goes
  <2>3. /\ \A q \in Runs : stage'[q] = "idle" => asked'[q] = {}
        /\ \A q \in Runs : stage'[q] = "adrift" => q \in crowd'
        /\ \A s \in Services : removal'[s] # "none" => s \notin served'
    BY <2>1, <2>2 DEF SiteInv, requestVars, removalVars
  <2>4. CASE spoilt'
    BY <2>3, <2>4 DEF SiteInv
  <2>5. CASE stage[r] = "adrift" /\ UNCHANGED <<sites, spoilt>>
    <3>1. r \in crowd
      BY <2>5 DEF SiteInv
    <3>2. \A q \in Runs : QuietRun(q)
      BY <1>0, <2>1, <2>2, <2>3, <2>5, <3>1 DEF QuietRun, SiteInv, Sited, requestVars
    <3> QED BY <2>1, <2>5, <3>2, QuietSites
  <2>6. CASE /\ stage[r] = "truncated" /\ UNCHANGED spoilt /\ ~spoilt
             /\ \E rest \in SUBSET sites : sites' = Merged(seen[r], asked[r], svc[r]) \cup rest
    <3>1. asked[r] # {} /\ ~Conflict(seen[r], asked[r], svc[r])
      BY <2>6 DEF NameInv, TypeInv, Held
    <3>2. /\ HasSite(sites', svc[r])
          /\ \A s : HasSite(seen[r], s) => HasSite(sites', s)
      BY <2>6, <3>1, MergedHasSites DEF HasSite
    <3>3. \A q \in Runs : stage'[q] # "truncated"
      BY <2>2, <2>6 DEF SiteInv
    <3>4. \A s \in served : HasSite(sites', s)
      BY <2>6, <3>2 DEF SiteInv
    <3>5. \A q \in Runs : stage[q] \in Sited \cup {"judged"} => q \in crowd
      BY <2>6 DEF CrowdInv, Working, Apart, Sited
    <3>6. \A q \in Runs \ crowd' : stage'[q] \in Sited \cup {"judged"} => q = r /\ stage'[q] # "judged"
      BY <2>1, <2>2, <3>5
    <3>7. \A s \in Services : removal[s] # "filtered"
      BY <2>6 DEF SiteInv
    <3> QED BY <2>1, <2>3, <2>6, <3>2, <3>3, <3>4, <3>6, <3>7
            DEF SiteInv, Sited, HasSite, requestVars, removalVars
  <2>7. \/ spoilt' \/ (stage[r] = "adrift" /\ UNCHANGED <<sites, spoilt>>)
        \/ /\ stage[r] = "truncated" /\ UNCHANGED spoilt /\ ~spoilt
           /\ \E rest \in SUBSET sites : sites' = Merged(seen[r], asked[r], svc[r]) \cup rest
    BY <1>7 DEF WriteSites, Goes
  <2> QED BY <2>4, <2>5, <2>6, <2>7
<1>8. ASSUME NEW r \in Runs, Close(r) PROVE SiteInv'
  <2>1. Over({r}) /\ UNCHANGED spoilt /\ stage[r] \in {"closing", "bare", "failing"}
    BY <1>8 DEF Close
  <2>2. CASE served' = served
    BY <2>1, <2>2, OverSites
  <2>3. CASE /\ stage[r] \in {"closing", "bare"} /\ r \notin crowd /\ asked[r] # {}
             /\ served' \subseteq served \cup {svc[r]}
    <3>1. \A q \in Runs : q # r => stage[q] \in Apart
      BY <2>3 DEF CrowdInv, Working, Apart
    <3>2. \A q \in Runs : stage'[q] \in Apart
      BY <2>1, <3>1, OverWorks DEF Apart
    <3>3. \A q \in Runs : stage'[q] = "idle" => asked'[q] = {}
      BY <2>1, OverWorks DEF SiteInv
    <3>4. \A q \in Runs : stage[q] # "truncated"
      BY <2>1, <3>1 DEF Apart
    <3>5. spoilt \/ \A s \in served' : HasSite(sites, s)
      BY <2>3, <3>4 DEF SiteInv, Sited
    <3>6. UNCHANGED <<sites, spoilt, removal, copy>>
      BY <2>1 DEF Over, removalVars
    <3>7. \A s \in Services : removal[s] = "none"
      BY <2>3 DEF CrowdInv, Working, Apart, Removing
    <3> QED BY <3>2, <3>3, <3>5, <3>6, <3>7 DEF SiteInv, Apart, Sited, HasSite
  <2> QED BY <1>8, <2>2, <2>3 DEF Close, Installed, successVars
<1>9. CASE AgentDies
  <2> DEFINE gone == {r \in Runs : stage[r] # "idle"}
  <2>1. Over(gone) /\ served' = served
    BY <1>9 DEF AgentDies, successVars
  <2>2. /\ \A q \in Runs : stage'[q] = "idle" => asked'[q] = {}
        /\ \A q \in Runs : stage'[q] # "adrift"
        /\ \A s \in Services : removal'[s] # "none" => s \notin served'
    BY <2>1, OverWorks DEF SiteInv, Over, removalVars
  <2>3. CASE \E r \in Runs : stage[r] = "truncated"
    <3>1. spoilt' = TRUE
      BY <1>0, <1>9, <2>3 DEF AgentDies
    <3> QED BY <2>2, <3>1 DEF SiteInv
  <2>4. CASE \A r \in Runs : stage[r] # "truncated"
    <3>1. spoilt' = spoilt
      BY <1>0, <1>9, <2>4 DEF AgentDies
    <3> QED BY <2>1, <2>4, <3>1, OverSites
  <2> QED BY <2>3, <2>4
<1>10. ASSUME NEW s \in Services, Remove(s) PROVE SiteInv'
  <2>1. /\ UNCHANGED <<stage, requestVars, seen, sites, copy>> /\ served' = served \ {s}
        /\ spoilt' \/ UNCHANGED spoilt
    BY <1>0, <1>10 DEF Remove
  <2>2. removal[s] = "none" /\ removal' = [removal EXCEPT ![s] = "down"]
    BY <1>10 DEF Remove
  <2>3. \A q \in Runs : stage'[q] \in Sited \cup {"judged", "adrift"} => q \in crowd'
    BY <1>10, <2>1 DEF Remove, Working, Apart, Sited
  <2>4. \A x \in Services : removal'[x] = "filtered" => removal[x] = "filtered"
    BY <1>0, <2>2
  <2>5. \A x \in Services : removal'[x] # "none" => x \notin served'
    BY <1>0, <2>1, <2>2 DEF SiteInv
  <2>6. CASE spoilt'
    BY <2>1, <2>3, <2>5, <2>6 DEF SiteInv, requestVars
  <2>7. CASE UNCHANGED spoilt
    BY <2>1, <2>3, <2>4, <2>5, <2>7 DEF SiteInv, Sited, HasSite, requestVars
  <2> QED BY <2>1, <2>6, <2>7
<1>11. ASSUME NEW s \in Services, FilterSites(s) PROVE SiteInv'
  <2>1. UNCHANGED <<stage, requestVars, seen, sites, served, crowd>>
    BY <1>11 DEF FilterSites, OnlyRemoval, successVars
  <2>2. removal[s] = "down" /\ removal' = [removal EXCEPT ![s] = "filtered"]
    BY <1>11 DEF FilterSites
  <2>3. PICK gone \in SUBSET {b \in sites : b.owner = s} : copy' = sites \ gone
    BY <1>11 DEF FilterSites
  <2>4. \A x \in Services : removal'[x] # "none" => x \notin served'
    BY <1>0, <2>1, <2>2 DEF SiteInv
  <2>5. CASE spoilt'
    BY <2>1, <2>4, <2>5 DEF SiteInv, requestVars
  <2>6. CASE ~spoilt'
    <3>1. ~spoilt /\ \A r \in Runs : stage[r] # "truncated"
      BY <1>0, <1>11, <2>6 DEF FilterSites
    <3>2. s \notin served
      BY <2>2 DEF SiteInv
    <3>3. \A x \in served : HasSite(copy', x)
      BY <2>3, <3>1, <3>2 DEF SiteInv, HasSite
    <3> QED BY <2>1, <2>4, <3>1, <3>3 DEF SiteInv, HasSite, requestVars
  <2> QED BY <2>5, <2>6
<1>12. ASSUME NEW s \in Services, MoveSites(s) PROVE SiteInv'
  <2>1. UNCHANGED <<requestVars, seen, served, spoilt, crowd>> /\ removal[s] = "filtered"
    BY <1>12 DEF MoveSites, OnlyRemoval, successVars
  <2>2. /\ sites' = copy
        /\ stage' = [r \in Runs |-> IF stage[r] = "truncated" THEN "adrift" ELSE stage[r]]
        /\ removal' = [x \in Services |-> IF x = s THEN "moved"
                                          ELSE IF removal[x] = "filtered" THEN "stranded"
                                          ELSE removal[x]]
    BY <1>12 DEF MoveSites
  <2>3. \A r \in Runs : stage[r] \notin Apart => r \in crowd
    BY <2>1 DEF CrowdInv, Working, Removing
  <2>4. \A r \in Runs : stage'[r] \in Sited \cup {"judged", "adrift"} => r \in crowd'
    BY <2>1, <2>2, <2>3 DEF Sited, Apart
  <2>5. /\ \A r \in Runs : stage'[r] # "truncated" /\ (stage'[r] = "idle" => asked'[r] = {})
        /\ \A x \in Services : removal'[x] # "none" => x \notin served'
        /\ \A x \in Services : removal'[x] # "filtered"
    BY <2>1, <2>2 DEF SiteInv, requestVars
  <2>6. spoilt \/ \A x \in served : HasSite(sites', x)
    BY <2>1, <2>2 DEF SiteInv
  <2> QED BY <2>1, <2>4, <2>5, <2>6 DEF SiteInv, Sited, HasSite
<1>13. ASSUME NEW s \in Services, Purge(s) \/ EndRemoval(s) PROVE SiteInv'
  <2>1. UNCHANGED <<stage, requestVars, seen, sites, spoilt, served, crowd>>
    BY <1>13 DEF Purge, EndRemoval, OnlyRemoval, successVars
  <2>2. removal' = [removal EXCEPT ![s] = "none"]
    BY <1>13 DEF Purge, EndRemoval
  <2>3. (\E x \in Services : removal'[x] = "filtered") => copy' = copy
    BY <1>0, <1>13, <2>2 DEF Purge, EndRemoval
  <2>4. \A x \in Services : removal'[x] # "none" => removal[x] = removal'[x]
    BY <1>0, <2>2
  <2>5. \A x \in Services : removal'[x] # "none" => x \notin served'
    BY <2>1, <2>4 DEF SiteInv
  <2>6. spoilt \/ \A x \in Services : removal'[x] = "filtered" =>
            /\ \A r \in Runs : stage[r] # "truncated"
            /\ \A y \in served : HasSite(copy', y)
    BY <2>3, <2>4 DEF SiteInv
  <2> QED BY <2>1, <2>5, <2>6 DEF SiteInv, HasSite, requestVars
<1>14. CASE UNCHANGED vars
  <2>1. \A q \in Runs : QuietRun(q)
    BY <1>14 DEF vars, QuietRun, SiteInv, requestVars, siteVars
  <2> QED BY <1>14, <2>1, QuietSites DEF vars, siteVars, successVars
<1> QED BY <1>1, <1>2, <1>3, <1>4, <1>5, <1>6, <1>7, <1>8, <1>9, <1>10, <1>11, <1>12,
           <1>13, <1>14 DEF Next, RunStep, Removal

(* The host starts with nobody at work, and knows what was installed.      *)
LEMMA InitSurface == Init => CrowdInv /\ WrapperInv /\ SiteInv
<1> SUFFICES ASSUME Init PROVE CrowdInv /\ WrapperInv /\ SiteInv
  OBVIOUS
<1>1. noted = up /\ noted = wrappers
  BY DEF Init, InitWith
<1>2. Working = {}
  BY DEF Init, Working, Apart
<1>3. ~Removing
  BY DEF Init, Removing
<1> QED BY <1>1, <1>2, <1>3 DEF Init, CrowdInv, WrapperInv, SiteInv, Sited

(* When nobody is at work, wrappers and Caddyfile know what is installed   *)
(* and served, but for what a failure, an overlap of runs or of a run and  *)
(* an uninstall, or a failed scan has left (install/execute.rs:2705-2790,  *)
(* 7712-7759, install/host/uninstall.rs:1129-1138).                        *)
THEOREM TheSurfaceKnows == Spec => []SurfaceKnowsAll
<1>1. WrapperInv /\ SiteInv => SurfaceKnowsAll
  BY DEF WrapperInv, SiteInv, SurfaceKnowsAll, HasSite, Working, Apart
<1> QED BY <1>1, InitTyped, NextTyped, InitNames, NextNames, InitSurface, NextCrowd,
           NextWrappers, NextSites, PTL DEF Spec
=============================================================================
