-------------------------------- MODULE Bench --------------------------------
(***************************************************************************)
(* The measurement bench: the operator changes the card with the scripts   *)
(* of CardDeploy and starts campaigns on it, whose evidence BaselineGate   *)
(* judges.  deploy.sh may be given any evidence root, one it has been      *)
(* given before too.  The operator undoes the last deploy not yet undone,  *)
(* and starts a campaign only after deploy.sh of the staged image reported *)
(* it verified ("deploy.sh first", run_campaign.sh).                       *)
(***************************************************************************)
EXTENDS CardDeploy, Campaign, BaselineGate, FiniteSets

CONSTANTS
  ProfileImage,   \* the runner image of the profile
  MaxScripts      \* bound on the scripts and campaigns the operator starts

VARIABLES
  scripts,
  booted,    \* history: the files the board booted from
  fresh      \* history: the campaign began in an empty directory

vars == <<cardVars, campVars, scripts, booted, fresh>>

Init ==
  /\ CardInit /\ CampInit
  /\ scripts = 0 /\ booted = {} /\ fresh = TRUE

\* The operator starts one thing more.
Begins == job = Idle /\ ~Running /\ scripts < MaxScripts /\ scripts' = scripts + 1

Start_script ==
  /\ Begins
  /\ \/ \E ev \in Roots : (\E src \in Runners : Deploy(src, ev)) \/ DeployMlek(ev)
     \/ /\ deploys # <<>>
        /\ \E ev \in Roots :
             \/ Last(deploys) = Current(ev) /\ Restore(ev)
             \/ Last(deploys) = Whole(ev) /\ RestoreMlek(ev)
  /\ UNCHANGED <<campVars, booted, fresh>>

Continue_script ==
  /\ Copy \/ Verify \/ Stopped
  /\ UNCHANGED <<campVars, scripts, booted, fresh>>

\* The board is rebooted from the card, then the campaign runs.
Measure ==
  /\ Begins
  /\ report.script = "deploy" /\ report.verified
  /\ Launch(report.src)
  /\ booted' = {card[f] : f \in Listed(card.IMAGES)}
  /\ fresh' = (dir' = <<>>)
  /\ UNCHANGED cardVars

Process == CampNext /\ UNCHANGED <<cardVars, scripts, booted, fresh>>

Next == Start_script \/ Continue_script \/ Measure \/ Process
Spec == Init /\ [][Next]_vars

Profile == [image |-> ProfileImage, repeats |-> task.repeats, checks |-> task.checks,
            ids |-> Sorted(task.ids)]

-----------------------------------------------------------------------------
\* The images and images.txt the board came with are not lost: each is on the card
\* or in the sealed backup of a deploy not undone, whatever script stops or fails
\* where.  They can be lost in two ways only: deploy.sh writes a backup again before
\* its deploy was undone, or a deploy seals a torn copy (deploy.sh:25-27).
OriginalsKept ==
  ~spoilt =>
    \A f \in Original :
      \/ card[f] = Stock
      \/ \E b \in ToSet(deploys) : /\ f \in DOMAIN vault[b].seal
                                   /\ vault[b].files[f] = Stock

\* A script that reports its restore verified has put the card back to what it was
\* before that deploy, whatever failed in between, or the deploy itself; unless the
\* backup was spoilt in one of the two ways.
RestoreUndoes ==
  /\ ~spoilt /\ job = Idle
  /\ report.script \in {"restore", "restore_mlek"} /\ report.verified
  => card = before[report.backup]

\* No file the directory holds contradicts this campaign: it began empty, or the
\* process came to its end.  One that ended without a row leaves an older runs.csv and
\* per_event.csv, beside a summary.json that names its refusal.
OfThisCampaign == fresh \/ pc = "ended"

\* A campaign that passes the gate ran on the image of the profile, though the
\* digests it records are those of the staging directory (run_campaign.sh).
PassIsOfTheProfileImage ==
  OfThisCampaign /\ gate(dir, Profile) = "BASELINE_PASS" => booted = {ProfileImage}

\* A campaign that passes the gate made every RUN asked for, each of them valid, with
\* the right output and no overflow; so none was refused or lost, and in a new
\* directory none was killed half-way.  In a used one, a campaign killed after runs.csv
\* may pass with the older summary.json (run_pmu_events.py:52).
PassMeansEveryRunClean ==
  OfThisCampaign /\ gate(dir, Profile) = "BASELINE_PASS" =>
    /\ pc = "ended" /\ Len(raw) = task.repeats
    /\ \A n \in DOMAIN raw :
         /\ run_validity(raw[n], task.mode) = {}
         /\ raw[n].bad \cap {"rc_zero", "vendor_rc_zero", "ofm_equal"} = {}
         /\ raw[n].over \cap ToSet(task.ids) = {}

\* An event is reported as counted only if every RUN that measured it was valid.
CountedMeansEveryRunValid ==
  OfThisCampaign /\ "per_event" \in DOMAIN dir =>
    \A ev \in DOMAIN dir.per_event :
      dir.per_event[ev] # "NOT_OBSERVED" =>
        \A n \in DOMAIN rows : rows[n].ev_type = ev => rows[n].run_valid

\* "archive every run": once the process has ended by itself, the RUNs it made are
\* in raw_runs.json.
ArchivesEveryRun ==
  pc \in {"ended", "crashed"} /\ raw # <<>> => "raw" \in DOMAIN dir /\ dir.raw = raw
=============================================================================
