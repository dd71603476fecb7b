----------------------------- MODULE CardDeploy -----------------------------
(***************************************************************************)
(* The scripts that change the board's card (deploy.sh, restore.sh,        *)
(* deploy_mlek.sh, restore_mlek.sh): back up, write file by file, verify.  *)
(* The content of a file is named after the image set it comes from.  A    *)
(* write, to the card or to a backup, may fail, or succeed and leave other *)
(* bytes (Torn); the script may be stopped between two commands.           *)
(***************************************************************************)
EXTENDS Naturals, Sequences, SequencesExt

CONSTANTS
  Runners,    \* image sets for deploy.sh
  Mlek,       \* the image set of deploy_mlek.sh
  Roots,      \* evidence roots
  MaxFaults   \* bound on failed and silently torn writes, of the card and the backups

VARIABLES
  card,     \* file -> content
  vault,    \* backup -> its files, and backup.sha256 as seal
  job,      \* the script under way: the writes left and what verify expects
  report,   \* how the last script ended
  faults,
  deploys,  \* the backups of the deploys not undone, the last one last
  before,   \* history: backup -> the card when it was sealed
  spoilt    \* history: a backup was written again before its deploy was undone,
            \* or sealed with a torn copy in it

cardVars == <<card, vault, job, report, faults, deploys, before, spoilt>>

Stock  == "stock"
Torn   == "torn"
Absent == "absent"
Idle   == [script |-> "none"]
NoBackup == <<>>
Unused == [files |-> NoBackup, seal |-> NoBackup]

\* board-backup/current of an evidence root (deploy.sh), and board-backup itself.
Current(ev) == <<ev, "current">>
Whole(ev)   == <<ev, "whole">>
Backups     == Roots \X {"current", "whole"}

Booted  == <<"VECTORS", "APP", "DDR">>      \* images.txt of the board
Kept    == <<"IMAGES", "APP", "VECTORS", "DDR">>
Original == ToSet(Kept)
Added    == {"BOOT", "BRAM"}
MlekSet  == <<"BOOT", "BRAM", "DDR", "IMAGES">>

\* The image files images.txt names.
Listed(list) ==
  IF list = Mlek THEN {"BOOT", "BRAM", "DDR"} ELSE IF list = Torn THEN {} ELSE ToSet(Booted)

CardInit ==
  /\ card = [f \in Original \cup Added |-> IF f \in Added THEN Absent ELSE Stock]
  /\ vault = [b \in Backups |-> Unused]
  /\ job = Idle
  /\ report = [script |-> "none", backup |-> <<>>, src |-> "none", verified |-> FALSE]
  /\ faults = 0 /\ deploys = <<>>
  /\ before = [b \in Backups |-> NoBackup] /\ spoilt = FALSE

Writes(files, content) == [n \in DOMAIN files |-> [file |-> files[n], content |-> content[files[n]]]]
Start(script, b, src, todo, want) ==
  job' = [script |-> script, backup |-> b, src |-> src, todo |-> todo, want |-> want]
Ends(script, b, src, ok) ==
  /\ job' = Idle
  /\ report' = [script |-> script, backup |-> b, src |-> src, verified |-> ok]

Fault == faults < MaxFaults /\ faults' = faults + 1

\* Files are copied to the evidence root, over those of an older backup, and sealed
\* with the digests of the copies: a copy torn unnoticed is sealed as it is.
Backup(b, files) ==
  LET copy == [f \in files |-> card[f]]
      Sealed(kept) == vault' = [vault EXCEPT ![b] = [files |-> kept, seal |-> kept]]
  IN /\ \/ /\ Sealed(copy) /\ UNCHANGED faults
           /\ spoilt' = (spoilt \/ b \in ToSet(deploys))
        \/ /\ \E f \in files : Sealed([copy EXCEPT ![f] = Torn])
           /\ Fault /\ spoilt' = TRUE
     /\ before' = [before EXCEPT ![b] = card]
     /\ deploys' = Append(deploys, b)

\* The copy of one file fails: those before it are copied, an older seal stays.
BackupFails(b, files) ==
  /\ Fault
  /\ \E n \in DOMAIN files :
       LET copied == {files[k] : k \in 1 .. n - 1}
       IN vault' = [vault EXCEPT ![b].files =
                      [f \in DOMAIN @ \cup copied \cup {files[n]} |->
                         IF f \in copied THEN card[f] ELSE IF f = files[n] THEN Torn ELSE @[f]]]
  /\ spoilt' = (spoilt \/ b \in ToSet(deploys))
  /\ UNCHANGED <<before, deploys>>

-----------------------------------------------------------------------------
\* Mutant: the three files are written whatever images.txt names.
Discovers_Any == TRUE

\* deploy.sh: only if images.txt names exactly APP, DDR and VECTORS.
Discovers == Listed(card.IMAGES) = ToSet(Booted)

Deploy(src, ev) ==
  /\ job = Idle
  /\ \/ /\ Discovers
        /\ Backup(Current(ev), ToSet(Booted))
        /\ LET new == [f \in ToSet(Booted) |-> src]
           IN Start("deploy", Current(ev), src, Writes(Booted, new), new)
        /\ UNCHANGED report
     \/ /\ Discovers
        /\ BackupFails(Current(ev), Booted)
        /\ Ends("deploy", Current(ev), src, FALSE)
     \/ /\ ~Discovers
        /\ Ends("deploy", Current(ev), src, FALSE)
        /\ UNCHANGED <<vault, faults, deploys, before, spoilt>>
  /\ UNCHANGED card

\* restore.sh: the backup's files, verified against the seal.
Restore(ev) ==
  LET b == Current(ev)
  IN /\ job = Idle
     /\ vault[b].seal # NoBackup
     /\ Start("restore", b, "none", Writes(Booted, vault[b].files), vault[b].seal)
     /\ UNCHANGED <<card, vault, report, faults, deploys, before, spoilt>>

\* Mutant: a root with an older backup is written again.
NewRoot_Any(ev) == TRUE

\* deploy_mlek.sh takes a new evidence root only.
NewRoot(ev) == vault[Current(ev)] = Unused /\ vault[Whole(ev)] = Unused

DeployMlek(ev) ==
  /\ job = Idle
  /\ NewRoot(ev)
  /\ LET b == Whole(ev)
         new == [f \in ToSet(MlekSet) |-> Mlek]
         free == \A f \in Added : card[f] = Absent
     IN \/ /\ free
           /\ Backup(b, Original)
           /\ Start("deploy_mlek", b, Mlek, Writes(MlekSet, new), new)
           /\ UNCHANGED report
        \/ /\ BackupFails(b, Kept)
           /\ Ends("deploy_mlek", b, Mlek, FALSE)
        \/ /\ ~free
           /\ vault' = [vault EXCEPT ![b].files = [f \in Original |-> card[f]]]
           /\ Ends("deploy_mlek", b, Mlek, FALSE)
           /\ UNCHANGED <<faults, deploys, before, spoilt>>
  /\ UNCHANGED card

\* restore_mlek.sh removes BOOT and BRAM only if they equal the deployed source;
\* the listing of SOFTWARE/ must then be that of before the deploy.
RestoreMlek(ev) ==
  LET b == Whole(ev)
      back(files) == [f \in Original \cup Added |-> IF f \in Added THEN Absent ELSE files[f]]
  IN /\ job = Idle
     /\ vault[b].seal # NoBackup
     /\ \/ /\ \A f \in Added : card[f] = Mlek
           /\ Start("restore_mlek", b, Mlek, Writes(Kept \o <<"BOOT", "BRAM">>, back(vault[b].files)),
                    back(vault[b].seal))
           /\ UNCHANGED report
        \/ /\ \E f \in Added : card[f] # Mlek
           /\ Ends("restore_mlek", b, Mlek, FALSE)
     /\ UNCHANGED <<card, vault, faults, deploys, before, spoilt>>

-----------------------------------------------------------------------------
\* cp of one file, or rm.
Copy ==
  /\ job # Idle /\ job.todo # <<>>
  /\ LET w == Head(job.todo)
         Leaves(content) == card' = [card EXCEPT ![w.file] = content]
         Faulty == Fault /\ w.content # Absent
         OnWith == job' = [job EXCEPT !.todo = Tail(@)] /\ UNCHANGED report
     IN \/ Leaves(w.content) /\ OnWith /\ UNCHANGED faults
        \/ Leaves(Torn) /\ OnWith /\ Faulty
        \/ Leaves(Torn) /\ Faulty /\ Ends(job.script, job.backup, job.src, FALSE)
  /\ UNCHANGED <<vault, deploys, before, spoilt>>

\* Mutant: the digests of the card are not compared.
Equal_Skipped(want) == TRUE

\* sha256sum of the card's files against the expected digests.
Equal(want) == \A f \in DOMAIN want : card[f] = want[f]

\* A restore reported verified undoes its deploy.
Verify ==
  /\ job # Idle /\ job.todo = <<>>
  /\ Ends(job.script, job.backup, job.src, Equal(job.want))
  /\ deploys' = IF job.script \in {"restore", "restore_mlek"} /\ Equal(job.want)
                THEN Front(deploys) ELSE deploys
  /\ UNCHANGED <<card, vault, faults, before, spoilt>>

\* The script is stopped between two commands.
Stopped ==
  /\ job # Idle
  /\ Ends(job.script, job.backup, job.src, FALSE)
  /\ UNCHANGED <<card, vault, faults, deploys, before, spoilt>>
=============================================================================
