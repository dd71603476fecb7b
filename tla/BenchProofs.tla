----------------------------- MODULE BenchProofs -----------------------------
(***************************************************************************)
(* What the scripts keep of the card, whatever fails or stops and however  *)
(* many image sets, roots and scripts there are; that a campaign which     *)
(* passes the gate ran on the image of the profile and made every RUN      *)
(* asked for, each of them clean; and that no event is counted with a RUN  *)
(* of it invalid.                                                          *)
(***************************************************************************)
EXTENDS Bench, DataInduction, FiniteSetTheorems, SequenceTheorems, TLAPS

Files    == Original \cup Added
Contents == Runners \cup {Mlek, Stock, Torn, Absent}

LEMMA FileSets ==
  /\ ToSet(Booted) = {"VECTORS", "APP", "DDR"}
  /\ Original = {"IMAGES", "APP", "VECTORS", "DDR"}
  /\ Added = {"BOOT", "BRAM"}
  /\ ToSet(MlekSet) = {"BOOT", "BRAM", "DDR", "IMAGES"}
<1>1. ToSet(Booted) = {"VECTORS", "APP", "DDR"}
  BY DEF ToSet, Booted
<1>2. Original = {"IMAGES", "APP", "VECTORS", "DDR"}
  BY DEF Original, ToSet, Kept
<1>3. ToSet(MlekSet) = {"BOOT", "BRAM", "DDR", "IMAGES"}
  BY DEF ToSet, MlekSet
<1> QED BY <1>1, <1>2, <1>3 DEF Added

-----------------------------------------------------------------------------
(* The invariant of the deploys not undone, while no backup is spoilt.      *)

\* The files a backup holds, and those the scripts of its deploy write.
Holds(b)   == IF b[2] = "current" THEN ToSet(Booted) ELSE Original
Touched(b) == IF b[2] = "current" THEN ToSet(Booted) ELSE Files

\* The backup of a deploy not undone is what the card held when it was sealed.
SealedAs(b, kept, was) ==
  /\ kept.seal # NoBackup /\ DOMAIN kept.seal = Holds(b)
  /\ was \in [Files -> Contents]
  /\ kept.seal = [f \in Holds(b) |-> was[f]]
  /\ kept.files = kept.seal
  /\ b[2] # "current" => \A f \in Added : was[f] = Absent

Sealed ==
  \A i \in 1 .. Len(deploys) : SealedAs(deploys[i], vault[deploys[i]], before[deploys[i]])

\* One of the first k backups holds the original of f.
Guarded(kept, stack, f, k) ==
  \E i \in 1 .. k : /\ f \in DOMAIN kept[stack[i]].seal
                    /\ kept[stack[i]].files[f] = Stock

\* What a deploy not undone found of the originals, and what is left of them.
Safe ==
  /\ \A f \in Original : card[f] = Stock \/ Guarded(vault, deploys, f, Len(deploys))
  /\ \A i \in 1 .. Len(deploys) : \A f \in Original :
       before[deploys[i]][f] = Stock \/ Guarded(vault, deploys, f, i - 1)

Agree(c, b, T) == \A f \in Files \ T : c[f] = b[f]

\* Each of these deploys began where the one below it left the card.
Stack ==
  /\ \A i \in 1 .. Len(deploys) - 1 :
       Agree(before[deploys[i + 1]], before[deploys[i]], Touched(deploys[i]))
  /\ deploys # <<>> => Agree(card, before[Last(deploys)], Touched(Last(deploys)))

JobIsLast ==
  job # Idle =>
    /\ job = [script |-> job.script, backup |-> job.backup, src |-> job.src,
              todo |-> job.todo, want |-> job.want]
    /\ deploys # <<>> /\ job.backup = Last(deploys)
    /\ job.todo \in Seq([file : Files, content : Contents])
    /\ \A n \in 1 .. Len(job.todo) : job.todo[n].file \in Touched(job.backup)

JobWants ==
  job # Idle =>
    LET seal == vault[job.backup].seal IN
    /\ job.script = "restore" => job.backup[2] = "current" /\ job.want = seal
    /\ job.script = "restore_mlek" =>
         /\ job.backup[2] # "current"
         /\ job.want = [f \in Original \cup Added |-> IF f \in Added THEN Absent ELSE seal[f]]

Reported ==
  job = Idle /\ report.verified /\ report.script \in {"restore", "restore_mlek"} =>
    card = before[report.backup]

CardTypes ==
  /\ card \in [Files -> Contents]
  /\ vault = [b \in Backups |-> vault[b]] /\ before = [b \in Backups |-> before[b]]
  /\ deploys \in Seq(Backups)

CardInv ==
  CardTypes /\ Sealed /\ Safe /\ Stack /\ JobIsLast /\ JobWants /\ Reported

-----------------------------------------------------------------------------
LEMMA Start1 == Init => CardInv
<1> SUFFICES ASSUME Init PROVE CardInv
  OBVIOUS
<1> USE DEF Init, CardInit
<1>1. CardTypes
  <2>1. \A f \in Files : (IF f \in Added THEN Absent ELSE Stock) \in Contents
    BY DEF Contents
  <2>2. card \in [Files -> Contents]
    BY <2>1 DEF Files
  <2> QED BY <2>2 DEF CardTypes
<1>2. Sealed /\ Safe
  <2>1. \A f \in Original : card[f] = Stock
    BY FileSets
  <2> QED BY <2>1 DEF Sealed, Safe
<1>3. Stack /\ JobIsLast /\ JobWants /\ Reported
  BY DEF Stack, JobIsLast, JobWants, Reported
<1> QED BY <1>1, <1>2, <1>3 DEF CardInv

-----------------------------------------------------------------------------
(* Scripts that begin.                                                      *)

LEMMA BackupSets ==
  \A ev \in Roots :
    /\ Current(ev) \in Backups /\ Current(ev)[2] = "current"
    /\ Whole(ev) \in Backups /\ Whole(ev)[2] # "current"
BY DEF Current, Whole, Backups

\* The backups of the stack stay as they are, and so does the card.
LEMMA StackKept ==
  ASSUME CardInv, UNCHANGED <<card, before, deploys>>,
         \A i \in 1 .. Len(deploys) : vault'[deploys[i]] = vault[deploys[i]]
  PROVE  Sealed' /\ Safe' /\ Stack'
<1>1. Sealed'
  BY DEF CardInv, Sealed
<1>2. Safe'
  <2>1. Len(deploys) \in Nat
    BY DEF CardInv, CardTypes
  <2>2. ASSUME NEW f, NEW k \in 0 .. Len(deploys), Guarded(vault, deploys, f, k)
        PROVE  Guarded(vault', deploys', f, k)
    <3>1. \A i \in 1 .. k : i \in 1 .. Len(deploys)
      BY <2>1
    <3> QED BY <2>2, <3>1 DEF Guarded
  <2>3. \A i \in 1 .. Len(deploys) : i - 1 \in 0 .. Len(deploys)
    BY <2>1
  <2> QED BY <2>1, <2>2, <2>3 DEF CardInv, Safe
<1>3. Stack'
  BY DEF CardInv, Stack, Agree
<1> QED BY <1>1, <1>2, <1>3

\* A script that ends where it began, with the stack as it was.
LEMMA Failing ==
  ASSUME CardInv, vault' = [b \in Backups |-> vault'[b]],
         \A i \in 1 .. Len(deploys) : vault'[deploys[i]] = vault[deploys[i]],
         UNCHANGED <<card, before, deploys>>, job' = Idle, report'.verified = FALSE
  PROVE  CardInv'
<1>1. Sealed' /\ Safe' /\ Stack'
  BY StackKept
<1> QED BY <1>1 DEF CardInv, CardTypes, JobIsLast, JobWants, Reported

\* A backup that is not on the stack is written: the stack stays as it is.
LEMMA NotOnStack ==
  ASSUME CardInv, NEW b \in Backups, b \notin ToSet(deploys), NEW X, NEW Y,
         \/ vault' = [vault EXCEPT ![b].files = X]
         \/ vault' = [vault EXCEPT ![b] = Y]
  PROVE  /\ vault' = [c \in Backups |-> vault'[c]]
         /\ \A i \in 1 .. Len(deploys) : vault'[deploys[i]] = vault[deploys[i]]
<1>1. deploys \in Seq(Backups) /\ vault = [c \in Backups |-> vault[c]]
  BY DEF CardInv, CardTypes
<1>2. \A i \in 1 .. Len(deploys) : deploys[i] \in Backups /\ deploys[i] # b
  BY <1>1 DEF ToSet
<1>3. \A c \in Backups : c # b => vault'[c] = vault[c]
  BY <1>1
<1>4. vault' = [c \in Backups |-> vault'[c]]
  BY <1>1
<1> QED BY <1>2, <1>3, <1>4

\* A backup sealed as the card is goes on the stack.
LEMMA Stacking ==
  ASSUME CardInv, NEW b \in Backups, b \notin ToSet(deploys), UNCHANGED card,
         vault' = [vault EXCEPT ![b] = [files |-> [f \in Holds(b) |-> card[f]],
                                        seal |-> [f \in Holds(b) |-> card[f]]]],
         before' = [before EXCEPT ![b] = card], deploys' = Append(deploys, b),
         b[2] # "current" => \A f \in Added : card[f] = Absent
  PROVE  /\ CardTypes' /\ Sealed' /\ Safe' /\ Stack'
         /\ deploys' # <<>> /\ Last(deploys') = b
<1> USE DEF CardInv, CardTypes
<1> DEFINE copy == [f \in Holds(b) |-> card[f]]
           L == Len(deploys)
<1>1. /\ deploys' \in Seq(Backups) /\ Len(deploys') = L + 1 /\ L \in Nat
      /\ deploys'[L + 1] = b
      /\ \A i \in 1 .. L : deploys'[i] = deploys[i] /\ deploys[i] \in Backups
  OBVIOUS
<1>2. deploys' # <<>> /\ Last(deploys') = b
  BY <1>1 DEF Last
<1>3. \A i \in 1 .. L : deploys[i] # b
  BY <1>1 DEF ToSet
<1>4. /\ vault'[b].files = copy /\ vault'[b].seal = copy /\ before'[b] = card
      /\ \A c \in Backups : c # b => vault'[c] = vault[c] /\ before'[c] = before[c]
      /\ vault' = [c \in Backups |-> vault'[c]] /\ before' = [c \in Backups |-> before'[c]]
  <2> HIDE DEF copy
  <2>1. vault' = [vault EXCEPT ![b] = [files |-> copy, seal |-> copy]]
    BY DEF copy
  <2>2. vault'[b] = [files |-> copy, seal |-> copy]
    BY <2>1
  <2>3. \A c \in Backups : c # b => vault'[c] = vault[c] /\ before'[c] = before[c]
    BY <2>1
  <2>4. before'[b] = card
    OBVIOUS
  <2>5. vault' = [c \in Backups |-> vault'[c]]
    BY <2>1
  <2>6. before' = [c \in Backups |-> before'[c]]
    OBVIOUS
  <2> QED BY <2>2, <2>3, <2>4, <2>5, <2>6
<1>5. \A i \in 1 .. L : /\ vault'[deploys'[i]] = vault[deploys[i]]
                        /\ before'[deploys'[i]] = before[deploys[i]]
  BY <1>1, <1>3, <1>4
<1>6. \A i \in 1 .. L + 1 : i \in 1 .. L \/ i = L + 1
  BY <1>1
<1>7. CardTypes'
  BY <1>1, <1>4
<1>8. Sealed'
  <2>1. /\ copy # NoBackup /\ DOMAIN copy = Holds(b)
        /\ card \in [Files -> Contents]
    <3>1. "APP" \in DOMAIN copy /\ "APP" \notin DOMAIN << >>
      BY FileSets DEF Holds
    <3> QED BY <3>1 DEF NoBackup
  <2> HIDE DEF copy
  <2>2. copy = [f \in Holds(b) |-> card[f]]
    BY DEF copy
  <2>3. SealedAs(b, vault'[b], before'[b])
    BY <1>4, <2>1, <2>2 DEF SealedAs
  <2>4. ASSUME NEW i \in 1 .. L + 1
        PROVE  SealedAs(deploys'[i], vault'[deploys'[i]], before'[deploys'[i]])
    <3>1. CASE i \in 1 .. L
      BY <1>1, <1>5, <3>1 DEF Sealed
    <3> QED BY <1>1, <1>6, <2>3, <3>1
  <2> QED BY <1>1, <2>4 DEF Sealed
<1>9. ASSUME NEW f, NEW k \in 0 .. L, Guarded(vault, deploys, f, k)
      PROVE  Guarded(vault', deploys', f, k)
  <2>1. \A i \in 1 .. k : i \in 1 .. L
    BY <1>1
  <2> QED BY <1>5, <1>9, <2>1 DEF Guarded
<1>10. Safe'
  <2>1. ASSUME NEW f \in Original
        PROVE  \/ card[f] = Stock
               \/ Guarded(vault', deploys', f, L) /\ Guarded(vault', deploys', f, L + 1)
    <3>1. CASE Guarded(vault, deploys, f, L)
      <4>1. Guarded(vault', deploys', f, L)
        <5>1. L \in 0 .. L
          BY <1>1
        <5> HIDE DEF L
        <5> QED BY <5>1, <1>9, <3>1
      <4>2. \A i \in 1 .. L : i \in 1 .. L + 1
        BY <1>1
      <4> QED BY <4>1, <4>2 DEF Guarded
    <3> QED BY <3>1 DEF Safe
  <2>2. ASSUME NEW i \in 1 .. L + 1, NEW f \in Original
        PROVE  before'[deploys'[i]][f] = Stock \/ Guarded(vault', deploys', f, i - 1)
    <3>1. CASE i \in 1 .. L
      <4>1. i - 1 \in 0 .. L
        BY <1>1, <3>1
      <4> QED BY <1>5, <1>9, <3>1, <4>1 DEF Safe
    <3>2. CASE i = L + 1
      <4>1. i - 1 = L /\ before'[deploys'[i]] = card
        BY <1>1, <1>4, <3>2
      <4> QED BY <2>1, <4>1
    <3> QED BY <1>6, <3>1, <3>2
  <2> QED BY <1>1, <2>1, <2>2 DEF Safe
<1>11. Stack'
  <2>1. ASSUME NEW i \in 1 .. L
        PROVE  Agree(before'[deploys'[i + 1]], before'[deploys'[i]], Touched(deploys'[i]))
    <3>1. CASE i = L
      <4>1. deploys # <<>> /\ Last(deploys) = deploys[i]
        BY <3>1, <1>1 DEF Last
      <4>2. Agree(card, before[deploys[i]], Touched(deploys[i]))
        BY <4>1 DEF Stack
      <4>3. before'[deploys'[i + 1]] = card
        BY <3>1, <1>1, <1>4
      <4>4. before'[deploys'[i]] = before[deploys[i]] /\ deploys'[i] = deploys[i]
        BY <1>1, <1>5
      <4> QED BY <4>2, <4>3, <4>4
    <3>2. CASE i # L
      <4>1. i \in 1 .. L - 1 /\ i + 1 \in 1 .. L
        BY <3>2, <1>1
      <4>2. Agree(before[deploys[i + 1]], before[deploys[i]], Touched(deploys[i]))
        BY <4>1 DEF Stack
      <4>3. /\ before'[deploys'[i]] = before[deploys[i]] /\ deploys'[i] = deploys[i]
            /\ before'[deploys'[i + 1]] = before[deploys[i + 1]]
        BY <1>1, <1>5, <4>1
      <4> QED BY <4>2, <4>3
    <3> QED BY <3>1, <3>2
  <2>2. Agree(card', before'[Last(deploys')], Touched(Last(deploys')))
    BY <1>2, <1>4 DEF Agree
  <2>3. Len(deploys') - 1 = L
    BY <1>1
  <2> QED BY <2>1, <2>2, <2>3 DEF Stack
<1> QED BY <1>2, <1>7, <1>8, <1>10, <1>11

LEMMA WritesOf ==
  ASSUME NEW S \in SUBSET Files, NEW files \in Seq(S), NEW content,
         \A f \in S : content[f] \in Contents
  PROVE  /\ Writes(files, content) \in Seq([file : Files, content : Contents])
         /\ \A n \in 1 .. Len(Writes(files, content)) : Writes(files, content)[n].file \in S
<1>1. DOMAIN files = 1 .. Len(files) /\ Len(files) \in Nat /\ \A n \in 1 .. Len(files) : files[n] \in S
  OBVIOUS
<1>2. Writes(files, content) =
        [n \in 1 .. Len(files) |-> [file |-> files[n], content |-> content[files[n]]]]
  BY <1>1 DEF Writes
<1>3. \A n \in 1 .. Len(files) :
        [file |-> files[n], content |-> content[files[n]]] \in [file : Files, content : Contents]
  BY <1>1
<1> QED BY <1>1, <1>2, <1>3

LEMMA ScriptFiles ==
  /\ Booted \in Seq(ToSet(Booted)) /\ MlekSet \in Seq(Files)
  /\ Kept \o <<"BOOT", "BRAM">> \in Seq(Files)
  /\ ToSet(Booted) \subseteq Original /\ Original \subseteq Files
BY FileSets DEF Booted, MlekSet, Kept, Files


\* A deploy whose backup is copied and sealed right goes on with its writes.
LEMMA DeployGoesOn ==
  ASSUME CardInv, NEW b \in Backups, NEW files \in Seq(Touched(b)), NEW src \in Contents,
         NEW script \in {"deploy", "deploy_mlek"},
         Backup(b, Holds(b)), ~spoilt', UNCHANGED card,
         Start(script, b, src, Writes(files, [f \in ToSet(files) |-> src]),
               [f \in ToSet(files) |-> src]),
         b[2] # "current" => \A f \in Added : card[f] = Absent
  PROVE  CardInv'
<1> DEFINE new == [f \in ToSet(files) |-> src]
           todo == Writes(files, new)
<1>1. /\ b \notin ToSet(deploys) /\ before' = [before EXCEPT ![b] = card]
      /\ deploys' = Append(deploys, b)
      /\ vault' = [vault EXCEPT ![b] = [files |-> [f \in Holds(b) |-> card[f]],
                                        seal |-> [f \in Holds(b) |-> card[f]]]]
  BY DEF Backup
<1>2. /\ CardTypes' /\ Sealed' /\ Safe' /\ Stack' /\ deploys' # <<>> /\ Last(deploys') = b
  BY <1>1, Stacking
<1>3. job' = [script |-> script, backup |-> b, src |-> src, todo |-> todo, want |-> new]
  BY DEF Start
<1>4. /\ todo \in Seq([file : Files, content : Contents])
      /\ \A n \in 1 .. Len(todo) : todo[n].file \in Touched(b)
  <2>1. ToSet(files) \subseteq Touched(b) /\ files \in Seq(ToSet(files))
    <3>1. DOMAIN files = 1 .. Len(files) /\ Len(files) \in Nat
          /\ \A n \in 1 .. Len(files) : files[n] \in Touched(b)
      OBVIOUS
    <3>2. \A n \in 1 .. Len(files) : files[n] \in ToSet(files)
      BY <3>1 DEF ToSet
    <3>3. files \in Seq(ToSet(files))
      BY <3>1, <3>2
    <3> QED BY <3>1, <3>3 DEF ToSet
  <2>2. Touched(b) \subseteq Files
    BY ScriptFiles DEF Touched
  <2>3. \A f \in ToSet(files) : new[f] \in Contents
    OBVIOUS
  <2> HIDE DEF new
  <2> QED BY <2>1, <2>2, <2>3, WritesOf
<1> HIDE DEF new, todo
<1>5. job' # Idle
  BY <1>3 DEF Idle
<1>6. JobIsLast'
  BY <1>2, <1>3, <1>4 DEF JobIsLast
<1>7. JobWants' /\ Reported'
  BY <1>3, <1>5 DEF JobWants, Reported
<1> QED BY <1>2, <1>6, <1>7 DEF CardInv

\* A backup that fails, on a root that is not on the stack, leaves the stack.
LEMMA BackupFailing ==
  ASSUME CardInv, NEW b \in Backups, NEW files, BackupFails(b, files), ~spoilt', UNCHANGED card,
         job' = Idle, report'.verified = FALSE
  PROVE  CardInv'
<1>1. PICK X : vault' = [vault EXCEPT ![b].files = X]
  BY DEF BackupFails
<1>2. b \notin ToSet(deploys) /\ UNCHANGED <<before, deploys>>
  BY DEF BackupFails
<1>3. /\ vault' = [c \in Backups |-> vault'[c]]
      /\ \A i \in 1 .. Len(deploys) : vault'[deploys[i]] = vault[deploys[i]]
  BY <1>1, <1>2, NotOnStack
<1> QED BY <1>2, <1>3, Failing

LEMMA DeployStep ==
  ASSUME CardInv, NEW ev \in Roots, NEW src \in Runners, Deploy(src, ev), ~spoilt'
  PROVE  CardInv'
<1> DEFINE b == Current(ev)
<1>1. b \in Backups /\ b[2] = "current" /\ Holds(b) = ToSet(Booted) /\ Touched(b) = ToSet(Booted)
  BY BackupSets DEF Holds, Touched
<1> HIDE DEF b
<1>2. CASE /\ Backup(b, ToSet(Booted))
           /\ LET new == [f \in ToSet(Booted) |-> src]
              IN Start("deploy", b, src, Writes(Booted, new), new)
           /\ UNCHANGED card
  <2>1. Booted \in Seq(Touched(b)) /\ src \in Contents
    BY <1>1, ScriptFiles DEF Contents
  <2> QED BY <1>1, <1>2, <2>1, DeployGoesOn
<1>3. CASE BackupFails(b, Booted) /\ Ends("deploy", b, src, FALSE) /\ UNCHANGED card
  BY <1>1, <1>3, BackupFailing DEF Ends
<1>4. CASE Ends("deploy", b, src, FALSE) /\ UNCHANGED <<card, vault, deploys, before>>
  BY <1>4, Failing DEF Ends, CardInv, CardTypes
<1> QED BY <1>2, <1>3, <1>4 DEF Deploy, b

\* A new root is not on the stack.
LEMMA DeployMlekStep ==
  ASSUME CardInv, NEW ev \in Roots, DeployMlek(ev), ~spoilt'
  PROVE  CardInv'
<1> DEFINE b == Whole(ev)
<1>1. /\ b \in Backups /\ b[2] # "current" /\ Holds(b) = Original /\ Touched(b) = Files
      /\ vault[b] = Unused /\ UNCHANGED card
  BY BackupSets DEF Holds, Touched, DeployMlek, NewRoot
<1> HIDE DEF b
<1>2. CASE /\ \A f \in Added : card[f] = Absent
           /\ Backup(b, Original)
           /\ LET new == [f \in ToSet(MlekSet) |-> Mlek]
              IN Start("deploy_mlek", b, Mlek, Writes(MlekSet, new), new)
  <2>1. MlekSet \in Seq(Touched(b)) /\ Mlek \in Contents
    BY <1>1, ScriptFiles DEF Contents
  <2> QED BY <1>1, <1>2, <2>1, DeployGoesOn
<1>3. CASE BackupFails(b, Kept) /\ Ends("deploy_mlek", b, Mlek, FALSE)
  BY <1>1, <1>3, BackupFailing DEF Ends
<1>4. CASE /\ vault' = [vault EXCEPT ![b].files = [f \in Original |-> card[f]]]
           /\ Ends("deploy_mlek", b, Mlek, FALSE) /\ UNCHANGED <<deploys, before>>
  <2>1. b \notin ToSet(deploys)
    <3>1. ASSUME NEW i \in 1 .. Len(deploys), deploys[i] = b PROVE FALSE
      <4>1. SealedAs(b, vault[b], before[b])
        BY <3>1 DEF CardInv, Sealed
      <4> QED BY <1>1, <4>1 DEF SealedAs, Unused, NoBackup
    <3>2. DOMAIN deploys = 1 .. Len(deploys)
      BY DEF CardInv, CardTypes
    <3> QED BY <3>1, <3>2 DEF ToSet
  <2>2. /\ vault' = [c \in Backups |-> vault'[c]]
        /\ \A i \in 1 .. Len(deploys) : vault'[deploys[i]] = vault[deploys[i]]
    BY <1>1, <1>4, <2>1, NotOnStack
  <2> QED BY <1>1, <1>4, <2>2, Failing DEF Ends
<1> QED BY <1>1, <1>2, <1>3, <1>4 DEF DeployMlek, b

\* The backup of the last deploy not undone holds what was before it.
LEMMA LastSealed ==
  ASSUME CardInv, deploys # <<>>
  PROVE  LET b == Last(deploys)
             seal == vault[b].seal
         IN /\ b \in Backups /\ b = deploys[Len(deploys)] /\ Len(deploys) \in 1 .. Len(deploys)
            /\ Len(deploys) \in Nat
            /\ DOMAIN seal = Holds(b) /\ Holds(b) \subseteq Original /\ vault[b].files = seal
            /\ before[b] \in [Files -> Contents]
            /\ \A f \in Holds(b) : seal[f] = before[b][f] /\ seal[f] \in Contents
            /\ b[2] # "current" => \A f \in Added : before[b][f] = Absent
<1> DEFINE b == deploys[Len(deploys)]
           seal == vault[b].seal
<1>1. /\ Len(deploys) \in 1 .. Len(deploys) /\ Len(deploys) \in Nat
      /\ Last(deploys) = b /\ b \in Backups
  BY DEF CardInv, CardTypes, Last
<1>2. /\ DOMAIN seal = Holds(b) /\ vault[b].files = seal /\ before[b] \in [Files -> Contents]
      /\ seal = [f \in Holds(b) |-> before[b][f]]
      /\ b[2] # "current" => \A f \in Added : before[b][f] = Absent
  BY <1>1 DEF CardInv, Sealed, SealedAs
<1>3. Holds(b) \subseteq Original /\ Holds(b) \subseteq Files
  BY ScriptFiles DEF Holds
<1>4. \A f \in Holds(b) : seal[f] = before[b][f] /\ seal[f] \in Contents
  <2> HIDE DEF seal, b
  <2> QED BY <1>2, <1>3
<1> QED BY <1>1, <1>2, <1>3, <1>4

\* A restore begins with the last backup.
LEMMA RestoreBegins ==
  ASSUME CardInv, deploys # <<>>, UNCHANGED <<card, vault, before, deploys>>,
         NEW files \in Seq(Touched(Last(deploys))), NEW script, NEW src, NEW content, NEW want,
         \A f \in Touched(Last(deploys)) : content[f] \in Contents,
         Start(script, Last(deploys), src, Writes(files, content), want)
  PROVE  /\ CardTypes' /\ Sealed' /\ Safe' /\ Stack' /\ JobIsLast' /\ Reported'
         /\ job' # Idle /\ job'.script = script /\ job'.backup = Last(deploys) /\ job'.want = want
<1> DEFINE b == Last(deploys)
           todo == Writes(files, content)
<1>1. Sealed' /\ Safe' /\ Stack' /\ CardTypes'
  BY StackKept DEF CardInv, CardTypes
<1>2. job' = [script |-> script, backup |-> b, src |-> src, todo |-> todo, want |-> want]
  BY DEF Start
<1>3. Touched(b) \subseteq Files
  BY ScriptFiles DEF Touched
<1>4. /\ todo \in Seq([file : Files, content : Contents])
      /\ \A n \in 1 .. Len(todo) : todo[n].file \in Touched(b)
  <2> HIDE DEF b
  <2> QED BY <1>3, WritesOf DEF b
<1> HIDE DEF todo
<1>5. job' # Idle
  BY <1>2 DEF Idle
<1>6. JobIsLast'
  BY <1>2, <1>4 DEF JobIsLast
<1>7. Reported'
  BY <1>5 DEF Reported
<1> QED BY <1>1, <1>2, <1>5, <1>6, <1>7

LEMMA RestoreStep ==
  ASSUME CardInv, NEW ev \in Roots, deploys # <<>>, Last(deploys) = Current(ev), Restore(ev)
  PROVE  CardInv'
<1> DEFINE b == Current(ev)
           seal == vault[b].seal
<1>1. /\ b[2] = "current" /\ Touched(b) = ToSet(Booted) /\ vault[b].files = seal
      /\ \A f \in ToSet(Booted) : seal[f] \in Contents
  BY LastSealed, BackupSets DEF Holds, Touched
<1>2. Start("restore", b, "none", Writes(Booted, seal), seal)
      /\ UNCHANGED <<card, vault, before, deploys>>
  BY <1>1 DEF Restore
<1>3. Booted \in Seq(Touched(b))
  BY <1>1, ScriptFiles
<1>4. /\ CardTypes' /\ Sealed' /\ Safe' /\ Stack' /\ JobIsLast' /\ Reported'
      /\ job'.script = "restore" /\ job'.backup = b /\ job'.want = seal
  <2> HIDE DEF b, seal
  <2> QED BY <1>1, <1>2, <1>3, RestoreBegins DEF b
<1>5. JobWants'
  BY <1>1, <1>2, <1>4 DEF JobWants
<1> QED BY <1>4, <1>5 DEF CardInv

LEMMA RestoreMlekStep ==
  ASSUME CardInv, NEW ev \in Roots, deploys # <<>>, Last(deploys) = Whole(ev), RestoreMlek(ev)
  PROVE  CardInv'
<1> DEFINE b == Whole(ev)
           seal == vault[b].seal
           back == [f \in Original \cup Added |-> IF f \in Added THEN Absent ELSE seal[f]]
           all == Kept \o <<"BOOT", "BRAM">>
<1>1. /\ b[2] # "current" /\ Touched(b) = Files /\ vault[b].files = seal
      /\ \A f \in Original : seal[f] \in Contents
  BY LastSealed, BackupSets DEF Holds, Touched
<1>2. UNCHANGED <<card, vault, before, deploys>>
  BY DEF RestoreMlek
<1>3. CASE Start("restore_mlek", b, Mlek, Writes(all, back), back)
  <2>1. all \in Seq(Touched(b)) /\ \A f \in Touched(b) : back[f] \in Contents
    <3>1. \A f \in Files : back[f] \in Contents
      BY <1>1 DEF Files, Contents
    <3> QED BY <1>1, <3>1, ScriptFiles
  <2>2. /\ CardTypes' /\ Sealed' /\ Safe' /\ Stack' /\ JobIsLast' /\ Reported'
        /\ job'.script = "restore_mlek" /\ job'.backup = b /\ job'.want = back
    <3> HIDE DEF b, back, all
    <3> QED BY <1>2, <1>3, <2>1, RestoreBegins DEF b
  <2>3. JobWants'
    BY <1>1, <1>2, <2>2 DEF JobWants
  <2> QED BY <2>2, <2>3 DEF CardInv
<1>4. CASE Ends("restore_mlek", b, Mlek, FALSE)
  BY <1>2, <1>4, Failing DEF Ends, CardInv, CardTypes
<1> QED
  <2>1. vault[b].files = seal
    BY <1>1
  <2> QED BY <1>3, <1>4, <2>1 DEF RestoreMlek
-----------------------------------------------------------------------------
(* A script goes on.                                                       *)

LEMMA JobFacts ==
  ASSUME CardInv, job # Idle
  PROVE  /\ deploys # <<>> /\ job.backup = Last(deploys) /\ Touched(job.backup) \subseteq Files
         /\ \A f \in Touched(job.backup) \cap Original : Guarded(vault, deploys, f, Len(deploys))
<1> DEFINE b == Last(deploys)
           L == Len(deploys)
<1>1. deploys # <<>> /\ job.backup = b
  BY DEF CardInv, JobIsLast
<1>2. /\ b = deploys[L] /\ L \in 1 .. L /\ L \in Nat
      /\ DOMAIN vault[b].seal = Holds(b) /\ vault[b].files = vault[b].seal
      /\ \A f \in Holds(b) : vault[b].seal[f] = before[b][f]
  BY <1>1, LastSealed
<1>3. Touched(b) \subseteq Files /\ Touched(b) \cap Original = Holds(b)
  BY ScriptFiles DEF Touched, Holds
<1>4. ASSUME NEW f \in Holds(b), f \in Original PROVE Guarded(vault, deploys, f, L)
  <2>1. CASE before[b][f] = Stock
    BY <1>2, <2>1 DEF Guarded
  <2>2. CASE Guarded(vault, deploys, f, L - 1)
    <3>1. \A n \in 1 .. L - 1 : n \in 1 .. L
      BY <1>2
    <3> QED BY <2>2, <3>1 DEF Guarded
  <2> QED BY <1>2, <1>4, <2>1, <2>2 DEF CardInv, Safe
<1> QED BY <1>1, <1>3, <1>4

\* A write of any content to a file the script may write.
LEMMA Writing ==
  ASSUME CardInv, job # Idle, NEW g \in Touched(job.backup), NEW c \in Contents,
         card' = [card EXCEPT ![g] = c], UNCHANGED <<vault, before, deploys>>
  PROVE  CardTypes' /\ Sealed' /\ Safe' /\ Stack'
<1>1. /\ Touched(job.backup) \subseteq Files /\ deploys # <<>> /\ job.backup = Last(deploys)
      /\ \A f \in Touched(job.backup) \cap Original : Guarded(vault, deploys, f, Len(deploys))
  BY JobFacts
<1>2. card' \in [Files -> Contents] /\ \A f \in Files : f # g => card'[f] = card[f]
  BY <1>1 DEF CardInv, CardTypes
<1>3. CardTypes' /\ Sealed'
  <2>1. CardTypes'
    BY <1>2 DEF CardInv, CardTypes
  <2> QED BY <2>1 DEF CardInv, Sealed
<1>4. Safe'
  <2>1. \A f, k : Guarded(vault', deploys', f, k) = Guarded(vault, deploys, f, k)
    BY DEF Guarded
  <2>2. \A f \in Original : card'[f] = Stock \/ Guarded(vault, deploys, f, Len(deploys))
    <3> SUFFICES ASSUME NEW f \in Original, ~Guarded(vault, deploys, f, Len(deploys))
                 PROVE  card'[f] = Stock
      OBVIOUS
    <3>1. f # g /\ f \in Files
      BY <1>1, ScriptFiles
    <3> QED BY <3>1, <1>2 DEF CardInv, Safe
  <2> QED BY <2>1, <2>2 DEF CardInv, Safe
<1>5. Stack'
  <2>1. Agree(card', before[Last(deploys)], Touched(Last(deploys)))
    BY <1>1, <1>2 DEF CardInv, Stack, Agree
  <2> QED BY <2>1 DEF CardInv, Stack, Agree
<1> QED BY <1>3, <1>4, <1>5

LEMMA SequenceEnds ==
  ASSUME NEW S, NEW s \in Seq(S), s # <<>>
  PROVE  /\ Len(s) \in Nat \ {0} /\ 1 \in 1 .. Len(s) /\ Head(s) = s[1] /\ Head(s) \in S
         /\ Last(s) = s[Len(s)]
         /\ Front(s) \in Seq(S) /\ Len(Front(s)) = Len(s) - 1
         /\ \A i \in 1 .. Len(s) - 1 : Front(s)[i] = s[i]
<1>1. Len(s) \in Nat \ {0} /\ 1 \in 1 .. Len(s) /\ Head(s) = s[1] /\ Head(s) \in S
  OBVIOUS
<1>2. Front(s) = [i \in 1 .. Len(s) - 1 |-> s[i]]
  BY <1>1 DEF Front
<1>3. \A i \in 1 .. Len(s) - 1 : s[i] \in S
  BY <1>1
<1>4. Front(s) \in Seq(S) /\ Len(Front(s)) = Len(s) - 1
  BY <1>1, <1>2, <1>3
<1> QED BY <1>1, <1>2, <1>4 DEF Last

LEMMA CopyStep ==
  ASSUME CardInv, Copy
  PROVE  CardInv'
<1> DEFINE w == Head(job.todo)
<1>1. /\ job # Idle /\ job.todo # <<>> /\ UNCHANGED <<vault, before, deploys>>
      /\ \/ card' = [card EXCEPT ![w.file] = w.content] \/ card' = [card EXCEPT ![w.file] = Torn]
      /\ \/ job' = [job EXCEPT !.todo = Tail(@)] /\ UNCHANGED report
         \/ job' = Idle /\ report'.verified = FALSE
  BY DEF Copy, Ends
<1>2. /\ job.todo \in Seq([file : Files, content : Contents])
      /\ \A n \in 1 .. Len(job.todo) : job.todo[n].file \in Touched(job.backup)
      /\ job = [script |-> job.script, backup |-> job.backup, src |-> job.src,
                todo |-> job.todo, want |-> job.want]
  BY <1>1 DEF CardInv, JobIsLast
<1>3. w.file \in Touched(job.backup) /\ w.content \in Contents /\ Torn \in Contents
  <2>1. job.todo[1] = w /\ 1 \in 1 .. Len(job.todo) /\ w \in [file : Files, content : Contents]
    BY <1>1, <1>2, SequenceEnds
  <2> QED BY <2>1, <1>2 DEF Contents
<1>4. CardTypes' /\ Sealed' /\ Safe' /\ Stack'
  <2> HIDE DEF w
  <2> QED BY <1>1, <1>3, Writing
<1>5. CASE job' = Idle /\ report'.verified = FALSE
  BY <1>4, <1>5 DEF CardInv, JobIsLast, JobWants, Reported
<1>6. CASE job' = [job EXCEPT !.todo = Tail(@)] /\ UNCHANGED report
  <2>1. job' = [script |-> job.script, backup |-> job.backup, src |-> job.src,
                todo |-> Tail(job.todo), want |-> job.want]
    BY <1>2, <1>6
  <2>2. job' # Idle
    BY <2>1 DEF Idle
  <2>3. /\ Tail(job.todo) \in Seq([file : Files, content : Contents])
        /\ \A n \in 1 .. Len(Tail(job.todo)) : Tail(job.todo)[n].file \in Touched(job.backup)
    BY <1>1, <1>2
  <2>4. JobIsLast'
    BY <1>1, <2>1, <2>3 DEF CardInv, JobIsLast
  <2>5. JobWants' /\ Reported'
    BY <1>1, <2>1, <2>2 DEF CardInv, JobWants, Reported
  <2> QED BY <1>4, <2>4, <2>5 DEF CardInv
<1> QED BY <1>1, <1>5, <1>6

\* Equal digests after a restore: the card is what it was before the deploy.
LEMMA VerifiedRestore ==
  ASSUME CardInv, job # Idle, Equal(job.want), job.script \in {"restore", "restore_mlek"}
  PROVE  card = before[job.backup]
<1> DEFINE b == job.backup
           seal == vault[b].seal
<1>1. deploys # <<>> /\ b = Last(deploys)
  BY JobFacts
<1>2. /\ card \in [Files -> Contents] /\ before[b] \in [Files -> Contents]
      /\ Agree(card, before[b], Touched(b)) /\ DOMAIN seal = Holds(b)
      /\ \A f \in Holds(b) : seal[f] = before[b][f]
      /\ b[2] # "current" => \A f \in Added : before[b][f] = Absent
  BY <1>1, LastSealed DEF CardInv, CardTypes, Stack
<1>3. CASE job.script = "restore"
  <2>1. /\ job.want = seal /\ Touched(b) = ToSet(Booted) /\ Holds(b) = ToSet(Booted)
    BY <1>3 DEF CardInv, JobWants, Touched, Holds
  <2>2. \A f \in Files : card[f] = before[b][f]
    BY <1>2, <2>1 DEF Equal, Agree
  <2> QED BY <1>2, <2>2
<1>4. CASE job.script = "restore_mlek"
  <2>1. /\ b[2] # "current" /\ Holds(b) = Original
        /\ job.want = [f \in Original \cup Added |-> IF f \in Added THEN Absent ELSE seal[f]]
    BY <1>4 DEF CardInv, JobWants, Holds
  <2>2. \A f \in Files : card[f] = before[b][f]
    BY <1>2, <2>1 DEF Equal, Files
  <2> QED BY <1>2, <2>2
<1> QED BY <1>3, <1>4

LEMMA VerifyStep ==
  ASSUME CardInv, Verify
  PROVE  CardInv'
<1>1. /\ job # Idle /\ job' = Idle
      /\ report' = [script |-> job.script, backup |-> job.backup, src |-> job.src,
                    verified |-> Equal(job.want)]
      /\ UNCHANGED <<card, vault, before>>
  BY DEF Verify, Ends
<1>2. Reported'
  <2>1. ASSUME report'.verified, report'.script \in {"restore", "restore_mlek"}
        PROVE  card' = before'[report'.backup]
    BY <1>1, <2>1, VerifiedRestore
  <2> QED BY <2>1 DEF Reported
<1>3. JobIsLast' /\ JobWants'
  BY <1>1 DEF JobIsLast, JobWants
<1>4. CASE UNCHANGED deploys
  BY <1>1, <1>2, <1>3, <1>4, StackKept DEF CardInv, CardTypes
<1>5. CASE /\ job.script \in {"restore", "restore_mlek"} /\ Equal(job.want)
           /\ deploys' = Front(deploys)
  <2> USE DEF CardInv, CardTypes
  <2> DEFINE L == Len(deploys)
  <2>1. deploys # <<>> /\ job.backup = Last(deploys) /\ card = before[job.backup]
    BY <1>1, <1>5, VerifiedRestore, JobFacts
  <2>2. /\ L \in Nat \ {0} /\ deploys' \in Seq(Backups) /\ Len(deploys') = L - 1
        /\ card = before[deploys[L]]
        /\ \A i \in 1 .. L - 1 : deploys'[i] = deploys[i] /\ i \in 1 .. L
    BY <1>5, <2>1, SequenceEnds
  <2>3. CardTypes' /\ Sealed'
    <3>1. CardTypes'
      BY <1>1, <2>2
    <3>2. ASSUME NEW i \in 1 .. L - 1
          PROVE  SealedAs(deploys'[i], vault'[deploys'[i]], before'[deploys'[i]])
      BY <1>1, <2>2 DEF Sealed
    <3> QED BY <2>2, <3>1, <3>2 DEF Sealed
  <2>4. Safe'
    <3>1. ASSUME NEW f, NEW k \in 0 .. L - 1, Guarded(vault, deploys, f, k)
          PROVE  Guarded(vault', deploys', f, k)
      <4>1. \A i \in 1 .. k : i \in 1 .. L - 1
        BY <2>2
      <4> QED BY <1>1, <2>2, <3>1, <4>1 DEF Guarded
    <3>2. ASSUME NEW f \in Original
          PROVE  card'[f] = Stock \/ Guarded(vault', deploys', f, L - 1)
      <4>1. L \in 1 .. L /\ L - 1 \in 0 .. L - 1
        BY <2>2
      <4>2. before[deploys[L]][f] = Stock \/ Guarded(vault, deploys, f, L - 1)
        BY <4>1 DEF Safe
      <4> QED BY <1>1, <2>2, <3>1, <4>1, <4>2
    <3>3. ASSUME NEW i \in 1 .. L - 1, NEW f \in Original
          PROVE  before'[deploys'[i]][f] = Stock \/ Guarded(vault', deploys', f, i - 1)
      <4>1. i \in 1 .. L /\ i - 1 \in 0 .. L - 1
        BY <2>2
      <4>2. before[deploys[i]][f] = Stock \/ Guarded(vault, deploys, f, i - 1)
        BY <4>1 DEF Safe
      <4> QED BY <1>1, <2>2, <3>1, <4>1, <4>2
    <3> QED BY <2>2, <3>2, <3>3 DEF Safe
  <2>5. Stack'
    <3>1. ASSUME NEW i \in 1 .. L - 2
          PROVE  Agree(before'[deploys'[i + 1]], before'[deploys'[i]], Touched(deploys'[i]))
      <4>1. i \in 1 .. L - 1 /\ i + 1 \in 1 .. L - 1
        BY <2>2
      <4>2. deploys'[i] = deploys[i] /\ deploys'[i + 1] = deploys[i + 1]
        BY <2>2, <4>1
      <4>3. Agree(before[deploys[i + 1]], before[deploys[i]], Touched(deploys[i]))
        BY <4>1 DEF Stack
      <4> QED BY <1>1, <4>2, <4>3
    <3>2. ASSUME deploys' # <<>>
          PROVE  Agree(card', before'[Last(deploys')], Touched(Last(deploys')))
      <4> DEFINE k == L - 1
      <4>1. k \in 1 .. L - 1 /\ k + 1 = L /\ Last(deploys') = deploys[k]
        BY <2>2, <3>2, SequenceEnds
      <4>2. Agree(before[deploys[k + 1]], before[deploys[k]], Touched(deploys[k]))
        BY <4>1 DEF Stack
      <4>3. Agree(card, before[deploys[k]], Touched(deploys[k]))
        BY <2>2, <4>1, <4>2
      <4> HIDE DEF k
      <4> QED BY <1>1, <4>1, <4>3
    <3>3. Len(deploys') - 1 = L - 2
      BY <2>2
    <3> QED BY <3>1, <3>2, <3>3 DEF Stack
  <2> QED BY <1>2, <1>3, <2>3, <2>4, <2>5
<1> QED BY <1>4, <1>5 DEF Verify

LEMMA StoppedStep ==
  ASSUME CardInv, Stopped
  PROVE  CardInv'
<1>1. job' = Idle /\ report'.verified = FALSE /\ UNCHANGED <<card, vault, before, deploys>>
  BY DEF Stopped, Ends
<1> QED BY <1>1, Failing DEF CardInv, CardTypes
-----------------------------------------------------------------------------
(* The theorems about the card.                                             *)

\* No script mends a spoilt backup.
LEMMA SpoiltStays == [Next]_vars => (spoilt => spoilt')
BY DEF Next, Start_script, Deploy, Backup, BackupFails, Restore, DeployMlek, RestoreMlek,
       Continue_script, Copy, Verify, Stopped, Measure, Process, vars, cardVars

LEMMA CardSteps == (~spoilt => CardInv) /\ [Next]_vars => (~spoilt => CardInv)'
<1> SUFFICES ASSUME ~spoilt => CardInv, [Next]_vars, ~spoilt' PROVE CardInv'
  OBVIOUS
<1>1. CardInv
  BY SpoiltStays
<1>2. CASE Start_script
  <2>1. ASSUME NEW ev \in Roots, (\E src \in Runners : Deploy(src, ev)) \/ DeployMlek(ev)
        PROVE  CardInv'
    BY <1>1, <2>1, DeployStep, DeployMlekStep
  <2>2. ASSUME NEW ev \in Roots, deploys # <<>>,
               \/ Last(deploys) = Current(ev) /\ Restore(ev)
               \/ Last(deploys) = Whole(ev) /\ RestoreMlek(ev)
        PROVE  CardInv'
    BY <1>1, <2>2, RestoreStep, RestoreMlekStep
  <2> QED BY <1>2, <2>1, <2>2 DEF Start_script
<1>3. CASE Continue_script
  BY <1>1, <1>3, CopyStep, VerifyStep, StoppedStep DEF Continue_script
<1>4. CASE UNCHANGED cardVars
  <2>1. UNCHANGED <<card, vault, job, report, before, deploys>>
    BY <1>4 DEF cardVars
  <2>2. Sealed' /\ Safe' /\ Stack'
    BY <1>1, <2>1, StackKept
  <2> QED BY <1>1, <2>1, <2>2 DEF CardInv, CardTypes, JobIsLast, JobWants, Reported
<1>5. CASE Measure \/ Process \/ UNCHANGED vars
  BY <1>4, <1>5 DEF Measure, Process, vars
<1> QED BY <1>2, <1>3, <1>5 DEF Next

LEMMA CardHolds == Spec => [](~spoilt => CardInv)
<1>1. Init => (~spoilt => CardInv)
  BY Start1
<1> QED BY <1>1, CardSteps, PTL DEF Spec

\* The images and images.txt the board came with are on the card or in the sealed
\* backup of a deploy not undone, whatever script fails or stops where, unless
\* deploy.sh wrote a backup again before its deploy was undone, or a torn copy of a
\* file was sealed (deploy.sh, restore.sh and theirs).
THEOREM OriginalsAreKept == Spec => []OriginalsKept
<1>1. CardInv => OriginalsKept
  <2> SUFFICES ASSUME CardInv, NEW f \in Original, Guarded(vault, deploys, f, Len(deploys))
               PROVE  \E b \in ToSet(deploys) : /\ f \in DOMAIN vault[b].seal
                                                /\ vault[b].files[f] = Stock
    BY DEF CardInv, Safe, OriginalsKept
  <2>1. DOMAIN deploys = 1 .. Len(deploys)
    BY DEF CardInv, CardTypes
  <2> QED BY <2>1 DEF Guarded, ToSet
<1>2. (~spoilt => CardInv) => OriginalsKept
  BY <1>1 DEF OriginalsKept
<1> QED BY <1>2, CardHolds, PTL

\* A restore reported verified puts the card back to what it was before the deploy it
\* undoes, for any number of deploys one over the other, unless a backup was spoilt
\* in one of these two ways (restore.sh).
THEOREM RestoresUndo == Spec => []RestoreUndoes
<1>1. (~spoilt => CardInv) => RestoreUndoes
  BY DEF CardInv, Reported, RestoreUndoes
<1> QED BY <1>1, CardHolds, PTL

-----------------------------------------------------------------------------
(* The deploys, spoilt or not: what is reported deployed is what boots.     *)

DeployInv ==
  /\ card = [f \in Files |-> card[f]]
  /\ job # Idle => job = [script |-> job.script, backup |-> job.backup, src |-> job.src,
                          todo |-> job.todo, want |-> job.want]
  /\ job # Idle /\ job.script = "deploy" =>
       /\ job.todo \in Seq([file : ToSet(Booted), content : Runners])
       /\ job.want = [f \in ToSet(Booted) |-> job.src] /\ Discovers
  /\ job = Idle /\ report.verified /\ report.script = "deploy" =>
       Discovers /\ \A f \in ToSet(Booted) : card[f] = report.src

\* A script that begins leaves the card; only deploy.sh begins a deploy.
LEMMA BeginsDeploy ==
  ASSUME DeployInv, Start_script
  PROVE  DeployInv'
<1>1. job = Idle
  BY DEF Start_script, Begins
<1>2. card' = card
  BY DEF Start_script, Deploy, DeployMlek, Restore, RestoreMlek
<1>3. ASSUME NEW ev \in Roots, NEW src \in Runners, Deploy(src, ev) PROVE DeployInv'
  <2> DEFINE new == [f \in ToSet(Booted) |-> src]
             todo == Writes(Booted, new)
  <2>1. CASE Discovers /\ Start("deploy", Current(ev), src, todo, new)
    <3>1. job' = [script |-> "deploy", backup |-> Current(ev), src |-> src, todo |-> todo,
                  want |-> new]
      BY <2>1 DEF Start
    <3>2. todo \in Seq([file : ToSet(Booted), content : Runners])
      <4>1. DOMAIN Booted = 1 .. 3 /\ \A n \in 1 .. 3 : Booted[n] \in ToSet(Booted)
        BY DEF Booted, ToSet
      <4>2. todo = [n \in 1 .. 3 |-> [file |-> Booted[n], content |-> new[Booted[n]]]]
        BY <4>1 DEF Writes
      <4>3. \A n \in 1 .. 3 : new[Booted[n]] \in Runners
        BY <4>1
      <4> HIDE DEF new, todo
      <4> QED BY <4>1, <4>2, <4>3
    <3> HIDE DEF todo
    <3>3. job' # Idle
      BY <3>1 DEF Idle
    <3>4. Discovers'
      BY <1>2, <2>1 DEF Discovers
    <3> QED BY <1>2, <3>1, <3>2, <3>3, <3>4 DEF DeployInv
  <2>2. CASE Ends("deploy", Current(ev), src, FALSE)
    BY <1>2, <2>2 DEF Ends, DeployInv
  <2> QED BY <1>3, <2>1, <2>2 DEF Deploy
<1>4. ASSUME NEW ev \in Roots, DeployMlek(ev) \/ Restore(ev) \/ RestoreMlek(ev) PROVE DeployInv'
  <2> DEFINE Begun(script) ==
        \E b, src, todo, want :
          job' = [script |-> script, backup |-> b, src |-> src, todo |-> todo, want |-> want]
  <2>1. \/ Begun("deploy_mlek") \/ Begun("restore") \/ Begun("restore_mlek")
        \/ job' = Idle /\ report'.verified = FALSE
    <3>1. CASE DeployMlek(ev)
      BY <3>1 DEF DeployMlek, Start, Ends
    <3>2. CASE Restore(ev)
      BY <3>2 DEF Restore, Start
    <3>3. CASE RestoreMlek(ev)
      BY <3>3 DEF RestoreMlek, Start, Ends
    <3> QED BY <1>4, <3>1, <3>2, <3>3
  <2>2. CASE job' = Idle /\ report'.verified = FALSE
    BY <1>2, <2>2 DEF DeployInv
  <2>3. CASE Begun("deploy_mlek") \/ Begun("restore") \/ Begun("restore_mlek")
    <3>1. /\ job' = [script |-> job'.script, backup |-> job'.backup, src |-> job'.src,
                     todo |-> job'.todo, want |-> job'.want]
          /\ job'.script # "deploy"
      BY <2>3
    <3>2. job' # Idle
      BY <3>1 DEF Idle
    <3> QED BY <1>2, <3>1, <3>2 DEF DeployInv
  <2> QED BY <2>1, <2>2, <2>3
<1> QED BY <1>3, <1>4 DEF Start_script

\* The files of a deploy are written, images.txt is not; then they are compared.
LEMMA GoesOnWithDeploy ==
  ASSUME DeployInv, Continue_script
  PROVE  DeployInv'
<1>1. CASE Copy
  <2> DEFINE w == Head(job.todo)
  <2>1. /\ job # Idle /\ job.todo # <<>>
        /\ \/ card' = [card EXCEPT ![w.file] = w.content] \/ card' = [card EXCEPT ![w.file] = Torn]
        /\ \/ job' = [job EXCEPT !.todo = Tail(@)] /\ UNCHANGED report
           \/ job' = Idle /\ report'.verified = FALSE
    BY <1>1 DEF Copy, Ends
  <2>2. card' = [f \in Files |-> card'[f]]
    BY <2>1 DEF DeployInv
  <2>3. CASE job' = Idle /\ report'.verified = FALSE
    BY <2>2, <2>3 DEF DeployInv
  <2>4. CASE job' = [job EXCEPT !.todo = Tail(@)]
    <3>1. job' = [script |-> job.script, backup |-> job.backup, src |-> job.src,
                  todo |-> Tail(job.todo), want |-> job.want]
      BY <2>1, <2>4 DEF DeployInv
    <3>2. job' # Idle
      BY <3>1 DEF Idle
    <3> SUFFICES ASSUME job'.script = "deploy"
                 PROVE  /\ job'.todo \in Seq([file : ToSet(Booted), content : Runners])
                        /\ job'.want = [f \in ToSet(Booted) |-> job'.src] /\ Discovers'
      BY <2>2, <3>1, <3>2 DEF DeployInv
    <3>3. /\ job.todo \in Seq([file : ToSet(Booted), content : Runners])
          /\ job.want = [f \in ToSet(Booted) |-> job.src] /\ Discovers
      BY <2>1, <3>1 DEF DeployInv
    <3>5. /\ w \in [file : ToSet(Booted), content : Runners]
          /\ Tail(job.todo) \in Seq([file : ToSet(Booted), content : Runners])
      <4> DEFINE W == [file : ToSet(Booted), content : Runners]
      <4>1. job.todo \in Seq(W)
        BY <3>3
      <4> HIDE DEF W
      <4>2. Head(job.todo) \in W /\ Tail(job.todo) \in Seq(W)
        BY <2>1, <4>1
      <4> QED BY <4>2 DEF W
    <3>6. w.file # "IMAGES" /\ "IMAGES" \in Files
      BY <3>5, FileSets DEF Files
    <3>7. card'.IMAGES = card.IMAGES
      BY <2>1, <3>6 DEF DeployInv
    <3> QED BY <3>1, <3>3, <3>5, <3>7 DEF Discovers, Listed
  <2> QED BY <2>1, <2>3, <2>4
<1>2. CASE Verify
  <2>1. /\ job # Idle /\ job' = Idle /\ UNCHANGED card
        /\ report' = [script |-> job.script, backup |-> job.backup, src |-> job.src,
                      verified |-> Equal(job.want)]
    BY <1>2 DEF Verify, Ends
  <2>2. ASSUME report'.verified, report'.script = "deploy"
        PROVE  Discovers' /\ \A f \in ToSet(Booted) : card'[f] = report'.src
    <3>1. Discovers /\ job.want = [f \in ToSet(Booted) |-> job.src] /\ Equal(job.want)
      BY <2>1, <2>2 DEF DeployInv
    <3> QED BY <2>1, <3>1 DEF Discovers, Equal
  <2> QED BY <2>1, <2>2 DEF DeployInv
<1>3. CASE Stopped
  BY <1>3 DEF Stopped, Ends, DeployInv
<1> QED BY <1>1, <1>2, <1>3 DEF Continue_script

LEMMA DeployHolds == Spec => []DeployInv
<1>1. Init => DeployInv
  <2> SUFFICES ASSUME Init PROVE DeployInv
    OBVIOUS
  <2>1. card = [f \in Files |-> card[f]] /\ job = Idle /\ report.verified = FALSE
    BY DEF Init, CardInit, Files
  <2> QED BY <2>1 DEF DeployInv
<1>2. DeployInv /\ [Next]_vars => DeployInv'
  <2> SUFFICES ASSUME DeployInv, [Next]_vars PROVE DeployInv'
    OBVIOUS
  <2>1. CASE UNCHANGED cardVars
    BY <2>1 DEF cardVars, DeployInv, Discovers
  <2> QED BY <2>1, BeginsDeploy, GoesOnWithDeploy DEF Next, Measure, Process, vars
<1> QED BY <1>1, <1>2, PTL DEF Spec

-----------------------------------------------------------------------------
\* The image a campaign records is the one the board booted from.
BootedRecorded == pc # "off" => booted = {image}

LEMMA BootedSteps == DeployInv /\ BootedRecorded /\ [Next]_vars => BootedRecorded'
<1> SUFFICES ASSUME DeployInv, BootedRecorded, [Next]_vars PROVE BootedRecorded'
  OBVIOUS
<1>1. CASE Measure
  <2>1. /\ job = Idle /\ report.script = "deploy" /\ report.verified /\ image' = report.src
        /\ booted' = {card[f] : f \in Listed(card.IMAGES)}
    BY <1>1 DEF Measure, Begins, Launch
  <2>2. /\ Listed(card.IMAGES) = {"VECTORS", "APP", "DDR"}
        /\ \A f \in ToSet(Booted) : card[f] = report.src
    BY <2>1, FileSets DEF DeployInv, Discovers
  <2>3. booted' = {image'}
    BY <2>1, <2>2, FileSets
  <2> QED BY <2>3 DEF BootedRecorded
<1>2. CASE Process
  <2>1. pc # "off" /\ UNCHANGED <<image, booted>>
    BY <1>2 DEF Process, CampNext, Ping, SetMode, prime, run, Write, Killed, Running, Then
  <2> QED BY <2>1 DEF BootedRecorded
<1>3. CASE Start_script \/ Continue_script \/ UNCHANGED vars
  <2>1. UNCHANGED <<campVars, booted>>
    BY <1>3 DEF Start_script, Continue_script, vars
  <2> QED BY <2>1 DEF BootedRecorded, campVars
<1> QED BY <1>1, <1>2, <1>3 DEF Next

LEMMA BootedHolds == Spec => []BootedRecorded
<1>1. Init => BootedRecorded
  BY DEF Init, CampInit, BootedRecorded
<1> QED BY <1>1, BootedSteps, DeployHolds, PTL DEF Spec

-----------------------------------------------------------------------------
(* The events of a campaign: the sets they are measured in.                *)

\* The events asked for, each once.
LEMMA AscendingIs ==
  ASSUME NEW S \in SUBSET Nat, IsFiniteSet(S)
  PROVE  LET f == Ascending(S) IN
         /\ f \in Seq(S) /\ Len(f) = Cardinality(S) /\ Cardinality(S) \in Nat
         /\ \A n, m \in 1 .. Len(f) : f[n] = f[m] => n = m
<1> DEFINE c == Cardinality(S)
           Below(x) == {y \in S : y < x}
           Rank(x) == Cardinality(Below(x))
           f == Ascending(S)
<1>1. c \in Nat
  BY FS_CardinalityType
<1>2. ASSUME NEW x \in S PROVE IsFiniteSet(Below(x)) /\ Rank(x) \in 0 .. c - 1
  <2>1. Below(x) \in SUBSET (S \ {x}) /\ x \in Nat
    OBVIOUS
  <2>2. IsFiniteSet(S \ {x}) /\ Cardinality(S \ {x}) = c - 1
    BY FS_RemoveElement
  <2> HIDE DEF Below, c
  <2>3. IsFiniteSet(Below(x)) /\ Cardinality(Below(x)) <= c - 1
    BY <2>1, <2>2, FS_Subset
  <2>4. Cardinality(Below(x)) \in Nat
    BY <2>3, FS_CardinalityType
  <2> QED BY <1>1, <2>3, <2>4
<1>3. ASSUME NEW x \in S, NEW z \in S, x < z PROVE Rank(x) < Rank(z)
  <2>1. Below(x) \cup {x} \in SUBSET Below(z) /\ x \notin Below(x)
    <3>1. \A u \in S : u \in Nat
      OBVIOUS
    <3>2. x \in Below(z) /\ x \notin Below(x)
      BY <1>3, <3>1
    <3>3. ASSUME NEW u \in Below(x) PROVE u \in Below(z)
      <4>1. u \in S /\ u < x
        OBVIOUS
      <4>2. u < z
        BY <1>3, <3>1, <4>1
      <4> QED BY <4>1, <4>2
    <3> HIDE DEF Below
    <3> QED BY <3>2, <3>3
  <2> HIDE DEF Below
  <2>2. Cardinality(Below(x) \cup {x}) = Rank(x) + 1
    BY <1>2, <2>1, FS_AddElement
  <2>3. Cardinality(Below(x) \cup {x}) <= Rank(z)
    BY <1>2, <2>1, FS_Subset
  <2> HIDE DEF Rank
  <2>4. Rank(x) \in Nat /\ Rank(z) \in Nat
    BY <1>1, <1>2
  <2> QED BY <2>2, <2>3, <2>4
<1> HIDE DEF Rank
<1>4. \A n \in 1 .. c : \E x \in S : Rank(x) = n - 1
  <2> DEFINE r == [x \in S |-> Rank(x)]
             T == 0 .. c - 1
  <2>1. r \in Injection(S, T)
    <3>1. r \in [S -> T]
      BY <1>2
    <3>2. ASSUME NEW x \in S, NEW z \in S, x # z PROVE Rank(x) # Rank(z)
      <4>1. x \in Nat /\ z \in Nat /\ (x < z \/ z < x)
        BY <3>2
      <4>2. Rank(x) \in Nat /\ Rank(z) \in Nat
        <5>1. Rank(x) \in 0 .. c - 1 /\ Rank(z) \in 0 .. c - 1
          BY <1>2, Zenon
        <5> HIDE DEF c
        <5> QED BY <1>1, <5>1
      <4> QED BY <1>3, <4>1, <4>2
    <3> QED BY <3>1, <3>2 DEF Injection, IsInjective
  <2>2. IsFiniteSet(T) /\ Cardinality(T) = c
    <3> HIDE DEF c
    <3>1. 0 \in Int /\ c - 1 \in Int /\ (IF 0 > c - 1 THEN 0 ELSE (c - 1) - 0 + 1) = c
      BY <1>1
    <3> QED BY <3>1, FS_Interval
  <2>3. r \in Surjection(S, T)
    <3> HIDE DEF r, T
    <3> QED BY <2>1, <2>2, FS_Injection
  <2>4. \A n \in 1 .. c : n - 1 \in T
    BY <1>1
  <2> HIDE DEF T
  <2> QED BY <2>3, <2>4 DEF Surjection
<1>5. f = [n \in 1 .. c |-> CHOOSE x \in S : Rank(x) = n - 1]
  BY Zenon DEF Ascending, Rank
<1> HIDE DEF f, c
<1>6. \A n \in 1 .. c : f[n] \in S /\ Rank(f[n]) = n - 1
  <2>1. ASSUME NEW n \in 1 .. c PROVE f[n] \in S /\ Rank(f[n]) = n - 1
    <3>1. f[n] = CHOOSE x \in S : Rank(x) = n - 1
      BY <1>5
    <3>2. \E x \in S : Rank(x) = n - 1
      BY <1>4
    <3> QED BY <3>1, <3>2, Zenon
  <2> QED BY <2>1
<1>7. f \in Seq(S) /\ Len(f) = c
  BY <1>1, <1>5, <1>6
<1>8. \A n, m \in 1 .. c : f[n] = f[m] => n = m
  <2>1. ASSUME NEW n \in 1 .. c, NEW m \in 1 .. c, f[n] = f[m] PROVE n = m
    <3>1. n - 1 = m - 1
      BY <1>6, <2>1
    <3> QED BY <3>1
  <2> QED BY <2>1
<1> QED BY <1>1, <1>7, <1>8 DEF f, c

\* The sets have each event once, in one of them.
LEMMA EventSetsAre ==
  ASSUME NEW t \in Tasks
  PROVE  LET es == event_sets(t.ids) IN
         /\ 1 \in DOMAIN es /\ DOMAIN es \subseteq Nat \ {0}
         /\ \A i \in DOMAIN es : es[i] \in Seq(Nat)
         /\ \A i, j \in DOMAIN es : \A a \in 1 .. Len(es[i]), b \in 1 .. Len(es[j]) :
              es[i][a] = es[j][b] => i = j /\ a = b
<1> DEFINE ids == t.ids
           S == ToSet(ids)
           s == Wanted(ids)
           l == Len(s)
           E == EventSlots
           es == event_sets(ids)
           from(i) == (i - 1) * E + 1
           to(i) == IF i * E < l THEN i * E ELSE l
<1>1. ids \in Seq(Nat) /\ ids # <<>> /\ E \in Nat /\ E >= 1
  BY CampaignAssumption
<1>2. S \in SUBSET Nat /\ IsFiniteSet(S) /\ S # {}
  <2>1. Len(ids) \in Nat /\ DOMAIN ids = 1 .. Len(ids) /\ 1 \in DOMAIN ids
        /\ \A i \in DOMAIN ids : ids[i] \in Nat
    BY <1>1, EmptySeq
  <2>2. S = {ids[i] : i \in DOMAIN ids}
    BY Zenon DEF ToSet
  <2>3. ids \in Surjection(1 .. Len(ids), S)
    BY <1>1, <2>1, <2>2 DEF Surjection
  <2>4. IsFiniteSet(1 .. Len(ids))
    BY <2>1, FS_Interval
  <2> HIDE DEF S
  <2>5. IsFiniteSet(S)
    BY <2>3, <2>4, FS_Surjection
  <2> QED BY <2>1, <2>2, <2>5
<1> HIDE DEF ids, S
<1>3. /\ s \in Seq(S) /\ l \in Nat /\ l >= 1
      /\ \A n, m \in 1 .. l : s[n] = s[m] => n = m
  <2>1. s = Ascending(S)
    BY Zenon DEF Wanted, S
  <2> HIDE DEF s
  <2>2. /\ s \in Seq(S) /\ Len(s) = Cardinality(S) /\ Cardinality(S) \in Nat
        /\ \A n, m \in 1 .. Len(s) : s[n] = s[m] => n = m
    BY <1>2, <2>1, AscendingIs
  <2>3. Cardinality(S) # 0
    BY <1>2, FS_EmptySet
  <2> QED BY <2>2, <2>3
<1>4. es = [i \in {k \in DOMAIN s : (k - 1) * E < l} |-> SubSeq(s, from(i), to(i))]
  BY Zenon DEF event_sets
<1> HIDE DEF s, l, E, es
<1>5. \A i : i \in DOMAIN es <=> i \in 1 .. l /\ (i - 1) * E < l
  <2>1. DOMAIN s = 1 .. l
    BY <1>3 DEF l
  <2> QED BY <1>4, <2>1
<1>6. 1 \in DOMAIN es /\ DOMAIN es \subseteq Nat \ {0}
  <2>1. 1 \in 1 .. l /\ (1 - 1) * E < l
    BY <1>1, <1>3
  <2>2. \A i \in 1 .. l : i \in Nat \ {0}
    BY <1>3
  <2> QED BY <1>5, <2>1, <2>2, Zenon
<1>7. \A x, y, e \in Nat : x < y => x * e + e <= y * e
  <2>1. \A x, k, e \in Nat : (x + 1 + k) * e = x * e + e + k * e /\ k * e \in Nat /\ x * e \in Nat
    OBVIOUS
  <2> SUFFICES ASSUME NEW x \in Nat, NEW y \in Nat, NEW e \in Nat, x < y PROVE x * e + e <= y * e
    OBVIOUS
  <2> DEFINE k == y - x - 1
  <2>2. k \in Nat /\ x + 1 + k = y
    OBVIOUS
  <2> HIDE DEF k
  <2>3. y * e = x * e + e + k * e /\ k * e \in Nat /\ x * e \in Nat
    BY <2>1, <2>2
  <2> QED BY <2>3
<1>8. ASSUME NEW i \in DOMAIN es
      PROVE  /\ es[i] \in Seq(Nat) /\ i \in Nat \ {0}
             /\ \A a \in 1 .. Len(es[i]) :
                  /\ a <= E /\ (i - 1) * E + a \in 1 .. l
                  /\ es[i][a] = s[(i - 1) * E + a]
  <2>1. i \in 1 .. l /\ i - 1 \in Nat /\ (i - 1) * E < l /\ (i - 1) * E \in Nat /\ i * E = (i - 1) * E + E
    <3>1. i \in 1 .. l /\ (i - 1) * E < l
      BY <1>5
    <3>2. i - 1 \in Nat
      BY <1>3, <3>1
    <3>3. \A x \in Nat : x * E \in Nat /\ (x + 1) * E = x * E + E
      BY <1>1
    <3>4. (i - 1) + 1 = i
      BY <1>3, <3>1
    <3> QED BY <3>1, <3>2, <3>3, <3>4
  <2> DEFINE z == (i - 1) * E
  <2>2. from(i) = z + 1 /\ to(i) = IF z + E < l THEN z + E ELSE l
    BY <2>1
  <2>3. es[i] = SubSeq(s, from(i), to(i))
    BY <1>4
  <2> DEFINE u == to(i)
  <2>4. es[i] = SubSeq(s, z + 1, u) /\ u = IF z + E < l THEN z + E ELSE l
    BY <2>2, <2>3
  <2>5. z \in Nat /\ z < l
    BY <2>1
  <2> HIDE DEF z, u
  <2>6. u \in Nat /\ z + 1 <= u /\ u <= l /\ u <= z + E /\ z + 1 \in Nat
    BY <1>1, <1>3, <2>4, <2>5
  <2>7. \A k \in z + 1 .. u : s[k] \in S
    <3>1. \A k \in z + 1 .. u : k \in 1 .. Len(s)
      BY <1>3, <2>5, <2>6 DEF l
    <3> QED BY <1>3, <3>1
  <2>8. /\ es[i] \in Seq(S) /\ Len(es[i]) = u - (z + 1) + 1
        /\ \A k \in 1 .. u - (z + 1) + 1 : es[i][k] = s[z + 1 + k - 1]
    BY <2>4, <2>6, <2>7, SubSeqProperties
  <2>9. es[i] \in Seq(Nat)
    <3>1. \A k \in 1 .. Len(es[i]) : es[i][k] \in Nat
      <4>1. \A k \in 1 .. Len(es[i]) : es[i][k] \in S
        BY <2>8
      <4> QED BY <1>2, <4>1
    <3>2. es[i] = [k \in 1 .. Len(es[i]) |-> es[i][k]] /\ Len(es[i]) \in Nat
      BY <2>8
    <3> QED BY <3>1, <3>2
  <2>10. ASSUME NEW a \in 1 .. Len(es[i])
         PROVE  a <= E /\ z + a \in 1 .. l /\ es[i][a] = s[z + a]
    <3>1. a \in 1 .. u - (z + 1) + 1 /\ z + 1 + a - 1 = z + a
      BY <2>5, <2>8
    <3>2. a <= E /\ z + a \in 1 .. l
      BY <1>1, <1>3, <2>5, <2>6, <3>1
    <3>3. es[i][a] = s[z + 1 + a - 1]
      BY <2>8, <3>1, Zenon
    <3> QED BY <3>1, <3>2, <3>3
  <2>11. i \in Nat \ {0}
    BY <1>3, <2>1
  <2> QED BY <2>9, <2>10, <2>11 DEF z
<1>9. ASSUME NEW i \in DOMAIN es, NEW j \in DOMAIN es,
             NEW a \in 1 .. Len(es[i]), NEW b \in 1 .. Len(es[j]), es[i][a] = es[j][b]
      PROVE  i = j /\ a = b
  <2>1. /\ i - 1 \in Nat /\ j - 1 \in Nat /\ i \in Nat /\ j \in Nat /\ a \in Nat /\ b \in Nat
        /\ a >= 1 /\ b >= 1
    BY <1>8
  <2>2. /\ a <= E /\ (i - 1) * E + a \in 1 .. l /\ es[i][a] = s[(i - 1) * E + a]
        /\ b <= E /\ (j - 1) * E + b \in 1 .. l /\ es[j][b] = s[(j - 1) * E + b]
    BY <1>8
  <2> DEFINE x == (i - 1) * E
             y == (j - 1) * E
  <2>3. x + a = y + b
    <3> HIDE DEF x, y
    <3>1. s[x + a] = s[y + b] /\ x + a \in 1 .. l /\ y + b \in 1 .. l
      BY <1>9, <2>2 DEF x, y
    <3> QED BY <1>3, <3>1, Zenon
  <2>4. x \in Nat /\ y \in Nat
    <3>1. \A n \in Nat : n * E \in Nat
      BY <1>1
    <3> QED BY <2>1, <3>1
  <2>5. /\ i - 1 < j - 1 => x + E <= y
        /\ j - 1 < i - 1 => y + E <= x
    BY <1>1, <1>7, <2>1
  <2> HIDE DEF x, y
  <2>6. ~(i - 1 < j - 1)
    BY <1>1, <2>1, <2>2, <2>3, <2>4, <2>5
  <2>7. ~(j - 1 < i - 1)
    BY <1>1, <2>1, <2>2, <2>3, <2>4, <2>5
  <2>8. i = j
    BY <2>1, <2>6, <2>7
  <2>9. x = y
    BY <2>8 DEF x, y
  <2> QED BY <2>1, <2>3, <2>4, <2>8, <2>9
<1> QED BY <1>6, <1>8, <1>9, Zenon DEF es, ids

-----------------------------------------------------------------------------
(* The rows of the RUNs, as a list that grows.                             *)

\* x is a sequence, of whatever.
IsSeq(x) == Len(x) \in Nat /\ x = [n \in 1 .. Len(x) |-> x[n]]

\* A list with one more at its end.
LEMMA Appended ==
  ASSUME NEW x, IsSeq(x), NEW e
  PROVE  /\ IsSeq(Append(x, e)) /\ Len(Append(x, e)) = Len(x) + 1
         /\ \A n \in 1 .. Len(x) : Append(x, e)[n] = x[n]
         /\ Append(x, e)[Len(x) + 1] = e
<1> DEFINE S == {x[n] : n \in 1 .. Len(x)} \cup {e}
           l == Len(x)
           y == Append(x, e)
<1>1. l \in Nat /\ x = [n \in 1 .. l |-> x[n]]
  BY DEF IsSeq
<1>2. \A n \in 1 .. l : x[n] \in S
  OBVIOUS
<1>3. e \in S
  OBVIOUS
<1> HIDE DEF S, l
<1>4. x \in Seq(S)
  BY <1>1, <1>2
<1>5. /\ y \in Seq(S) /\ Len(y) = Len(x) + 1
      /\ \A n \in 1 .. Len(x) : y[n] = x[n]
      /\ y[Len(x) + 1] = e
  BY <1>3, <1>4, AppendProperties
<1> HIDE DEF y
<1>6. IsSeq(y)
  BY <1>5 DEF IsSeq
<1> QED BY <1>5, <1>6 DEF y

\* Two lists, one after the other.
LEMMA Joined ==
  ASSUME NEW x, IsSeq(x), NEW y, IsSeq(y)
  PROVE  /\ IsSeq(x \o y)
         /\ \A n \in 1 .. Len(x) : n \in 1 .. Len(x \o y) /\ (x \o y)[n] = x[n]
         /\ \A n \in 1 .. Len(y) : Len(x) + n \in 1 .. Len(x \o y) /\ (x \o y)[Len(x) + n] = y[n]
         /\ \A n \in 1 .. Len(x \o y) : n \in 1 .. Len(x) \/ \E k \in 1 .. Len(y) : n = Len(x) + k
<1> DEFINE S == {x[n] : n \in 1 .. Len(x)} \cup {y[n] : n \in 1 .. Len(y)}
           l == Len(x)
           m == Len(y)
           z == x \o y
<1>1. l \in Nat /\ x = [n \in 1 .. l |-> x[n]] /\ m \in Nat /\ y = [n \in 1 .. m |-> y[n]]
  BY DEF IsSeq
<1>2. (\A n \in 1 .. l : x[n] \in S) /\ (\A n \in 1 .. m : y[n] \in S)
  OBVIOUS
<1> HIDE DEF S, l, m
<1>3. x \in Seq(S) /\ y \in Seq(S)
  <2>1. ASSUME NEW k \in Nat, NEW q, q = [n \in 1 .. k |-> q[n]], \A n \in 1 .. k : q[n] \in S
        PROVE  q \in Seq(S)
    <3>1. q \in [1 .. k -> S]
      BY <2>1
    <3> QED BY <3>1
  <2> QED BY <1>1, <1>2, <2>1
<1>4. /\ z \in Seq(S) /\ Len(z) = Len(x) + Len(y)
      /\ \A n \in 1 .. Len(x) + Len(y) : z[n] = IF n <= Len(x) THEN x[n] ELSE y[n - Len(x)]
  BY <1>3, ConcatProperties
<1> HIDE DEF z
<1>5. Len(z) = l + m /\ \A n \in 1 .. l + m : z[n] = IF n <= l THEN x[n] ELSE y[n - l]
  BY <1>4 DEF l, m
<1>6. IsSeq(z)
  BY <1>4 DEF IsSeq
<1>7. \A n \in 1 .. l : n \in 1 .. l + m /\ n <= l
  BY <1>1
<1>8. \A n \in 1 .. m : l + n \in 1 .. l + m /\ ~(l + n <= l) /\ (l + n) - l = n
  BY <1>1
<1>9. \A n \in 1 .. l : z[n] = x[n]
  BY <1>5, <1>7, Zenon
<1>10. \A n \in 1 .. m : z[l + n] = y[n]
  <2> SUFFICES ASSUME NEW n \in 1 .. m PROVE z[l + n] = y[n]
    OBVIOUS
  <2>1. z[l + n] = y[(l + n) - l]
    BY <1>5, <1>8, Zenon
  <2> QED BY <1>8, <2>1, Zenon
<1>11. \A n \in 1 .. l + m : n \in 1 .. l \/ \E k \in 1 .. m : n = l + k
  <2> SUFFICES ASSUME NEW n \in 1 .. l + m, n \notin 1 .. l PROVE \E k \in 1 .. m : n = l + k
    OBVIOUS
  <2>1. n - l \in 1 .. m /\ n = l + (n - l)
    BY <1>1
  <2> QED BY <2>1
<1> QED BY <1>5, <1>6, <1>7, <1>8, <1>9, <1>10, <1>11, Zenon DEF z, l, m

\* The rows of the RUNs before RUN r of set s: each is of an event of its set, no two
\* of the same event and repetition.
RowsAre(es, N, s, r, y) ==
  /\ IsSeq(y)
  /\ \A n \in 1 .. Len(y) :
       /\ y[n].rep \in 1 .. N /\ y[n].set \in DOMAIN es
       /\ y[n].set < s \/ (y[n].set = s /\ y[n].rep < r)
       /\ \E b \in 1 .. Len(es[y[n].set]) : y[n].ev_type = es[y[n].set][b]
       /\ y[n].event_value # NoValue => y[n].run_valid
  /\ \A m, n \in 1 .. Len(y) : m # n /\ y[m].ev_type = y[n].ev_type => y[m].rep # y[n].rep

\* The rows say of the RUNs of one set what their records say, of each event.
RawAre(es, mode, x, y) ==
  /\ \A n \in 1 .. Len(y) :
       /\ y[n].rep \in 1 .. Len(x)
       /\ y[n].run_valid => run_validity(x[y[n].rep], mode) = {}
       /\ y[n].bad = x[y[n].rep].bad
       /\ y[n].ev_type \in x[y[n].rep].over => y[n].event_overflow
  /\ \A k \in 1 .. Len(x), b \in 1 .. Len(es[1]) :
       \E n \in 1 .. Len(y) : y[n].rep = k /\ y[n].ev_type = es[1][b]

\* The rows of one RUN.
Rows(es, s, r, mode, rec) ==
  [n \in DOMAIN es[s] |->
     [set |-> s, rep |-> r, ev_type |-> es[s][n], run_valid |-> run_validity(rec, mode) = {},
      event_value |-> IF run_validity(rec, mode) = {} THEN rec.value ELSE NoValue,
      event_overflow |-> es[s][n] \in rec.over, bad |-> rec.bad]]

\* What the rows of one RUN say of its record.
LEMMA RowsOfRun ==
  ASSUME NEW es, NEW s \in DOMAIN es, es[s] \in Seq(Nat), NEW r, NEW mode, NEW rec
  PROVE  LET b == Rows(es, s, r, mode, rec) IN
         /\ IsSeq(b) /\ Len(b) = Len(es[s])
         /\ \A n \in 1 .. Len(b) :
              /\ b[n].set = s /\ b[n].rep = r /\ b[n].ev_type = es[s][n]
              /\ b[n].run_valid => run_validity(rec, mode) = {}
              /\ b[n].event_value # NoValue => b[n].run_valid
              /\ b[n].ev_type \in rec.over => b[n].event_overflow
              /\ b[n].bad = rec.bad
<1> DEFINE b == Rows(es, s, r, mode, rec)
           l == Len(es[s])
<1>1. l \in Nat /\ DOMAIN es[s] = 1 .. l
  OBVIOUS
<1> HIDE DEF l
<1>2. DOMAIN b = 1 .. l /\ b = [n \in 1 .. l |-> b[n]]
  BY <1>1 DEF Rows
<1>3. ASSUME NEW n \in 1 .. l
      PROVE  b[n] = [set |-> s, rep |-> r, ev_type |-> es[s][n],
                     run_valid |-> run_validity(rec, mode) = {},
                     event_value |-> IF run_validity(rec, mode) = {} THEN rec.value ELSE NoValue,
                     event_overflow |-> es[s][n] \in rec.over, bad |-> rec.bad]
  BY <1>1, Zenon DEF Rows
<1> HIDE DEF b
<1>4. Len(b) = l
  BY <1>1, <1>2
<1>5. IsSeq(b)
  BY <1>1, <1>2, <1>4 DEF IsSeq
<1>6. ASSUME NEW n \in 1 .. l
      PROVE  /\ b[n].set = s /\ b[n].rep = r /\ b[n].ev_type = es[s][n] /\ b[n].bad = rec.bad
             /\ b[n].event_value = IF run_validity(rec, mode) = {} THEN rec.value ELSE NoValue
             /\ b[n].run_valid = (run_validity(rec, mode) = {})
             /\ b[n].event_overflow = (es[s][n] \in rec.over)
  <2> DEFINE v == run_validity(rec, mode) = {}
             e == IF run_validity(rec, mode) = {} THEN rec.value ELSE NoValue
             o == es[s][n] \in rec.over
             c == es[s][n]
             d == rec.bad
  <2>1. b[n] = [set |-> s, rep |-> r, ev_type |-> c, run_valid |-> v, event_value |-> e,
                event_overflow |-> o, bad |-> d]
    BY <1>3, <1>6, Zenon
  <2> HIDE DEF v, e, o, c, d
  <2>2. /\ b[n].set = s /\ b[n].rep = r /\ b[n].ev_type = c /\ b[n].bad = d
        /\ b[n].event_value = e
    BY <2>1
  <2> DEFINE w == [set |-> s, rep |-> r, ev_type |-> c, run_valid |-> v, event_value |-> e,
                   event_overflow |-> o, bad |-> d]
  <2>4. w.run_valid = v /\ w.event_overflow = o
    BY Zenon
  <2>5. b[n] = w
    BY <2>1, Zenon
  <2> HIDE DEF w
  <2>3. b[n].run_valid = v /\ b[n].event_overflow = o
    BY <2>4, <2>5, Zenon
  <2> QED BY <2>2, <2>3, Zenon DEF v, e, o, c, d
<1> QED BY <1>4, <1>5, <1>6, Zenon DEF b, l

\* The rows of one more RUN keep what the rows say.
LEMMA Measured ==
  ASSUME NEW t \in Tasks, NEW es, es = event_sets(t.ids), NEW N \in Nat, NEW mode, NEW rec,
         NEW s \in DOMAIN es, NEW r \in 1 .. N, NEW x, IsSeq(x), NEW y, RowsAre(es, N, s, r, y)
  PROVE  LET b == Rows(es, s, r, mode, rec) IN
         /\ RowsAre(es, N, s, r + 1, y \o b)
         /\ s = 1 /\ Len(x) = r - 1 /\ RawAre(es, mode, x, y) =>
              RawAre(es, mode, Append(x, rec), y \o b)
<1> DEFINE b == Rows(es, s, r, mode, rec)
           z == y \o b
           m == Len(y)
<1>1. /\ es[s] \in Seq(Nat) /\ s \in Nat
      /\ \A i, j \in DOMAIN es : \A c \in 1 .. Len(es[i]), d \in 1 .. Len(es[j]) :
           es[i][c] = es[j][d] => i = j /\ c = d
  <2>1. /\ DOMAIN es \subseteq Nat \ {0} /\ \A i \in DOMAIN es : es[i] \in Seq(Nat)
        /\ \A i, j \in DOMAIN es : \A a \in 1 .. Len(es[i]), d \in 1 .. Len(es[j]) :
             es[i][a] = es[j][d] => i = j /\ a = d
    <3> DEFINE E == event_sets(t.ids)
               Apart(g) == /\ DOMAIN g \subseteq Nat \ {0} /\ \A i \in DOMAIN g : g[i] \in Seq(Nat)
                           /\ \A i, j \in DOMAIN g : \A a \in 1 .. Len(g[i]), d \in 1 .. Len(g[j]) :
                                g[i][a] = g[j][d] => i = j /\ a = d
    <3>1. Apart(E)
      BY EventSetsAre, Zenon
    <3>2. es = E
      BY Zenon
    <3>3. Apart(es)
      <4> HIDE DEF E, Apart
      <4> QED BY <3>1, <3>2, Zenon
    <3> QED BY <3>3, Zenon
  <2>2. es[s] \in Seq(Nat) /\ s \in Nat
    BY <2>1
  <2> QED BY <2>1, <2>2, Zenon
<1>2. /\ IsSeq(b) /\ Len(b) = Len(es[s])
      /\ \A n \in 1 .. Len(b) :
           /\ b[n].set = s /\ b[n].rep = r /\ b[n].ev_type = es[s][n]
           /\ b[n].run_valid => run_validity(rec, mode) = {}
           /\ b[n].event_value # NoValue => b[n].run_valid
           /\ b[n].ev_type \in rec.over => b[n].event_overflow
           /\ b[n].bad = rec.bad
  BY <1>1, RowsOfRun
<1> HIDE DEF b
<1>3. IsSeq(y)
  BY Zenon DEF RowsAre
<1>4. /\ IsSeq(z)
      /\ \A n \in 1 .. m : n \in 1 .. Len(z) /\ z[n] = y[n]
      /\ \A n \in 1 .. Len(b) : m + n \in 1 .. Len(z) /\ z[m + n] = b[n]
      /\ \A n \in 1 .. Len(z) : n \in 1 .. m \/ \E k \in 1 .. Len(b) : n = m + k
  <2>1. IsSeq(b)
    BY <1>2
  <2> HIDE DEF b
  <2> QED BY <1>3, <2>1, Joined, Zenon DEF z, m
<1> HIDE DEF z, m
<1>5. ASSUME NEW n \in 1 .. Len(z)
      PROVE  \/ n \in 1 .. m /\ z[n] = y[n]
             \/ \E k \in 1 .. Len(b) : n = m + k /\ z[n] = b[k]
  BY <1>4, <1>5, Zenon
<1>6. ASSUME NEW n \in 1 .. m, NEW k \in 1 .. Len(b), y[n].ev_type = b[k].ev_type
      PROVE  y[n].rep # b[k].rep
  <2>1. /\ y[n].rep \in 1 .. N /\ y[n].set \in DOMAIN es
        /\ y[n].set < s \/ (y[n].set = s /\ y[n].rep < r)
    BY <1>6, Zenon DEF RowsAre, m
  <2>2. PICK c \in 1 .. Len(es[y[n].set]) : y[n].ev_type = es[y[n].set][c]
    BY <1>6, Zenon DEF RowsAre, m
  <2>3. b[k].rep = r /\ b[k].ev_type = es[s][k] /\ k \in 1 .. Len(es[s])
    BY <1>2, <1>6, Zenon
  <2>4. y[n].set = s
    <3>1. es[y[n].set][c] = es[s][k]
      BY <1>6, <2>2, <2>3
    <3> QED BY <1>1, <2>1, <2>2, <2>3, <3>1
  <2>5. y[n].rep < r
    BY <1>1, <2>1, <2>4
  <2>6. y[n].rep # r
    BY <2>1, <2>5
  <2> QED BY <2>3, <2>6
<1>7. RowsAre(es, N, s, r + 1, z)
  <2>1. ASSUME NEW n \in 1 .. Len(z)
        PROVE  /\ z[n].rep \in 1 .. N /\ z[n].set \in DOMAIN es
               /\ z[n].set < s \/ (z[n].set = s /\ z[n].rep < r + 1)
               /\ \E c \in 1 .. Len(es[z[n].set]) : z[n].ev_type = es[z[n].set][c]
               /\ z[n].event_value # NoValue => z[n].run_valid
    <3>1. CASE n \in 1 .. m /\ z[n] = y[n]
      <4>1. /\ y[n].rep \in 1 .. N /\ y[n].set \in DOMAIN es
            /\ y[n].set < s \/ (y[n].set = s /\ y[n].rep < r)
            /\ \E c \in 1 .. Len(es[y[n].set]) : y[n].ev_type = es[y[n].set][c]
            /\ y[n].event_value # NoValue => y[n].run_valid
        BY <3>1, Zenon DEF RowsAre, m
      <4>2. y[n].rep < r => y[n].rep < r + 1
        BY <4>1
      <4> QED BY <3>1, <4>1, <4>2, Zenon
    <3>2. CASE \E k \in 1 .. Len(b) : n = m + k /\ z[n] = b[k]
      <4>1. PICK k \in 1 .. Len(b) : z[n] = b[k]
        BY <3>2, Zenon
      <4>2. /\ b[k].set = s /\ b[k].rep = r /\ b[k].ev_type = es[s][k] /\ k \in 1 .. Len(es[s])
            /\ b[k].event_value # NoValue => b[k].run_valid
        BY <1>2, Zenon
      <4>3. r < r + 1
        OBVIOUS
      <4> QED BY <4>1, <4>2, <4>3, Zenon
    <3> QED BY <1>5, <3>1, <3>2, Zenon
  <2>2. ASSUME NEW i \in 1 .. Len(z), NEW j \in 1 .. Len(z), i # j, z[i].ev_type = z[j].ev_type
        PROVE  z[i].rep # z[j].rep
    <3>1. CASE i \in 1 .. m /\ z[i] = y[i] /\ j \in 1 .. m /\ z[j] = y[j]
      <4>1. i \in 1 .. Len(y) /\ j \in 1 .. Len(y) /\ i # j /\ y[i].ev_type = y[j].ev_type
        BY <2>2, <3>1 DEF m
      <4>2. y[i].rep # y[j].rep
        BY <4>1, Zenon DEF RowsAre
      <4> QED BY <3>1, <4>2
    <3>2. CASE /\ i \in 1 .. m /\ z[i] = y[i]
               /\ \E k \in 1 .. Len(b) : j = m + k /\ z[j] = b[k]
      BY <1>6, <2>2, <3>2, Zenon
    <3>3. CASE /\ j \in 1 .. m /\ z[j] = y[j]
               /\ \E k \in 1 .. Len(b) : i = m + k /\ z[i] = b[k]
      <4>1. PICK k \in 1 .. Len(b) : z[i] = b[k]
        BY <3>3, Zenon
      <4>2. y[j].rep # b[k].rep
        BY <1>6, <2>2, <3>3, <4>1, Zenon
      <4> QED BY <3>3, <4>1, <4>2
    <3>4. CASE /\ \E k \in 1 .. Len(b) : i = m + k /\ z[i] = b[k]
               /\ \E k \in 1 .. Len(b) : j = m + k /\ z[j] = b[k]
      <4>1. PICK k \in 1 .. Len(b) : i = m + k /\ z[i] = b[k]
        BY <3>4, Zenon
      <4>2. PICK l \in 1 .. Len(b) : j = m + l /\ z[j] = b[l]
        BY <3>4, Zenon
      <4>3. b[k].ev_type = b[l].ev_type
        BY <2>2, <4>1, <4>2, Zenon
      <4>5. es[s][k] = es[s][l] /\ k \in 1 .. Len(es[s]) /\ l \in 1 .. Len(es[s])
        BY <1>2, <4>3, Zenon
      <4>4. k = l
        BY <1>1, <4>5
      <4> QED BY <2>2, <4>1, <4>2, <4>4
    <3> QED BY <1>5, <3>1, <3>2, <3>3, <3>4, Zenon
  <2> QED BY <1>4, <2>1, <2>2, Zenon DEF RowsAre
<1>8. ASSUME s = 1, Len(x) = r - 1, RawAre(es, mode, x, y)
      PROVE  RawAre(es, mode, Append(x, rec), z)
  <2> DEFINE q == Append(x, rec)
  <2>1. Len(q) = r /\ q[r] = rec /\ \A k \in 1 .. r - 1 : q[k] = x[k]
    <3>1. /\ Len(q) = Len(x) + 1 /\ q[Len(x) + 1] = rec
          /\ \A k \in 1 .. Len(x) : q[k] = x[k]
      BY Appended
    <3>2. (r - 1) + 1 = r
      OBVIOUS
    <3> HIDE DEF q
    <3> QED BY <1>8, <3>1, <3>2
  <2> HIDE DEF q
  <2>2. \A k \in 1 .. r : k \in 1 .. r - 1 \/ k = r
    OBVIOUS
  <2>3. (\A k \in 1 .. r - 1 : k \in 1 .. r) /\ r \in 1 .. r
    OBVIOUS
  <2>4. ASSUME NEW n \in 1 .. Len(z)
        PROVE  /\ z[n].rep \in 1 .. Len(q)
               /\ z[n].run_valid => run_validity(q[z[n].rep], mode) = {}
               /\ z[n].bad = q[z[n].rep].bad
               /\ z[n].ev_type \in q[z[n].rep].over => z[n].event_overflow
    <3>1. CASE n \in 1 .. m /\ z[n] = y[n]
      <4>1. /\ y[n].rep \in 1 .. r - 1
            /\ y[n].run_valid => run_validity(x[y[n].rep], mode) = {}
            /\ y[n].bad = x[y[n].rep].bad
            /\ y[n].ev_type \in x[y[n].rep].over => y[n].event_overflow
        <5>1. /\ y[n].rep \in 1 .. Len(x)
              /\ y[n].run_valid => run_validity(x[y[n].rep], mode) = {}
              /\ y[n].bad = x[y[n].rep].bad
              /\ y[n].ev_type \in x[y[n].rep].over => y[n].event_overflow
          BY <1>8, <3>1, Zenon DEF RawAre, m
        <5>2. y[n].rep \in 1 .. r - 1
          BY <1>8, <5>1
        <5> QED BY <5>1, <5>2, Zenon
      <4>2. q[y[n].rep] = x[y[n].rep]
        BY <2>1, <4>1, Zenon
      <4>3. /\ y[n].rep \in 1 .. Len(q)
            /\ y[n].run_valid => run_validity(q[y[n].rep], mode) = {}
            /\ y[n].bad = q[y[n].rep].bad
            /\ y[n].ev_type \in q[y[n].rep].over => y[n].event_overflow
        BY <2>1, <2>3, <4>1, <4>2, Zenon
      <4>4. z[n] = y[n]
        BY <3>1
      <4> QED BY <4>3, <4>4, Zenon
    <3>2. CASE \E k \in 1 .. Len(b) : n = m + k /\ z[n] = b[k]
      <4>1. PICK k \in 1 .. Len(b) : z[n] = b[k]
        BY <3>2, Zenon
      <4>2. /\ b[k].rep = r
            /\ b[k].run_valid => run_validity(rec, mode) = {}
            /\ b[k].ev_type \in rec.over => b[k].event_overflow
            /\ b[k].bad = rec.bad
        BY <1>2, Zenon
      <4>3. z[n].rep = r /\ r \in 1 .. Len(q) /\ q[z[n].rep] = rec
        BY <2>1, <2>3, <4>1, <4>2
      <4>4. /\ z[n].run_valid => run_validity(rec, mode) = {}
            /\ z[n].ev_type \in rec.over => z[n].event_overflow
            /\ z[n].bad = rec.bad
        BY <4>1, <4>2, Zenon
      <4> QED BY <4>3, <4>4, Zenon
    <3> QED BY <1>5, <3>1, <3>2, Zenon
  <2>5. ASSUME NEW k \in 1 .. Len(q), NEW c \in 1 .. Len(es[1])
        PROVE  \E n \in 1 .. Len(z) : z[n].rep = k /\ z[n].ev_type = es[1][c]
    <3>1. CASE k \in 1 .. r - 1
      <4>1. PICK n \in 1 .. m : y[n].rep = k /\ y[n].ev_type = es[1][c]
        <5>1. k \in 1 .. Len(x)
          BY <1>8, <3>1
        <5> QED BY <1>8, <5>1, Zenon DEF RawAre, m
      <4> QED BY <1>4, <4>1, Zenon
    <3>2. CASE k = r
      <4>1. c \in 1 .. Len(b) /\ b[c].rep = r /\ b[c].ev_type = es[1][c]
        BY <1>2, <1>8, Zenon
      <4> QED BY <1>4, <3>2, <4>1, Zenon
    <3> QED BY <2>1, <2>2, <3>1, <3>2, Zenon
  <2> QED BY <2>4, <2>5, Zenon DEF RawAre, q
<1> QED BY <1>7, <1>8, Zenon DEF z, b

-----------------------------------------------------------------------------
(* The invariant of the campaign.                                          *)

\* What is true of the rows before one RUN is true of those before a later one.
LEMMA RowsMore ==
  ASSUME NEW es, DOMAIN es \subseteq Nat \ {0}, NEW N \in Nat, NEW s \in Nat, NEW r \in Nat,
         NEW y, RowsAre(es, N, s, r, y), NEW u \in Nat, NEW v \in Nat, s < u \/ (s = u /\ r <= v)
  PROVE  RowsAre(es, N, u, v, y)
<1>1. ASSUME NEW n \in 1 .. Len(y)
      PROVE  y[n].set < u \/ (y[n].set = u /\ y[n].rep < v)
  <2>1. /\ y[n].rep \in 1 .. N /\ y[n].set \in DOMAIN es
        /\ y[n].set < s \/ (y[n].set = s /\ y[n].rep < r)
    BY Zenon DEF RowsAre
  <2> DEFINE a == y[n].set
             b == y[n].rep
  <2>2. a \in Nat /\ b \in Nat /\ (a < s \/ (a = s /\ b < r))
    BY <2>1
  <2> HIDE DEF a, b
  <2>3. a < u \/ (a = u /\ b < v)
    BY <2>2
  <2> QED BY <2>3 DEF a, b
<1> QED BY <1>1, Zenon DEF RowsAre

\* The event sets of the campaign that runs.
Sets == event_sets(task.ids)

\* Its place is in one of them.
OnATask ==
  /\ pc # "off" => task \in Tasks /\ at.set \in DOMAIN Sets
  /\ at = [set |-> at.set, rep |-> at.rep] /\ at.set \in Nat /\ at.set >= 1 /\ at.rep \in Nat
  /\ pc = "off" => at.set = 1 /\ at.rep = 1 /\ raw = <<>> /\ rows = <<>>

\* The RUNs made before the one under way.
UnderWay ==
  pc \in {"ping", "mode", "prime", "run"} =>
    /\ at.rep \in 1 .. task.repeats
    /\ pc # "run" => at.rep = 1
    /\ at.set = 1 => Len(raw) = at.rep - 1
    /\ at.set # 1 => Len(raw) >= (task.repeats + at.rep) - 1
    /\ RowsAre(Sets, task.repeats, at.set, at.rep, rows)

\* The records and the rows agree.
Listing ==
  pc # "off" =>
    /\ IsSeq(raw) /\ RowsAre(Sets, task.repeats, at.set, at.rep + 1, rows)
    /\ at.set = 1 => RawAre(Sets, task.mode, raw, rows)

\* Unless one was refused, all RUNs were made: of one set those asked for, of more
\* sets more than those.
AllMade ==
  pc \in {"raw", "runs", "per_event", "summary", "ended"} /\ refusal = None =>
    /\ at.set = 1 => Len(raw) = task.repeats
    /\ at.set # 1 => Len(raw) > task.repeats

\* A file the process has written holds what the process had then.  In a directory
\* that was empty there are no others, and none is written twice.
Evidence ==
  /\ pc \in {"per_event", "summary", "ended"} /\ rows # <<>> =>
       "runs" \in DOMAIN dir /\ dir.runs = rows
  /\ pc \in {"summary", "ended"} /\ rows # <<>> =>
       "per_event" \in DOMAIN dir /\ dir.per_event = per_event
  /\ pc = "ended" => "summary" \in DOMAIN dir /\ dir.summary = Summary
  /\ fresh =>
       /\ "per_event" \in DOMAIN dir =>
            pc \in {"summary", "ended", "killed"} /\ dir.per_event = per_event
       /\ "summary" \in DOMAIN dir =>
            pc = "ended" \/ (pc = "killed" /\ dir.summary = [torn |-> TRUE])

CampInv == OnATask /\ UnderWay /\ Listing /\ AllMade /\ Evidence

\* A campaign has a first set, and at least one repetition.
LEMMA OfTask ==
  ASSUME NEW t \in Tasks
  PROVE  /\ 1 \in DOMAIN event_sets(t.ids) /\ DOMAIN event_sets(t.ids) \subseteq Nat \ {0}
         /\ t.repeats \in Nat /\ t.repeats >= 1
<1>1. t.repeats \in Nat \ {0}
  BY CampaignAssumption
<1>2. 1 \in DOMAIN event_sets(t.ids) /\ DOMAIN event_sets(t.ids) \subseteq Nat \ {0}
  BY EventSetsAre, Zenon
<1> QED BY <1>1, <1>2

\* It is true of no rows.
LEMMA NoRows ==
  ASSUME NEW es, NEW N, NEW s, NEW r, NEW mode
  PROVE  RowsAre(es, N, s, r, <<>>) /\ RawAre(es, mode, <<>>, <<>>) /\ IsSeq(<<>>)
<1>1. IsSeq(<<>>) /\ Len(<<>>) = 0 /\ \A n : n \notin 1 .. 0
  BY DEF IsSeq
<1> QED BY <1>1 DEF RowsAre, RawAre

\* The invariant holds of the bench before any campaign.
LEMMA CampStart == Init => CampInv
<1> SUFFICES ASSUME Init PROVE CampInv
  OBVIOUS
<1>1. pc = "off" /\ at = [set |-> 1, rep |-> 1] /\ raw = <<>> /\ rows = <<>> /\ dir = <<>>
  BY DEF Init, CampInit, First
<1> QED BY <1>1 DEF CampInv, OnATask, UnderWay, Listing, AllMade, Evidence

\* The scripts of the card do not touch a campaign.
LEMMA CampStutter == CampInv /\ UNCHANGED <<campVars, fresh>> => CampInv'
<1> SUFFICES ASSUME CampInv, UNCHANGED <<campVars, fresh>> PROVE CampInv'
  OBVIOUS
<1>1. task' = task /\ image' = image /\ pc' = pc /\ at' = at /\ raw' = raw /\ rows' = rows
      /\ refusal' = refusal /\ dir' = dir /\ fresh' = fresh
  BY DEF campVars
<1> QED BY <1>1 DEF CampInv, OnATask, UnderWay, Listing, AllMade, Evidence, Sets,
                    per_event, Seen, Values, verdict, Summary

\* A campaign begins with no RUN made, in an empty directory or a used one.
LEMMA CampLaunch ==
  ASSUME CampInv, NEW staged, Launch(staged), fresh' = (dir' = <<>>)
  PROVE  CampInv'
<1>1. /\ task' \in Tasks /\ pc' = "ping" /\ at' = [set |-> 1, rep |-> 1]
      /\ raw' = <<>> /\ rows' = <<>>
  BY DEF Launch, First
<1>2. OnATask'
  BY <1>1, OfTask DEF OnATask, Sets
<1>3. UnderWay'
  <2>1. task'.repeats \in Nat /\ task'.repeats >= 1
    BY <1>1, OfTask
  <2>2. RowsAre(Sets, task.repeats, at.set, at.rep, rows)'
    BY <1>1, NoRows
  <2> QED BY <1>1, <2>1, <2>2 DEF UnderWay
<1>4. Listing'
  BY <1>1, NoRows DEF Listing
<1>5. AllMade'
  BY <1>1 DEF AllMade
<1>6. Evidence'
  <2>1. fresh' => dir' = <<>>
    BY Zenon
  <2>2. DOMAIN << >> = {}
    OBVIOUS
  <2> QED BY <1>1, <2>1, <2>2 DEF Evidence
<1> QED BY <1>2, <1>3, <1>4, <1>5, <1>6 DEF CampInv

\* A step that makes no RUN and writes no file.
LEMMA CampTalk ==
  ASSUME CampInv, pc \in {"ping", "mode", "prime", "run"},
         UNCHANGED <<task, image, at, raw, rows, dir, fresh>>,
         \/ pc' \in {"mode", "prime", "run"} /\ (pc = "run" => pc' = "run")
         \/ pc' \in {"crashed", "killed"}
         \/ pc' = "raw" /\ refusal' # None
  PROVE  CampInv'
<1>1. /\ task' = task /\ at' = at /\ raw' = raw /\ rows' = rows /\ dir' = dir
      /\ fresh' = fresh
  OBVIOUS
<1>2. OnATask'
  BY <1>1 DEF CampInv, OnATask, Sets
<1>3. UnderWay'
  BY <1>1 DEF CampInv, UnderWay, Sets
<1>4. Listing'
  BY <1>1 DEF CampInv, Listing, Sets
<1>5. AllMade'
  BY DEF AllMade
<1>6. Evidence'
  BY <1>1 DEF CampInv, Evidence
<1> QED BY <1>2, <1>3, <1>4, <1>5, <1>6 DEF CampInv

\* One RUN: its record, its rows, and the step to the next one.
LEMMA CampRun ==
  ASSUME CampInv, pc = "run", NEW r, raw' = Append(raw, r), rows' = rows \o RowsOf(r), Advance,
         UNCHANGED <<task, image, refusal, dir, fresh>>
  PROVE  CampInv'
<1> DEFINE es == Sets
           N == task.repeats
           s == at.set
           k == at.rep
<1>1. /\ task \in Tasks /\ s \in DOMAIN es /\ s \in Nat /\ s >= 1 /\ k \in 1 .. N /\ k \in Nat
      /\ N \in Nat /\ N >= 1 /\ DOMAIN es \subseteq Nat \ {0} /\ at = [set |-> s, rep |-> k]
      /\ s = 1 => Len(raw) = k - 1
      /\ s # 1 => Len(raw) >= (N + k) - 1
      /\ RowsAre(es, N, s, k, rows)
      /\ IsSeq(raw)
      /\ s = 1 => RawAre(es, task.mode, raw, rows)
  <2>1. task \in Tasks /\ s \in DOMAIN es
    BY DEF CampInv, OnATask
  <2>2. N \in Nat /\ N >= 1 /\ DOMAIN es \subseteq Nat \ {0}
    BY <2>1, OfTask DEF Sets
  <2>3. IsSeq(raw) /\ (s = 1 => RawAre(es, task.mode, raw, rows))
    BY DEF CampInv, Listing
  <2>4. /\ k \in 1 .. N
        /\ s = 1 => Len(raw) = k - 1
        /\ s # 1 => Len(raw) >= (N + k) - 1
        /\ RowsAre(es, N, s, k, rows)
    BY DEF CampInv, UnderWay
  <2>5. at = [set |-> s, rep |-> k] /\ s \in Nat /\ s >= 1 /\ k \in Nat
    BY DEF CampInv, OnATask
  <2> QED BY <2>1, <2>2, <2>3, <2>4, <2>5
<1>2. Sets' = Sets /\ task' = task /\ task'.repeats = N
  BY DEF Sets
<1>3. RowsOf(r) = Rows(es, s, k, task.mode, r)
  BY Zenon DEF RowsOf, Rows, Sets, Codes
<1>4. /\ RowsAre(es, N, s, k + 1, rows')
      /\ s = 1 => RawAre(es, task.mode, raw', rows')
      /\ IsSeq(raw') /\ Len(raw') = Len(raw) + 1 /\ Len(raw) \in Nat
  <2>1. IsSeq(raw') /\ Len(raw') = Len(raw) + 1 /\ Len(raw) \in Nat
    BY <1>1, Appended, SMTT(30) DEF IsSeq
  <2>2. es = event_sets(task.ids)
    BY DEF Sets
  <2>3. rows' = rows \o Rows(es, s, k, task.mode, r)
    BY <1>3
  <2> HIDE DEF es, N, s, k
  <2>4. /\ RowsAre(es, N, s, k + 1, rows')
        /\ s = 1 /\ Len(raw) = k - 1 /\ RawAre(es, task.mode, raw, rows) =>
             RawAre(es, task.mode, raw', rows')
    <3> DEFINE m == task.mode
               t == task
    <3>1. /\ t \in Tasks /\ es = event_sets(t.ids) /\ N \in Nat /\ s \in DOMAIN es
          /\ k \in 1 .. N /\ IsSeq(raw) /\ RowsAre(es, N, s, k, rows)
      BY <1>1, <2>2
    <3>2. raw' = Append(raw, r) /\ rows' = rows \o Rows(es, s, k, m, r)
      BY <2>3
    <3> HIDE DEF m, t
    <3>3. /\ RowsAre(es, N, s, k + 1, rows \o Rows(es, s, k, m, r))
          /\ s = 1 /\ Len(raw) = k - 1 /\ RawAre(es, m, raw, rows) =>
              RawAre(es, m, Append(raw, r), rows \o Rows(es, s, k, m, r))
      BY <3>1, Measured, Zenon
    <3> QED BY <3>2, <3>3 DEF m
  <2> QED BY <1>1, <2>1, <2>4
<1> HIDE DEF es, N
<1>5. CASE k < N /\ at' = [at EXCEPT !.rep = @ + 1] /\ pc' = "run"
  <2>1. at' = [set |-> s, rep |-> k + 1] /\ at'.set = s /\ at'.rep = k + 1
    BY <1>1, <1>5
  <2>2. RowsAre(es, N, s, (k + 1) + 1, rows')
    <3>1. k + 1 \in Nat /\ (k + 1) + 1 \in Nat /\ k + 1 <= (k + 1) + 1
      BY <1>1
    <3> QED BY <1>1, <1>4, <3>1, RowsMore
  <2>3. OnATask'
    <3>1. k + 1 \in Nat
      BY <1>1
    <3> HIDE DEF s, k
    <3> QED BY <1>1, <1>2, <1>5, <2>1, <3>1 DEF OnATask, es
  <2>4. UnderWay'
    <3>1. k + 1 \in 1 .. N /\ (s = 1 => Len(raw') = (k + 1) - 1)
          /\ (s # 1 => Len(raw') >= (N + (k + 1)) - 1)
      BY <1>1, <1>4, <1>5
    <3> QED BY <1>2, <1>4, <1>5, <2>1, <3>1 DEF UnderWay, es
  <2>5. Listing'
    BY <1>2, <1>4, <2>1, <2>2 DEF Listing, es
  <2>6. AllMade' /\ Evidence'
    BY <1>5 DEF AllMade, Evidence, CampInv
  <2> QED BY <2>3, <2>4, <2>5, <2>6 DEF CampInv
<1>6. CASE /\ k = N /\ s + 1 \in DOMAIN es
           /\ at' = [set |-> s + 1, rep |-> 1] /\ pc' = "mode"
  <2>1. at'.set = s + 1 /\ at'.rep = 1 /\ s + 1 # 1 /\ s + 1 \in Nat /\ s + 1 >= 1
    BY <1>1, <1>6
  <2>2. RowsAre(es, N, s + 1, 1, rows') /\ RowsAre(es, N, s + 1, 1 + 1, rows')
    <3>1. k + 1 \in Nat /\ s + 1 \in Nat /\ s < s + 1
      BY <1>1
    <3> HIDE DEF s, k
    <3>2. \A v \in Nat : RowsAre(es, N, s + 1, v, rows')
      BY <1>1, <1>4, <3>1, RowsMore
    <3> QED BY <3>2
  <2>3. OnATask'
    BY <1>1, <1>2, <1>6, <2>1 DEF OnATask, es
  <2>4. UnderWay'
    <3>1. 1 \in 1 .. N /\ Len(raw') >= (N + 1) - 1
      BY <1>1, <1>4, <1>6
    <3> QED BY <1>2, <1>6, <2>1, <2>2, <3>1 DEF UnderWay, es
  <2>5. Listing'
    BY <1>2, <1>4, <2>1, <2>2 DEF Listing, es
  <2>6. AllMade' /\ Evidence'
    BY <1>6 DEF AllMade, Evidence, CampInv
  <2> QED BY <2>3, <2>4, <2>5, <2>6 DEF CampInv
<1>7. CASE k = N /\ pc' = "raw" /\ at' = at
  <2>1. at'.set = s /\ at'.rep = k
    BY <1>7
  <2>2. OnATask'
    BY <1>1, <1>2, <1>7 DEF OnATask, es
  <2>3. UnderWay'
    BY <1>7 DEF UnderWay
  <2>4. Listing'
    BY <1>2, <1>4, <2>1 DEF Listing, es
  <2>5. AllMade'
    <3>1. (s = 1 => Len(raw') = N) /\ (s # 1 => Len(raw') > N)
      BY <1>1, <1>4, <1>7
    <3> QED BY <1>2, <2>1, <3>1 DEF AllMade
  <2>6. Evidence'
    BY <1>7 DEF Evidence, CampInv
  <2> QED BY <2>2, <2>3, <2>4, <2>5, <2>6 DEF CampInv
<1> QED BY <1>5, <1>6, <1>7 DEF Advance, es, N, Sets

\* What a file is written with.
LEMMA FilePut ==
  \A file, content :
    Put(file, content) =>
      /\ \A d : d \in DOMAIN dir' <=> d \in DOMAIN dir \/ d = file
      /\ dir'[file] = content
      /\ \A d \in DOMAIN dir : d # file => dir'[d] = dir[d]
BY DEF Put

\* The steps that leave the campaign's lists as they are, and write files.
LEMMA CampFiles ==
  ASSUME CampInv, UNCHANGED <<task, image, at, raw, rows, refusal>>,
         pc \in {"raw", "runs", "per_event", "summary"},
         pc' \in {"runs", "per_event", "summary", "ended", "killed"}
  PROVE  OnATask' /\ UnderWay' /\ Listing' /\ AllMade' /\ per_event' = per_event /\ Summary' = Summary
<1>1. task' = task /\ at' = at /\ raw' = raw /\ rows' = rows /\ image' = image /\ refusal' = refusal
  OBVIOUS
<1>2. OnATask'
  BY <1>1 DEF CampInv, OnATask, Sets
<1>3. UnderWay'
  BY DEF UnderWay
<1>4. Listing'
  BY <1>1 DEF CampInv, Listing, Sets
<1>5. AllMade'
  BY <1>1 DEF CampInv, AllMade
<1>6. per_event' = per_event /\ Summary' = Summary
  BY <1>1 DEF per_event, Seen, Values, verdict, Summary
<1> QED BY <1>2, <1>3, <1>4, <1>5, <1>6

\* A file is written, in the order of Then.
LEMMA CampWrite == ASSUME CampInv, Write, UNCHANGED fresh PROVE CampInv'
<1>1. /\ pc \in {"raw", "runs", "per_event", "summary"} /\ pc' = Then[pc] /\ Written
      /\ UNCHANGED <<task, image, at, raw, rows, refusal>>
  BY DEF Write, Then
<1>2. /\ pc = "raw" => pc' = "runs"
      /\ pc = "runs" => pc' = "per_event"
      /\ pc = "per_event" => pc' = "summary"
      /\ pc = "summary" => pc' = "ended"
  BY <1>1 DEF Then
<1>3. OnATask' /\ UnderWay' /\ Listing' /\ AllMade' /\ per_event' = per_event /\ Summary' = Summary
      /\ rows' = rows
  BY <1>1, <1>2, CampFiles
<1>4. Evidence
  BY DEF CampInv
<1>5. CASE pc = "raw"
  <2>1. Put("raw", raw)
    BY <1>1, <1>5 DEF Written
  <2>2. fresh => "per_event" \notin DOMAIN dir' /\ "summary" \notin DOMAIN dir'
    BY <1>4, <1>5, <2>1, FilePut DEF Evidence
  <2> QED BY <1>2, <1>3, <1>5, <2>2 DEF CampInv, Evidence
<1>6. CASE pc = "runs"
  <2>1. IF rows = <<>> THEN UNCHANGED dir ELSE Put("runs", rows)
    BY <1>1, <1>6 DEF Written
  <2>2. /\ rows # <<>> => "runs" \in DOMAIN dir' /\ dir'["runs"] = rows
        /\ fresh => "per_event" \notin DOMAIN dir' /\ "summary" \notin DOMAIN dir'
    BY <1>4, <1>6, <2>1, FilePut DEF Evidence
  <2> QED BY <1>2, <1>3, <1>6, <2>2 DEF CampInv, Evidence
<1>7. CASE pc = "per_event"
  <2>1. IF rows = <<>> THEN UNCHANGED dir ELSE Put("per_event", per_event)
    BY <1>1, <1>7 DEF Written
  <2>2. /\ rows # <<>> => "runs" \in DOMAIN dir' /\ dir'["runs"] = rows
        /\ rows # <<>> => "per_event" \in DOMAIN dir' /\ dir'["per_event"] = per_event
        /\ fresh /\ "per_event" \in DOMAIN dir' => dir'["per_event"] = per_event
        /\ fresh => "summary" \notin DOMAIN dir'
    BY <1>4, <1>7, <2>1, FilePut DEF Evidence
  <2> QED BY <1>2, <1>3, <1>7, <2>2 DEF CampInv, Evidence
<1>8. CASE pc = "summary"
  <2>1. Put("summary", Summary)
    BY <1>1, <1>8 DEF Written
  <2>2. /\ rows # <<>> => "runs" \in DOMAIN dir' /\ dir'["runs"] = rows
        /\ rows # <<>> => "per_event" \in DOMAIN dir' /\ dir'["per_event"] = per_event
        /\ fresh /\ "per_event" \in DOMAIN dir' => dir'["per_event"] = per_event
        /\ "summary" \in DOMAIN dir' /\ dir'["summary"] = Summary
    BY <1>4, <1>8, <2>1, FilePut DEF Evidence
  <2> QED BY <1>2, <1>3, <1>8, <2>2 DEF CampInv, Evidence
<1> QED BY <1>1, <1>5, <1>6, <1>7, <1>8

\* The process is killed, maybe while it writes.
LEMMA CampKilled == ASSUME CampInv, Killed, UNCHANGED fresh PROVE CampInv'
<1>1. /\ Running /\ pc' = "killed"
      /\ UNCHANGED <<task, image, at, raw, rows, refusal>>
      /\ \/ UNCHANGED dir
         \/ /\ pc = "runs" /\ rows # <<>>
            /\ \E n \in 0 .. Len(rows) - 1 : Put(pc, SubSeq(rows, 1, n))
         \/ /\ pc = "summary"
            /\ Put(pc, [torn |-> TRUE])
  BY DEF Killed
<1>2. task' = task /\ at' = at /\ raw' = raw /\ rows' = rows /\ image' = image /\ refusal' = refusal
  BY <1>1
<1>3. OnATask' /\ UnderWay' /\ Listing' /\ AllMade'
  BY <1>1, <1>2 DEF CampInv, OnATask, UnderWay, Listing, AllMade, Sets, Running
<1>4. per_event' = per_event
  BY <1>2 DEF per_event, Seen, Values, verdict
<1>5. Evidence /\ pc \notin {"ended", "killed"}
  BY <1>1 DEF CampInv, Running
<1>6. CASE UNCHANGED dir
  <2>1. fresh => "summary" \notin DOMAIN dir
    BY <1>5 DEF Evidence
  <2> QED BY <1>1, <1>3, <1>4, <1>5, <1>6, <2>1 DEF CampInv, Evidence
<1>7. CASE /\ pc = "runs" /\ \E n \in 0 .. Len(rows) - 1 : Put(pc, SubSeq(rows, 1, n))
  <2>1. PICK n \in 0 .. Len(rows) - 1 : Put("runs", SubSeq(rows, 1, n))
    BY <1>7
  <2>2. fresh => "per_event" \notin DOMAIN dir' /\ "summary" \notin DOMAIN dir'
    BY <1>5, <1>7, <2>1, FilePut DEF Evidence
  <2> QED BY <1>1, <1>3, <2>2 DEF CampInv, Evidence
<1>8. CASE pc = "summary" /\ Put(pc, [torn |-> TRUE])
  <2>1. /\ fresh /\ "per_event" \in DOMAIN dir' => dir'["per_event"] = per_event
        /\ dir'["summary"] = [torn |-> TRUE]
    BY <1>5, <1>8, FilePut DEF Evidence
  <2> QED BY <1>1, <1>3, <1>4, <2>1 DEF CampInv, Evidence
<1> QED BY <1>1, <1>6, <1>7, <1>8

\* Every step of the process keeps the invariant.
LEMMA CampStep == ASSUME CampInv, CampNext, UNCHANGED fresh PROVE CampInv'
<1>1. CASE Ping
  BY <1>1, CampTalk DEF Ping, Refuse, Uncaught, None
<1>2. CASE SetMode
  BY <1>2, CampTalk DEF SetMode, Refuse, Uncaught, None
<1>3. CASE prime
  BY <1>3, CampTalk DEF prime, Refuse, None
<1>4. CASE run
  <2>1. CASE /\ UNCHANGED <<task, image, at, raw, rows, dir>> /\ pc = "run"
             /\ pc' = "raw" /\ refusal' # None
    BY <2>1, CampTalk
  <2>2. CASE \E r \in task.records :
               /\ raw' = Append(raw, r) /\ rows' = rows \o RowsOf(r) /\ Advance
               /\ UNCHANGED <<task, image, refusal, dir>> /\ pc = "run"
    BY <2>2, CampRun
  <2> QED BY <1>4, <2>1, <2>2 DEF run, Refuse, None
<1>5. CASE Write
  BY <1>5, CampWrite
<1>6. CASE Killed
  BY <1>6, CampKilled
<1> QED BY <1>1, <1>2, <1>3, <1>4, <1>5, <1>6 DEF CampNext

\* The process keeps its lists, its place and its files in step.
THEOREM CampaignInvariant == Spec => []CampInv
<1>1. Init => CampInv
  BY CampStart
<1>2. CampInv /\ [Next]_vars => CampInv'
  <2> SUFFICES ASSUME CampInv, [Next]_vars PROVE CampInv'
    OBVIOUS
  <2>1. CASE Start_script
    BY <2>1, CampStutter DEF Start_script
  <2>2. CASE Continue_script
    BY <2>2, CampStutter DEF Continue_script
  <2>3. CASE Measure
    BY <2>3, CampLaunch, Zenon DEF Measure
  <2>4. CASE Process
    BY <2>4, CampStep DEF Process
  <2>5. CASE UNCHANGED vars
    BY <2>5, CampStutter DEF vars
  <2> QED BY <2>1, <2>2, <2>3, <2>4, <2>5 DEF Next
<1> QED BY <1>1, <1>2, PTL DEF Spec

-----------------------------------------------------------------------------
(* What the words about a campaign rest on.                                *)

\* The rows of an event.
RowsWith(y, ev) == {n \in 1 .. Len(y) : y[n].ev_type = ev}

\* The rows of an event are of as many RUNs.
LEMMA RowsOfEvent ==
  ASSUME NEW es, NEW N \in Nat, NEW s, NEW r, NEW y, RowsAre(es, N, s, r, y), NEW ev
  PROVE  IsFiniteSet(RowsWith(y, ev)) /\ Cardinality(RowsWith(y, ev)) <= N
<1> DEFINE D == {n \in 1 .. Len(y) : y[n].ev_type = ev}
           f == [n \in D |-> y[n].rep]
<1>1. /\ \A n \in 1 .. Len(y) : y[n].rep \in 1 .. N
      /\ \A m, n \in 1 .. Len(y) : m # n /\ y[m].ev_type = y[n].ev_type => y[m].rep # y[n].rep
      /\ Len(y) \in Nat
  BY Zenon DEF RowsAre, IsSeq
<1>2. IsFiniteSet(1 .. N) /\ Cardinality(1 .. N) = N
  <2>1. 1 \in Int /\ N \in Int /\ (IF 1 > N THEN 0 ELSE N - 1 + 1) = N
    OBVIOUS
  <2> QED BY <2>1, FS_Interval
<1>3. IsFiniteSet(D)
  <2>1. IsFiniteSet(1 .. Len(y)) /\ D \subseteq 1 .. Len(y)
    BY <1>1, FS_Interval
  <2> HIDE DEF D
  <2> QED BY <2>1, FS_Subset
<1>4. f \in Injection(D, 1 .. N)
  <2>1. f \in [D -> 1 .. N]
    BY <1>1
  <2>2. ASSUME NEW m \in D, NEW n \in D, m # n PROVE f[m] # f[n]
    <3>1. m \in 1 .. Len(y) /\ n \in 1 .. Len(y) /\ y[m].ev_type = y[n].ev_type
      OBVIOUS
    <3>2. y[m].rep # y[n].rep
      BY <1>1, <2>2, <3>1, Zenon
    <3> QED BY <3>2
  <2> HIDE DEF f, D
  <2> QED BY <2>1, <2>2 DEF Injection, IsInjective
<1> HIDE DEF f, D
<1>5. Cardinality(D) <= Cardinality(1 .. N)
  BY <1>2, <1>3, <1>4, FS_Injection
<1> QED BY <1>2, <1>3, <1>5 DEF D, RowsWith

\* What is counted has a value in every row, and a row with a value is of a valid RUN.
LEMMA Counted == CampInv => CountedMeansEveryRunValid
<1> SUFFICES ASSUME CampInv, OfThisCampaign, "per_event" \in DOMAIN dir,
                    NEW ev \in DOMAIN dir.per_event, dir.per_event[ev] # "NOT_OBSERVED",
                    NEW n \in DOMAIN rows, rows[n].ev_type = ev
             PROVE  rows[n].run_valid
  BY Zenon DEF CountedMeansEveryRunValid
<1> DEFINE N == task.repeats
           D == {k \in 1 .. Len(rows) : rows[k].ev_type = ev}
           v == Values(ev)
           ok == {k \in DOMAIN v : v[k] # NoValue}
<1>1. pc # "off" /\ dir.per_event = per_event
  <2>1. pc # "off" /\ rows # <<>>
    <3>1. DOMAIN << >> = {}
      OBVIOUS
    <3>2. pc = "off" => rows = <<>>
      BY DEF CampInv, OnATask
    <3> QED BY <3>1, <3>2
  <2> QED BY <2>1 DEF CampInv, Evidence, OfThisCampaign
<1>2. task \in Tasks /\ RowsAre(Sets, N, at.set, at.rep + 1, rows)
  BY <1>1 DEF CampInv, OnATask, Listing
<1>3. N \in Nat
  BY <1>2, OfTask
<1>4. /\ Len(rows) \in Nat /\ DOMAIN rows = 1 .. Len(rows)
      /\ \A k \in 1 .. Len(rows) : rows[k].event_value # NoValue => rows[k].run_valid
  <2>1. /\ IsSeq(rows)
        /\ \A k \in 1 .. Len(rows) : rows[k].event_value # NoValue => rows[k].run_valid
    BY <1>2, Zenon DEF RowsAre
  <2> QED BY <2>1 DEF IsSeq
<1>5. IsFiniteSet(D) /\ Cardinality(D) <= N
  <2> HIDE DEF N
  <2>1. IsFiniteSet(RowsWith(rows, ev)) /\ Cardinality(RowsWith(rows, ev)) <= N
    <3>1. RowsAre(Sets, N, at.set, at.rep + 1, rows)
      BY <1>2 DEF N
    <3> QED BY <1>3, <3>1, RowsOfEvent
  <2> QED BY <2>1 DEF RowsWith
<1>6. DOMAIN v = D /\ \A k \in D : v[k] = rows[k].event_value
  BY <1>4 DEF Values
<1>7. dir.per_event[ev] = verdict(v)
  <2>1. ev \in DOMAIN per_event
    BY <1>1
  <2> QED BY <1>1, <2>1 DEF per_event
<1>8. ~(Cardinality(ok) < N)
  <2> HIDE DEF v
  <2> QED BY <1>7 DEF verdict
<1> HIDE DEF v
<1>9. ok \subseteq D
  BY <1>6
<1>10. ok = D
  <2> HIDE DEF ok, D, N
  <2>1. IsFiniteSet(ok) /\ Cardinality(ok) <= Cardinality(D) /\ (Cardinality(ok) = Cardinality(D) => ok = D)
    BY <1>5, <1>9, FS_Subset
  <2>2. Cardinality(ok) \in Nat /\ Cardinality(D) \in Nat
    BY <1>5, <2>1, FS_CardinalityType
  <2> QED BY <1>3, <1>5, <1>8, <2>1, <2>2
<1>11. n \in D
  BY <1>4
<1>12. n \in 1 .. Len(rows) /\ rows[n].event_value # NoValue
  BY <1>6, <1>10, <1>11
<1> QED BY <1>4, <1>12, Zenon

\* What run r, as it is judged, has of the rows of repetition k.
JudgedAs(y, k, r) ==
  \E m \in 1 .. Len(y) :
    /\ y[m].rep = k /\ r.bad = y[m].bad
    /\ r.valid => y[m].run_valid
    /\ \A n \in 1 .. Len(y) : y[n].rep = k /\ y[n].event_overflow => r.overflow

\* A campaign's rows of one repetition make one of the runs that are judged.
LEMMA LoadRuns ==
  ASSUME NEW y, IsSeq(y), NEW k, NEW i \in 1 .. Len(y), y[i].rep = k
  PROVE  \E r \in load_runs(y) : JudgedAs(y, k, r)
<1> DEFINE Mine(rep) == {n \in DOMAIN y : y[n].rep = rep}
           Value(mine, ev) == LET of == {n \in mine : y[n].ev_type = ev}
                              IN IF of = {} THEN -1 ELSE y[Max(of)].event_value
           One(mine) == [rep |-> y[Min(mine)].rep, valid |-> y[Min(mine)].run_valid,
                         bad |-> y[Min(mine)].bad,
                         overflow |-> \E n \in mine : y[n].event_overflow,
                         event |-> [ev \in {CYCLE, NPU_ACTIVE, MAC_ACTIVE} |-> Value(mine, ev)]]
           mine == Mine(k)
           m == Min(mine)
           e == [ev \in {CYCLE, NPU_ACTIVE, MAC_ACTIVE} |-> Value(mine, ev)]
           o == \E n \in mine : y[n].event_overflow
           r == [rep |-> y[m].rep, valid |-> y[m].run_valid, bad |-> y[m].bad,
                 overflow |-> o, event |-> e]
<1>1. Len(y) \in Nat /\ DOMAIN y = 1 .. Len(y)
  BY DEF IsSeq
<1>2. mine \subseteq Nat /\ mine # {}
  BY <1>1
<1>3. m \in mine
  <2> HIDE DEF mine
  <2>1. \E x \in mine : \A z \in mine : x <= z
    BY <1>2, Least
  <2> QED BY <2>1 DEF Min
<1>4. r \in load_runs(y)
  <2>1. k \in {y[n].rep : n \in DOMAIN y}
    BY <1>1
  <2>2. load_runs(y) = {One(Mine(rep)) : rep \in {y[n].rep : n \in DOMAIN y}}
    BY Zenon DEF load_runs
  <2>3. r = One(Mine(k))
    OBVIOUS
  <2> HIDE DEF r, One, Mine
  <2> QED BY <2>1, <2>2, <2>3, Zenon
<1>5. m \in 1 .. Len(y) /\ y[m].rep = k
  BY <1>1, <1>3
<1>6. \A n \in 1 .. Len(y) : y[n].rep = k /\ y[n].event_overflow => o
  <2>1. \A n \in 1 .. Len(y) : y[n].rep = k => n \in mine
    BY <1>1
  <2> QED BY <2>1, Zenon
<1>7. r.bad = y[m].bad /\ (r.valid => y[m].run_valid) /\ (o => r.overflow)
  <2> HIDE DEF m, e, o
  <2> QED BY Zenon
<1> HIDE DEF r, m, o, e
<1> QED BY <1>4, <1>5, <1>6, <1>7, Zenon DEF JudgedAs

\* A run of which no check but that of its cycles may fail.
LEMMA Checked ==
  ASSUME NEW r, run_checks(r) \subseteq {"R6_cycle"}
  PROVE  /\ r.valid /\ ~r.overflow
         /\ "rc_zero" \notin r.bad /\ "vendor_rc_zero" \notin r.bad /\ "ofm_equal" \notin r.bad
<1> DEFINE h == [R1_valid    |-> r.valid,
                 R2_rc       |-> "rc_zero" \notin r.bad,
                 R3_output   |-> r.bad \cap {"vendor_rc_zero", "ofm_equal"} = {},
                 R4_overflow |-> ~r.overflow,
                 R5_active   |-> ~ActiveFails(r),
                 R6_cycle    |-> r.event[CYCLE] # -1 /\ "cycle_near_window" \notin r.bad]
<1>1. run_checks(r) = {x \in DOMAIN h : ~h[x]}
  BY Zenon DEF run_checks
<1>2. /\ h["R1_valid"] = r.valid /\ h["R2_rc"] = ("rc_zero" \notin r.bad)
      /\ h["R3_output"] = (r.bad \cap {"vendor_rc_zero", "ofm_equal"} = {})
      /\ h["R4_overflow"] = (~r.overflow)
  BY Zenon
<1>3. {"R1_valid", "R2_rc", "R3_output", "R4_overflow"} \subseteq DOMAIN h
  OBVIOUS
<1> HIDE DEF h
<1>4. h["R1_valid"] /\ h["R2_rc"] /\ h["R3_output"] /\ h["R4_overflow"]
  <2>1. \A x \in DOMAIN h : ~h[x] => x = "R6_cycle"
    BY <1>1
  <2> QED BY <1>3, <2>1
<1>5. r.valid /\ ~r.overflow /\ "rc_zero" \notin r.bad
      /\ r.bad \cap {"vendor_rc_zero", "ofm_equal"} = {}
  BY <1>2, <1>4, Zenon
<1> QED BY <1>5

\* What the gate passes has one set, a row of every event of every RUN, and no failed check.
LEMMA Passed == CampInv => PassMeansEveryRunClean
<1> SUFFICES ASSUME CampInv, OfThisCampaign, gate(dir, Profile) = "BASELINE_PASS"
             PROVE  /\ pc = "ended" /\ Len(raw) = task.repeats
                    /\ \A n \in DOMAIN raw :
                         /\ run_validity(raw[n], task.mode) = {}
                         /\ raw[n].bad \cap {"rc_zero", "vendor_rc_zero", "ofm_equal"} = {}
                         /\ raw[n].over \cap ToSet(task.ids) = {}
  BY DEF PassMeansEveryRunClean
<1> DEFINE N == task.repeats
           es == Sets
<1>1. /\ "summary" \in DOMAIN dir /\ "runs" \in DOMAIN dir
      /\ "torn" \notin DOMAIN dir.summary
      /\ boot_checks(dir.summary, Profile) = {}
      /\ \A r \in load_runs(dir.runs) : run_checks(r) \subseteq {"R6_cycle"}
  <2>1. {"summary", "runs"} \subseteq DOMAIN dir
    BY DEF gate
  <2>2. "torn" \notin DOMAIN dir.summary
    BY <2>1 DEF gate
  <2> DEFINE Fails(r) == IF Profile.checks = "stage1" THEN stage1_checks(r) ELSE run_checks(r)
             ok == /\ boot_checks(dir.summary, Profile) = {}
                   /\ \A r \in load_runs(dir.runs) : Fails(r) = {}
                   /\ Cardinality({r.rep : r \in load_runs(dir.runs)}) = Profile.repeats
  <2>3. gate(dir, Profile) = IF ok THEN "BASELINE_PASS" ELSE "BASELINE_FAIL"
    BY <2>1, <2>2, Zenon DEF gate
  <2>4. ok
    <3> HIDE DEF ok
    <3> QED BY <2>3
  <2>5. \A r \in load_runs(dir.runs) : Fails(r) = {}
    BY <2>4, Zenon
  <2>6. \A r : Fails(r) = {} => run_checks(r) \subseteq {"R6_cycle"}
    BY DEF stage1_checks
  <2> HIDE DEF Fails
  <2>7. boot_checks(dir.summary, Profile) = {}
    BY <2>4, Zenon
  <2> QED BY <2>1, <2>2, <2>5, <2>6, <2>7, Zenon
<1>2. pc = "ended" /\ dir.summary = Summary
  <2>1. Evidence
    BY DEF CampInv
  <2>2. "torn" \in DOMAIN [torn |-> TRUE]
    OBVIOUS
  <2> QED BY <1>1, <2>1, <2>2, Zenon DEF Evidence, OfThisCampaign
<1>3. Len(raw) = N /\ refusal = None /\ Seen = ToSet(task.ids)
  <2>1. /\ ~(~Summary.complete \/ Summary.refusal # "None" \/ Summary.runs # Profile.repeats)
    <3>1. boot_checks(Summary, Profile) = {}
      BY <1>1, <1>2
    <3> DEFINE w == Summary
    <3> HIDE DEF w
    <3>2. boot_checks(w, Profile) = {} =>
            ~(~w.complete \/ w.refusal # "None" \/ w.runs # Profile.repeats)
      <4>1. ASSUME ~w.complete \/ w.refusal # "None" \/ w.runs # Profile.repeats
            PROVE  "B3_set" \in boot_checks(w, Profile)
        BY <4>1, Zenon DEF boot_checks
      <4> QED BY <4>1, Zenon
    <3> QED BY <3>1, <3>2, Zenon DEF w
  <2>2. Summary.refusal = refusal /\ Summary.runs = Len(raw)
    BY DEF Summary
  <2>3. Summary.complete = Covers(Seen, task.ids)
    BY Zenon DEF Summary
  <2>4. Profile.repeats = N
    BY DEF Profile
  <2>5. Covers(Seen, task.ids)
    BY <2>1, <2>3, Zenon
  <2> QED BY <2>1, <2>2, <2>4, <2>5 DEF Covers, None
<1>12. task \in Tasks /\ rows # <<>>
  <2>1. task \in Tasks
    BY <1>2 DEF CampInv, OnATask
  <2>2. task.ids \in Seq(Nat) /\ task.ids # <<>>
    BY <2>1, CampaignAssumption
  <2>3. task.ids[1] \in ToSet(task.ids)
    <3>1. 1 \in DOMAIN task.ids
      BY <2>2
    <3> QED BY <3>1 DEF ToSet
  <2>4. rows = <<>> => Seen = {}
    <3>1. DOMAIN << >> = {}
      OBVIOUS
    <3> QED BY <3>1 DEF Seen
  <2> QED BY <1>3, <2>1, <2>3, <2>4
<1>13. dir.runs = rows
  BY <1>2, <1>12 DEF CampInv, Evidence
<1>4. /\ task \in Tasks /\ IsSeq(raw) /\ RowsAre(es, N, at.set, at.rep + 1, rows)
      /\ at.set = 1 => RawAre(es, task.mode, raw, rows)
  BY <1>2 DEF CampInv, OnATask, Listing
<1>5. N \in Nat /\ DOMAIN es \subseteq Nat \ {0}
  BY <1>4, OfTask DEF Sets
<1>6. at.set = 1
  <2>1. at.set # 1 => Len(raw) > N
    BY <1>2, <1>3 DEF CampInv, AllMade
  <2> QED BY <1>3, <1>5, <2>1
<1>7. RawAre(es, task.mode, raw, rows) /\ IsSeq(rows)
  BY <1>4, <1>6, Zenon DEF RowsAre
<1>8. Len(rows) \in Nat /\ DOMAIN rows = 1 .. Len(rows) /\ DOMAIN raw = 1 .. Len(raw)
  BY <1>4, <1>7 DEF IsSeq
\* Every row is of the first set.
<1>9. ASSUME NEW n \in 1 .. Len(rows)
      PROVE  \E b \in 1 .. Len(es[1]) : rows[n].ev_type = es[1][b]
  <2>1. /\ rows[n].set \in DOMAIN es
        /\ rows[n].set < at.set \/ rows[n].set = at.set
        /\ \E b \in 1 .. Len(es[rows[n].set]) : rows[n].ev_type = es[rows[n].set][b]
    BY <1>4, Zenon DEF RowsAre
  <2>2. rows[n].set = 1
    <3> DEFINE c == rows[n].set
    <3>1. c \in Nat /\ c >= 1 /\ (c < 1 \/ c = 1)
      BY <1>5, <1>6, <2>1
    <3> HIDE DEF c
    <3>2. c = 1
      BY <3>1
    <3> QED BY <3>2 DEF c
  <2> QED BY <2>1, <2>2
<1>10. 1 \in 1 .. Len(rows)
  <2>1. Len(rows) # 0
    <3>1. Len(rows) = 0 => rows = <<>>
      BY <1>7 DEF IsSeq
    <3> QED BY <1>12, <3>1
  <2> QED BY <1>8, <2>1
<1>11. ASSUME NEW k \in 1 .. Len(raw)
       PROVE  /\ run_validity(raw[k], task.mode) = {}
              /\ "rc_zero" \notin raw[k].bad /\ "vendor_rc_zero" \notin raw[k].bad
              /\ "ofm_equal" \notin raw[k].bad
              /\ \A ev \in ToSet(task.ids) : ev \notin raw[k].over
  <2>1. \A b \in 1 .. Len(es[1]) : \E n \in 1 .. Len(rows) :
          rows[n].rep = k /\ rows[n].ev_type = es[1][b]
    BY <1>7, Zenon DEF RawAre
  <2>2. \E n \in 1 .. Len(rows) : rows[n].rep = k
    BY <1>9, <1>10, <2>1, Zenon
  <2>3. PICK r \in load_runs(rows) : JudgedAs(rows, k, r)
    <3>1. PICK i \in 1 .. Len(rows) : rows[i].rep = k
      BY <2>2
    <3> QED BY <1>7, <3>1, LoadRuns
  <2>8. PICK m \in 1 .. Len(rows) :
          /\ rows[m].rep = k /\ r.bad = rows[m].bad
          /\ r.valid => rows[m].run_valid
          /\ \A n \in 1 .. Len(rows) : rows[n].rep = k /\ rows[n].event_overflow => r.overflow
    BY <2>3, Zenon DEF JudgedAs
  <2>4. /\ r.valid /\ ~r.overflow
        /\ "rc_zero" \notin r.bad /\ "vendor_rc_zero" \notin r.bad /\ "ofm_equal" \notin r.bad
    <3>1. run_checks(r) \subseteq {"R6_cycle"}
      BY <1>1, <1>13, <2>3
    <3> QED BY <3>1, Checked, Zenon
  <2>5. /\ rows[m].run_valid => run_validity(raw[rows[m].rep], task.mode) = {}
        /\ rows[m].bad = raw[rows[m].rep].bad
    BY <1>7, Zenon DEF RawAre
  <2>6. run_validity(raw[k], task.mode) = {} /\ r.bad = raw[k].bad
    <3>1. rows[m].run_valid /\ rows[m].rep = k /\ r.bad = rows[m].bad
      BY <2>4, <2>8, Zenon
    <3> QED BY <2>5, <3>1
  <2>7. ASSUME NEW ev \in ToSet(task.ids), ev \in raw[k].over PROVE FALSE
    <3>1. PICK i \in 1 .. Len(rows) : rows[i].ev_type = ev
      BY <1>3, <1>8, <2>7 DEF Seen
    <3>2. PICK b \in 1 .. Len(es[1]) : ev = es[1][b]
      BY <1>9, <3>1
    <3>3. PICK n \in 1 .. Len(rows) : rows[n].rep = k /\ rows[n].ev_type = ev
      BY <2>1, <3>2, Zenon
    <3>4. rows[n].ev_type \in raw[rows[n].rep].over => rows[n].event_overflow
      BY <1>7, Zenon DEF RawAre
    <3>5. rows[n].event_overflow
      <4>1. rows[n].ev_type \in raw[rows[n].rep].over
        BY <2>7, <3>3
      <4> QED BY <3>4, <4>1, Zenon
    <3> QED BY <2>4, <2>8, <3>3, <3>5, Zenon
  <2> QED BY <2>4, <2>6, <2>7
<1> QED BY <1>2, <1>3, <1>8, <1>11

\* A campaign that passes the gate ran on the image of the profile, though the digests
\* it records are those of the staging directory (run_campaign.sh).
THEOREM PassIsOfTheImage == Spec => []PassIsOfTheProfileImage
<1>1. BootedRecorded /\ CampInv => PassIsOfTheProfileImage
  <2> SUFFICES ASSUME BootedRecorded, CampInv, OfThisCampaign,
                      gate(dir, Profile) = "BASELINE_PASS"
               PROVE  booted = {ProfileImage}
    BY DEF PassIsOfTheProfileImage
  <2>1. "summary" \in DOMAIN dir /\ "torn" \notin DOMAIN dir.summary
    BY DEF gate
  <2>2. boot_checks(dir.summary, Profile) = {}
    BY <2>1 DEF gate
  <2>3. dir.summary.image = Profile.image /\ Profile.image = ProfileImage
    BY <2>2 DEF boot_checks, Profile
  <2>4. pc = "ended" /\ dir.summary = Summary
    <3>1. "torn" \in DOMAIN [torn |-> TRUE]
      OBVIOUS
    <3> QED BY <2>1, <3>1, Zenon DEF CampInv, Evidence, OfThisCampaign
  <2>5. Summary.image = image
    BY DEF Summary
  <2> QED BY <2>3, <2>4, <2>5 DEF BootedRecorded
<1> QED BY <1>1, BootedHolds, CampaignInvariant, PTL

\* A campaign that passes the gate made every RUN asked for, each of them valid, with the
\* right output and no overflow, and ended by itself, in a new evidence directory or a
\* used one; of a used one nothing is said before its end (run_pmu_events.py,
\* baseline_gate.py).
THEOREM PassIsOfCleanRuns == Spec => []PassMeansEveryRunClean
BY CampaignInvariant, Passed, PTL

\* An event is reported as counted only if every RUN that measured it was valid
\* (verdict of pmu_events_parse.py).
THEOREM CountedIsOfValidRuns == Spec => []CountedMeansEveryRunValid
BY CampaignInvariant, Counted, PTL
=============================================================================
