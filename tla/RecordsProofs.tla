----------------------------- MODULE RecordsProofs -----------------------------
(***************************************************************************)
(* What tabs keep of commands and conversations is so, for any number of   *)
(* commands, tabs and wallets: the answers to commands of a provider that  *)
(* cannot tell a repeated one, the advice on what a command may have left  *)
(* behind, and the transcripts.                                            *)
(*                                                                         *)
(* The answers need an invariant with the provider in it, LegacyInv.  The  *)
(* record of an app can only be trusted when nothing is under way, so it   *)
(* says besides what commands under way have seen (RecordInv); and what a  *)
(* user is told is read off the provider's last job, so it says which      *)
(* command that job is (TellsTruth) and, when no other command was         *)
(* executed, which manifest is served (ManifestInv).  A command whose page *)
(* dies tells nothing, and leaves the record as it was: while a request    *)
(* runs that the page does not know to be accepted, the manifest on record *)
(* is still the one from before it.                                        *)
(*                                                                         *)
(* The advice needs one that relates what a tab holds in memory, what the  *)
(* entry on disk lists as used up and which commands it concerns           *)
(* (AdviceInv): what is used up is of no further use, what still stands is *)
(* held, and a command that was proved not sent is advised nowhere.        *)
(*                                                                         *)
(* The transcripts have theirs in TranscriptsProofs, the commands of the   *)
(* newer protocol in MaintenanceProofs.  By the lemma that only the chosen *)
(* part moves, the theorems are stated of RecordsSpec, which the run       *)
(* explores.                                                               *)
(***************************************************************************)
EXTENDS MCRecords, MaintenanceProofs, TranscriptsProofs, TLAPS

-----------------------------------------------------------------------------
(* Commands without idempotency keys *)

Manifests == 0..MaxCommands \union {Unknown}
CommandRecord ==
  [kind : {"none", "restart", "update"}, step : {"unborn", "post", "posted", "wait", "provision", "url", "done"},
   base : Manifests, previous : Manifests, aborted : BOOLEAN,
   told : {"nothing", "unasked", "conflict", "refused", "unknown", "failed", "outlived", "restored", "notApplied", "done"},
   sighted : BOOLEAN, read : BOOLEAN, alone : BOOLEAN]
FredRecord == [status : Statuses \ {"absent"}, reason : {"none", "UpdateFailed", "ImagePullFailed", "ContainerExited"},
               serves : 0..MaxCommands, job : 0..MaxCommands]
EntryRecord == [manifest : Manifests, prov : {"confirmed", "failed"}, stale : BOOLEAN]

LegacyTypes ==
  /\ fred \in FredRecord /\ entry \in EntryRecord
  /\ commands \in [Commands -> CommandRecord]
  /\ late \subseteq Commands /\ deaths \in 0..MaxDeaths
  /\ became \in [Commands -> Ends \union {"nothing", "busy"}]
  /\ excused \in BOOLEAN

\* How far a command has come, and what it may have left behind.
Phase(c) ==
  /\ commands[c].step \in {"unborn", "post"} => became[c] = "nothing"
  /\ Accepted(c) => became[c] # "nothing"
  /\ commands[c].step \notin {"url", "done"} => ~commands[c].read
  /\ c \in late => commands[c].step = "done" /\ ~commands[c].read /\ became[c] = "nothing"
  /\ commands[c].step # "done" => commands[c].told = "nothing"
  /\ commands[c].step = "done" /\ commands[c].read =>
       commands[c].told \in {"done", "outlived", "restored", "notApplied", "nothing"}

\* The provider itself.
FredInv ==
  /\ fred.status = "busy" => fred.job \in Commands /\ became[fred.job] = "busy"
  /\ fred.status = "failed" => fred.reason # "none"
  /\ fred.status = "ready" => fred.reason # "ContainerExited"
  /\ deaths = 0 => fred.reason # "ContainerExited"

\* While nothing is excused, one command at most is under way, what it has seen still holds,
\* and when none is under way the record tells what is so or asks.
Sighting(c) == commands[c].step \in {"provision", "url"} /\ (commands[c].sighted \/ commands[c].read)
TellsOrAsks == entry.stale \/ (fred.status # "busy" /\ entry.prov = classifyProvisionStatus(fred.status))
RecordInv ==
  ~excused =>
    /\ \A c, d \in Commands : Accepted(c) /\ Accepted(d) => c = d
    /\ \A c \in Commands : Sighting(c) => fred.status = "ready"
    /\ (\A c \in Commands : ~Accepted(c)) => TellsOrAsks

\* The provider runs c, or c is what it has last run.
Ran(c) ==
  /\ fred.job = c
  /\ \/ became[c] = "busy" /\ fred.status = "busy"
     \/ became[c] = "applied" /\ fred.status = "ready" /\ fred.reason = "none"
     \/ became[c] = "rolledBack" /\ fred.status = "ready" /\ fred.reason = "UpdateFailed"
     \/ became[c] = "rollbackFailed" /\ fred.status = "failed" /\ fred.reason = "UpdateFailed"
     \/ became[c] = "preflight" /\ fred.status = "failed" /\ fred.reason = "ImagePullFailed"

\* An update whose end was read, and which met no other.
Knows(c) == commands[c].read /\ commands[c].alone /\ commands[c].kind = "update"
TellsTruth(c) ==
  /\ Accepted(c) /\ commands[c].alone => Ran(c)
  /\ commands[c].step = "url" /\ Knows(c) => became[c] = "applied"
  /\ commands[c].step = "done" /\ Knows(c) =>
       /\ commands[c].told \in {"done", "outlived", "nothing"} => became[c] = "applied"
       /\ commands[c].told = "restored" => became[c] = "rolledBack"
       /\ commands[c].told = "notApplied" => became[c] \in {"preflight", "rollbackFailed"}

\* No other command was executed.
Only(c) == \A d \in Commands \ {c} : became[d] = "nothing"
OnRecord(c) ==
  /\ fred.serves = IF became[c] = "applied" /\ commands[c].kind = "update" THEN c ELSE First
  /\ commands[c].step = "posted" => entry.manifest \in {First, Unknown}
  /\ commands[c].step \in {"wait", "provision", "url"} /\ commands[c].kind = "update" =>
       entry.manifest = c /\ commands[c].previous \in {First, Unknown}
  /\ deaths = 0 /\ commands[c].step = "done" /\ Knows(c) => entry.manifest \in {fred.serves, Unknown}
ManifestInv ==
  /\ (\A d \in Commands : became[d] = "nothing") => fred.serves = First /\ entry.manifest \in {First, Unknown}
  /\ \A c \in Commands : Only(c) => OnRecord(c)

LegacyInv ==
  /\ LegacyTypes /\ FredInv /\ RecordInv /\ ManifestInv
  /\ \A c \in Commands : Phase(c)
  /\ deaths = 0 => \A c \in Commands : TellsTruth(c)

\* A step of one command.
LEMMA OneCommand ==
  ASSUME LegacyTypes, NEW c \in Commands, NEW r \in CommandRecord, commands' = [commands EXCEPT ![c] = r]
  PROVE  /\ commands' \in [Commands -> CommandRecord] /\ commands'[c] = r
         /\ \A d \in Commands : d # c => commands'[d] = commands[d]
BY DEF LegacyTypes

\* A command that the provider does not hear of, or not yet.
LEMMA UnheardSafely ==
  ASSUME LegacyInv, NEW c \in Commands, NEW r \in CommandRecord, commands' = [commands EXCEPT ![c] = r],
         UNCHANGED <<fred, deaths, became, excused>>,
         entry' \in EntryRecord, entry'.manifest = entry.manifest, entry'.stale \/ entry' = entry,
         late' \subseteq late \union {c}, c \in late' => c \in late \/ (commands[c].step = "post" /\ r.step = "done"),
         \/ /\ commands[c].step \in {"unborn", "post"} /\ r.step \in {"post", "done"} /\ ~r.read
            /\ r.step = "post" => r.told = "nothing"
         \/ /\ r.step = commands[c].step /\ r.kind = commands[c].kind /\ r.previous = commands[c].previous
            /\ r.told = commands[c].told /\ r.sighted = commands[c].sighted /\ r.read = commands[c].read
            /\ r.alone = commands[c].alone
  PROVE  LegacyInv'
<1>1. /\ commands' \in [Commands -> CommandRecord] /\ commands'[c] = r
      /\ \A d \in Commands : d # c => commands'[d] = commands[d]
  BY OneCommand DEF LegacyInv
<1>2. LegacyTypes'
  BY <1>1 DEF LegacyInv, LegacyTypes
<1>3. \A d \in Commands : Accepted(d)' <=> Accepted(d)
  BY <1>1 DEF Accepted
<1>4. FredInv'
  BY DEF LegacyInv, FredInv
<1>5. RecordInv'
  BY <1>1, <1>3 DEF LegacyInv, RecordInv, Sighting, TellsOrAsks
<1>6. ASSUME NEW d \in Commands PROVE Phase(d)'
  <2>1. Phase(d)
    BY DEF LegacyInv
  <2>2. CASE d # c
    BY <1>1, <1>3, <2>1, <2>2 DEF Phase
  <2>3. CASE d = c
    BY <1>1, <1>3, <2>1, <2>3 DEF Phase
  <2>4. QED
    BY <2>2, <2>3
<1>7. ASSUME deaths' = 0, NEW d \in Commands PROVE TellsTruth(d)'
  <2>1. TellsTruth(d)
    BY <1>7 DEF LegacyInv
  <2>2. CASE d # c
    BY <1>1, <1>3, <2>1, <2>2 DEF TellsTruth, Ran, Knows
  <2>3. CASE d = c
    <3>1. CASE r.step = commands[c].step /\ r.read = commands[c].read
      <4>1. \/ commands'[c].step \in {"post", "done"} /\ ~commands'[c].read
            \/ /\ commands'[c].step = commands[c].step /\ commands'[c].told = commands[c].told
               /\ (Knows(c)' <=> Knows(c)) /\ commands'[c].alone = commands[c].alone
        BY <1>1 DEF Knows
      <4>2. (Ran(c)' <=> Ran(c)) /\ became'[c] = became[c]
        BY DEF Ran
      <4>3. commands'[c].step \in {"post", "done"} => ~Accepted(c)'
        BY DEF Accepted
      <4>4. ~commands'[c].read => ~Knows(c)'
        BY DEF Knows
      <4>5. QED
        BY <1>3, <2>1, <2>3, <4>1, <4>2, <4>3, <4>4 DEF TellsTruth
    <3>2. CASE ~(r.step = commands[c].step /\ r.read = commands[c].read)
      <4>1. commands'[c].step \in {"post", "done"} /\ ~commands'[c].read
        BY <1>1, <3>2
      <4>2. ~Knows(c)' /\ ~Accepted(c)' /\ commands'[c].step # "url"
        BY <4>1 DEF Knows, Accepted
      <4>3. QED
        BY <2>3, <4>2 DEF TellsTruth
    <3>3. QED
      BY <3>1, <3>2
  <2>4. QED
    BY <2>2, <2>3
<1>8. ManifestInv'
  <2>1. ASSUME NEW d \in Commands, Only(d) PROVE OnRecord(d)'
    <3>1. OnRecord(d) /\ Phase(d)
      BY <2>1 DEF LegacyInv, ManifestInv
    <3>2. CASE d # c
      BY <1>1, <1>3, <3>1, <3>2 DEF OnRecord, Knows
    <3>3. CASE d = c
      BY <1>1, <1>3, <3>1, <3>3 DEF OnRecord, Knows, Phase
    <3>4. QED
      BY <3>2, <3>3
  <2>2. QED
    BY <2>1 DEF LegacyInv, ManifestInv, Only
<1>9. QED
  BY <1>2, <1>4, <1>5, <1>6, <1>7, <1>8 DEF LegacyInv

\* A command that the provider takes: it meets those under way.
LEMMA TakenSafely ==
  ASSUME LegacyInv, NEW c \in Commands, Takes(c), NEW r \in CommandRecord,
         commands' = [d \in Commands |-> IF d = c THEN r ELSE [commands[d] EXCEPT !.alone = @ /\ d \notin Meets(c)]],
         became[c] = "nothing", ~Accepted(c), r.step \in {"posted", "done"}, r.kind = commands[c].kind, ~r.read,
         r.step = "posted" => r.told = "nothing", entry' = entry,
         excused' \in BOOLEAN, ~excused' => ~excused /\ Meets(c) = {} /\ (r.step = "done" => entry.stale),
         late' \subseteq late \ {c}, deaths' = deaths
  PROVE  LegacyInv'
<1>1. /\ commands'[c] = r
      /\ \A d \in Commands : d # c =>
           /\ commands'[d] \in CommandRecord
           /\ commands'[d].step = commands[d].step /\ commands'[d].kind = commands[d].kind
           /\ commands'[d].told = commands[d].told /\ commands'[d].read = commands[d].read
           /\ commands'[d].sighted = commands[d].sighted /\ commands'[d].previous = commands[d].previous
  BY DEF LegacyInv, LegacyTypes, CommandRecord
<1>2. ASSUME NEW d \in Commands, d # c, commands'[d].alone PROVE commands[d].alone /\ d \notin Meets(c)
  <2>1. commands'[d].alone = (commands[d].alone /\ d \notin Meets(c))
    BY <1>2 DEF LegacyInv, LegacyTypes, CommandRecord
  <2>2. QED
    BY <1>2, <2>1
<1>3. /\ fred \in FredRecord /\ fred' \in FredRecord /\ fred'.status = "busy" /\ fred'.job = c
      /\ fred'.reason = fred.reason /\ fred'.serves = fred.serves
  <2>1. fred \in FredRecord /\ c \in 0..MaxCommands /\ "busy" \in Statuses \ {"absent"}
    BY LegacyAssumption DEF LegacyInv, LegacyTypes, Commands, Statuses
  <2>2. fred' = [fred EXCEPT !.status = "busy", !.job = c]
    BY DEF Takes
  <2>3. QED
    BY <2>1, <2>2 DEF FredRecord
<1>4. /\ became' \in [Commands -> Ends \union {"nothing", "busy"}] /\ became'[c] = "busy"
      /\ \A d \in Commands : d # c => became'[d] = became[d]
  BY DEF LegacyInv, LegacyTypes, Takes
<1>5. \A d \in Commands : d # c => (Accepted(d)' <=> Accepted(d))
  BY <1>1 DEF Accepted
<1>6. Accepted(c)' <=> r.step = "posted"
  BY <1>1 DEF Accepted
<1>7. LegacyTypes'
  <2>1. commands' \in [Commands -> CommandRecord]
    BY <1>1
  <2>2. QED
    BY <1>3, <1>4, <2>1 DEF LegacyInv, LegacyTypes
<1>8. FredInv'
  BY <1>3, <1>4 DEF LegacyInv, FredInv
<1>9. RecordInv'
  <2> SUFFICES ASSUME ~excused'
               PROVE  /\ \A d, e \in Commands : Accepted(d)' /\ Accepted(e)' => d = e
                      /\ \A d \in Commands : Sighting(d)' => fred'.status = "ready"
                      /\ (\A d \in Commands : ~Accepted(d)') => TellsOrAsks'
    BY DEF RecordInv
  <2>1. \A d \in Commands : d # c => ~Accepted(d)'
    BY <1>5 DEF Meets
  <2>2. \A d \in Commands : Sighting(d)' => Accepted(d)' /\ commands'[d].step # "posted"
    BY DEF Sighting, Accepted
  <2>3. \A d \in Commands : ~Sighting(d)'
    BY <1>1, <1>6, <2>1, <2>2
  <2>4. (\A d \in Commands : ~Accepted(d)') => TellsOrAsks'
    BY <1>6 DEF TellsOrAsks
  <2>5. QED
    BY <2>1, <2>3, <2>4
<1>10. ASSUME NEW d \in Commands PROVE Phase(d)'
  <2>1. Phase(d)
    BY DEF LegacyInv
  <2>2. CASE d # c
    BY <1>1, <1>4, <1>5, <2>1, <2>2 DEF Phase
  <2>3. CASE d = c
    BY <1>1, <1>4, <1>6, <2>1, <2>3 DEF Phase
  <2>4. QED
    BY <2>2, <2>3
<1>11. ASSUME deaths' = 0, NEW d \in Commands PROVE TellsTruth(d)'
  <2>1. TellsTruth(d)
    BY <1>11 DEF LegacyInv
  <2>2. CASE d # c
    <3>1. commands'[d].alone => ~Accepted(d)'
      BY <1>2, <1>5, <2>2 DEF Meets
    <3>2. commands'[d].step = "url" => Accepted(d)'
      BY DEF Accepted
    <3>3. Knows(d)' => Knows(d)
      BY <1>1, <1>2, <2>2 DEF Knows
    <3>4. QED
      BY <1>1, <1>4, <2>1, <2>2, <3>1, <3>2, <3>3 DEF TellsTruth, Knows
  <2>3. CASE d = c
    <3>1. Ran(c)'
      BY <1>3, <1>4 DEF Ran
    <3>2. ~Knows(c)'
      BY <1>1 DEF Knows
    <3>3. QED
      BY <2>3, <3>1, <3>2 DEF TellsTruth
  <2>4. QED
    BY <2>2, <2>3
<1>12. ManifestInv'
  <2>1. ASSUME NEW d \in Commands, Only(d)' PROVE d = c
    BY <1>4, <2>1 DEF Only
  <2>2. ASSUME Only(c)' PROVE OnRecord(c)'
    <3>1. \A d \in Commands : became[d] = "nothing"
      BY <1>4, <2>2 DEF Only
    <3>2. fred.serves = First /\ entry.manifest \in {First, Unknown}
      BY <3>1 DEF LegacyInv, ManifestInv
    <3>3. QED
      BY <1>1, <1>3, <1>4, <1>6, <3>2 DEF OnRecord, Knows
  <2>3. QED
    BY <1>4, <2>1, <2>2 DEF ManifestInv
<1>13. QED
  BY <1>7, <1>8, <1>9, <1>10, <1>11, <1>12 DEF LegacyInv

\* The provider's command ends.
LEMMA FredEndsSafely ==
  ASSUME LegacyInv, NEW end \in Ends, FredEnds(end)
  PROVE  LegacyInv'
<1>1. PICK j : j = fred.job
  OBVIOUS
<1>2. j \in Commands /\ became[j] = "busy" /\ fred.status = "busy" /\ fred \in FredRecord
  BY <1>1 DEF LegacyInv, FredInv, FredEnds, LegacyTypes
<1>3. commands' = commands /\ entry' = entry /\ late' = late /\ deaths' = deaths /\ excused' = excused
  BY DEF FredEnds
<1>4. became' = [became EXCEPT ![j] = end]
  BY <1>1 DEF FredEnds
<1>5. /\ became' \in [Commands -> Ends \union {"nothing", "busy"}] /\ became'[j] = end
      /\ \A d \in Commands : d # j => became'[d] = became[d]
  BY <1>2, <1>4 DEF LegacyInv, LegacyTypes
<1>6. PICK status, reason, serves :
        /\ fred' = [fred EXCEPT !.status = status, !.reason = reason, !.serves = serves]
        /\ status = IF end \in {"applied", "rolledBack"} THEN "ready" ELSE "failed"
        /\ reason = CASE end = "applied" -> "none" [] end = "preflight" -> "ImagePullFailed" [] OTHER -> "UpdateFailed"
        /\ serves = IF end = "applied" /\ commands[j].kind = "update" THEN j ELSE fred.serves
  BY <1>1, <1>2 DEF FredEnds, FredRecord
<1>7. /\ reason \in {"none", "UpdateFailed", "ImagePullFailed"} /\ status \in {"ready", "failed"}
      /\ status = "failed" => reason # "none" /\ end \in {"preflight", "rollbackFailed"}
      /\ end = "applied" => reason = "none"
      /\ end = "preflight" => reason = "ImagePullFailed"
  BY <1>6 DEF Ends
<1>8. serves \in 0..MaxCommands
  BY <1>2, <1>6, LegacyAssumption DEF FredRecord, Commands
<1>9. /\ fred' \in FredRecord /\ fred'.status = status /\ fred'.reason = reason /\ fred'.serves = serves /\ fred'.job = j
  BY <1>1, <1>2, <1>6, <1>7, <1>8 DEF FredRecord, Statuses
<1>10. LegacyTypes'
  BY <1>3, <1>5, <1>9 DEF LegacyInv, LegacyTypes
<1>11. FredInv'
  BY <1>7, <1>9 DEF FredInv
<1>12. RecordInv'
  BY <1>2, <1>3, <1>7, <1>9 DEF LegacyInv, RecordInv, Accepted, Sighting, TellsOrAsks
<1>13. ASSUME NEW d \in Commands PROVE Phase(d)'
  BY <1>2, <1>3, <1>5 DEF LegacyInv, Phase, Accepted, Ends
<1>14. deaths = 0 => ~(commands[j].step \in {"url", "done"} /\ Knows(j))
  <2>1. deaths = 0 => TellsTruth(j) /\ Phase(j)
    BY <1>2 DEF LegacyInv
  <2>2. QED
    BY <1>2, <2>1 DEF TellsTruth, Phase, Knows
<1>15. ASSUME deaths' = 0, NEW d \in Commands PROVE TellsTruth(d)'
  <2>1. TellsTruth(d)
    BY <1>3, <1>15 DEF LegacyInv
  <2>2. CASE d # j
    BY <1>1, <1>3, <1>5, <2>1, <2>2 DEF TellsTruth, Ran, Knows, Accepted
  <2>3. CASE d = j
    <3>1. Ran(j)'
      BY <1>5, <1>6, <1>9 DEF Ran, Ends
    <3>2. ~(commands'[j].step \in {"url", "done"} /\ Knows(j)')
      BY <1>3, <1>14, <1>15 DEF Knows
    <3>3. QED
      BY <2>3, <3>1, <3>2 DEF TellsTruth
  <2>4. QED
    BY <2>2, <2>3
<1>16. ManifestInv'
  <2>1. end # "nothing"
    BY DEF Ends
  <2>2. ASSUME NEW d \in Commands, Only(d)' PROVE d = j
    BY <1>2, <1>5, <2>1, <2>2 DEF Only
  <2>3. ASSUME Only(j)' PROVE OnRecord(j)'
    <3>1. Only(j)
      BY <1>5, <2>3 DEF Only
    <3>2. OnRecord(j)
      BY <1>2, <3>1 DEF LegacyInv, ManifestInv
    <3>3. fred.serves = First
      BY <1>2, <3>2 DEF OnRecord
    <3>4. ~(deaths' = 0 /\ commands'[j].step = "done" /\ Knows(j)')
      BY <1>3, <1>14 DEF Knows
    <3>5. QED
      BY <1>3, <1>5, <1>6, <1>9, <3>2, <3>3, <3>4 DEF OnRecord, Accepted
  <2>4. QED
    BY <1>2, <1>5, <2>1, <2>2, <2>3 DEF ManifestInv
<1>17. QED
  BY <1>10, <1>11, <1>12, <1>13, <1>15, <1>16 DEF LegacyInv

LEMMA FredDiesSafely ==
  ASSUME LegacyInv, FredDies
  PROVE  LegacyInv'
<1>1. /\ commands' = commands /\ entry' = entry /\ late' = late /\ became' = became /\ excused' = TRUE
      /\ deaths' \in 0..MaxDeaths /\ deaths' # 0 /\ fred.status = "ready"
  BY LegacyAssumption DEF FredDies, LegacyInv, LegacyTypes
<1>2. /\ fred' \in FredRecord /\ fred'.status = "failed" /\ fred'.reason = "ContainerExited" /\ fred'.serves = fred.serves
  BY DEF FredDies, LegacyInv, LegacyTypes, FredRecord, Statuses
<1>3. LegacyTypes' /\ FredInv' /\ RecordInv'
  BY <1>1, <1>2 DEF LegacyInv, LegacyTypes, FredInv, RecordInv
<1>4. ASSUME NEW d \in Commands PROVE Phase(d)'
  BY <1>1 DEF LegacyInv, Phase, Accepted
<1>5. ManifestInv'
  BY <1>1, <1>2 DEF LegacyInv, ManifestInv, Only, OnRecord, Accepted, Knows
<1>6. QED
  BY <1>1, <1>3, <1>4, <1>5 DEF LegacyInv

\* An observation settles what it can, and excuses nothing any more.
LEMMA ObservesSafely ==
  ASSUME LegacyInv, NEW status, Observes(status)
  PROVE  LegacyInv'
<1>1. /\ UNCHANGED <<fred, commands, late, deaths, became>>
      /\ entry \in EntryRecord /\ entry' = provisionObservationPatch(status, entry) /\ status \in {fred.status, "absent"}
      /\ fred.status \in {"ready", "busy", "failed"}
      /\ excused' = (excused /\ (isUnsettledProvisionStatus(status) \/ \E c \in Commands : Accepted(c)))
  BY DEF Observes, Reports, LegacyInv, LegacyTypes, FredRecord, Statuses
<1>2. /\ entry' \in EntryRecord /\ entry'.manifest = entry.manifest
      /\ isUnsettledProvisionStatus(status) => entry'.stale
      /\ ~isUnsettledProvisionStatus(status) => /\ status = fred.status /\ fred.status # "busy"
                                                /\ entry'.prov = classifyProvisionStatus(fred.status)
  BY <1>1 DEF EntryRecord, provisionObservationPatch, isUnsettledProvisionStatus, classifyProvisionStatus
<1>3. TellsOrAsks'
  BY <1>1, <1>2 DEF TellsOrAsks
<1>4. \A d \in Commands : Accepted(d)' <=> Accepted(d)
  BY <1>1 DEF Accepted
<1>5. RecordInv'
  <2>1. ~excused' => ~excused \/ \A d \in Commands : ~Accepted(d)
    BY <1>1
  <2>2. \A d \in Commands : Sighting(d)' => Accepted(d) /\ Sighting(d)
    BY <1>1 DEF Sighting, Accepted
  <2>3. QED
    BY <1>1, <1>3, <1>4, <2>1, <2>2 DEF LegacyInv, RecordInv
<1>6. LegacyTypes' /\ FredInv'
  BY <1>1, <1>2 DEF LegacyInv, LegacyTypes, FredInv
<1>7. ASSUME NEW d \in Commands PROVE Phase(d)' /\ (deaths' = 0 => TellsTruth(d)')
  BY <1>1, <1>4 DEF LegacyInv, Phase, TellsTruth, Ran, Knows
<1>8. ManifestInv'
  BY <1>1, <1>2, <1>4 DEF LegacyInv, ManifestInv, Only, OnRecord, Knows
<1>9. QED
  BY <1>5, <1>6, <1>7, <1>8 DEF LegacyInv

\* A command under way goes on: what it has seen was so.
LEMMA GoesOnSafely ==
  ASSUME LegacyInv, NEW c \in Commands, NEW r \in CommandRecord, commands' = [commands EXCEPT ![c] = r],
         UNCHANGED <<fred, entry, late, deaths, became, excused>>,
         commands[c].step \in {"wait", "provision"}, r.step \in {"provision", "url"},
         r.kind = commands[c].kind, r.alone = commands[c].alone, r.previous = commands[c].previous, r.told = commands[c].told,
         r.sighted \/ r.read => fred.status = "ready" \/ Sighting(c),
         r.read => r.step = "url" /\ fred.reason = "none" /\ fred.status # "busy"
  PROVE  LegacyInv'
<1>1. /\ commands' \in [Commands -> CommandRecord] /\ commands'[c] = r
      /\ \A d \in Commands : d # c => commands'[d] = commands[d]
  BY OneCommand DEF LegacyInv
<1>2. LegacyTypes' /\ FredInv'
  BY <1>1 DEF LegacyInv, LegacyTypes, FredInv
<1>3. \A d \in Commands : Accepted(d)' <=> Accepted(d)
  BY <1>1 DEF Accepted
<1>4. RecordInv'
  <2>1. \A d \in Commands : Sighting(d)' => fred.status = "ready" \/ Sighting(d)
    BY <1>1 DEF Sighting
  <2>2. QED
    BY <1>3, <2>1 DEF LegacyInv, RecordInv, TellsOrAsks
<1>5. Accepted(c)
  BY DEF Accepted
<1>6. ASSUME NEW d \in Commands PROVE Phase(d)'
  <2>1. Phase(d)
    BY DEF LegacyInv
  <2>2. CASE d # c
    BY <1>1, <1>3, <2>1, <2>2 DEF Phase
  <2>3. CASE d = c
    BY <1>1, <1>3, <1>5, <2>1, <2>3 DEF Phase
  <2>4. QED
    BY <2>2, <2>3
<1>7. ASSUME deaths' = 0, NEW d \in Commands PROVE TellsTruth(d)'
  <2>1. TellsTruth(d)
    BY <1>7 DEF LegacyInv
  <2>2. CASE d # c
    BY <1>1, <1>3, <2>1, <2>2 DEF TellsTruth, Ran, Knows
  <2>3. CASE d = c
    <3>1. r.alone => Ran(c) /\ Ran(c)'
      BY <1>5, <2>1, <2>3 DEF TellsTruth, Ran
    <3>2. r.alone /\ r.read => became'[c] = "applied"
      BY <3>1 DEF Ran
    <3>3. QED
      BY <1>1, <2>3, <3>1, <3>2 DEF TellsTruth, Knows
  <2>4. QED
    BY <2>2, <2>3
<1>8. ManifestInv'
  <2>1. ASSUME NEW d \in Commands, Only(d) PROVE OnRecord(d)'
    <3>1. OnRecord(d)
      BY <2>1 DEF LegacyInv, ManifestInv
    <3>2. CASE d # c
      BY <1>1, <1>3, <3>1, <3>2 DEF OnRecord, Knows
    <3>3. CASE d = c
      BY <1>1, <1>3, <3>1, <3>3 DEF OnRecord
    <3>4. QED
      BY <3>2, <3>3
  <2>2. QED
    BY <2>1 DEF LegacyInv, ManifestInv, Only
<1>9. QED
  BY <1>2, <1>4, <1>6, <1>7, <1>8 DEF LegacyInv

\* A command under way ends, with a verdict on the record or with none.
LEMMA CommandEndsSafely ==
  ASSUME LegacyInv, NEW c \in Commands, NEW r \in CommandRecord, commands' = [commands EXCEPT ![c] = r],
         UNCHANGED <<fred, late, deaths, became>>, Accepted(c), r.step = "done",
         r.kind = commands[c].kind, r.alone = commands[c].alone,
         entry' \in EntryRecord, excused' \in BOOLEAN, ~excused' => ~excused /\ TellsOrAsks',
         r.read => r.told \in {"done", "outlived", "restored", "notApplied", "nothing"},
         deaths = 0 /\ Knows(c)' =>
           /\ r.told \in {"done", "outlived", "nothing"} => became[c] = "applied"
           /\ r.told = "restored" => became[c] = "rolledBack"
           /\ r.told = "notApplied" => became[c] \in {"preflight", "rollbackFailed"}
           /\ Only(c) => entry'.manifest \in {fred.serves, Unknown}
  PROVE  LegacyInv'
<1>1. /\ commands' \in [Commands -> CommandRecord] /\ commands'[c] = r
      /\ \A d \in Commands : d # c => commands'[d] = commands[d]
  BY OneCommand DEF LegacyInv
<1>2. LegacyTypes' /\ FredInv'
  BY <1>1 DEF LegacyInv, LegacyTypes, FredInv
<1>3. ~Accepted(c)' /\ \A d \in Commands : d # c => (Accepted(d)' <=> Accepted(d))
  BY <1>1 DEF Accepted
<1>4. RecordInv'
  <2>1. \A d \in Commands : Sighting(d)' => Sighting(d)
    BY <1>1 DEF Sighting
  <2>2. QED
    BY <1>3, <2>1 DEF LegacyInv, RecordInv
<1>5. /\ became[c] # "nothing" /\ c \notin late
  BY DEF LegacyInv, Phase, Accepted
<1>6. ASSUME NEW d \in Commands PROVE Phase(d)'
  <2>1. Phase(d)
    BY DEF LegacyInv
  <2>2. CASE d # c
    BY <1>1, <1>3, <2>1, <2>2 DEF Phase
  <2>3. CASE d = c
    BY <1>1, <1>3, <1>5, <2>3 DEF Phase
  <2>4. QED
    BY <2>2, <2>3
<1>7. ASSUME deaths' = 0, NEW d \in Commands PROVE TellsTruth(d)'
  <2>1. TellsTruth(d)
    BY <1>7 DEF LegacyInv
  <2>2. CASE d # c
    BY <1>1, <1>3, <2>1, <2>2 DEF TellsTruth, Ran, Knows
  <2>3. CASE d = c
    BY <1>1, <1>3, <1>7, <2>3 DEF TellsTruth
  <2>4. QED
    BY <2>2, <2>3
<1>8. ManifestInv'
  <2>1. ASSUME NEW d \in Commands, Only(d)' PROVE d = c
    BY <1>5, <2>1 DEF Only
  <2>2. ASSUME Only(c)' PROVE OnRecord(c)'
    <3>1. Only(c)
      BY <2>2 DEF Only
    <3>2. OnRecord(c)
      BY <3>1 DEF LegacyInv, ManifestInv
    <3>3. QED
      BY <1>1, <1>3, <3>1, <3>2 DEF OnRecord
  <2>3. QED
    BY <1>5, <2>1, <2>2 DEF ManifestInv
<1>9. QED
  BY <1>2, <1>4, <1>6, <1>7, <1>8 DEF LegacyInv

ToldAs(c, word) ==
  [NoCommand EXCEPT !.kind = commands[c].kind, !.step = "done", !.told = word,
                    !.read = commands[c].read, !.alone = commands[c].alone]

LEMMA ToldFields ==
  ASSUME LegacyTypes, NEW c \in Commands,
         NEW word \in {"nothing", "unasked", "conflict", "refused", "unknown", "failed", "outlived", "restored",
                       "notApplied", "done"}
  PROVE  /\ TellsOf(commands, c, word) = [commands EXCEPT ![c] = ToldAs(c, word)]
         /\ ToldAs(c, word) \in CommandRecord
         /\ ToldAs(c, word).step = "done" /\ ToldAs(c, word).told = word
         /\ ToldAs(c, word).kind = commands[c].kind
         /\ ToldAs(c, word).read = commands[c].read /\ ToldAs(c, word).alone = commands[c].alone
<1>1. commands[c] \in CommandRecord
  BY DEF LegacyTypes
<1>2. First \in Manifests
  BY LegacyAssumption DEF First, Manifests
<1>3. QED
  BY <1>1, <1>2 DEF ToldAs, TellsOf, NoCommand, CommandRecord

\* The plan of a command, its abort, and a request that is not made or refused.
LEMMA PlansSafely ==
  ASSUME LegacyInv, NEW c \in Commands,
         \/ PlanRestart(c) \/ \E stack \in BOOLEAN : PlanUpdate(c, stack)
         \/ AbortCommand(c) \/ PostAborted(c) \/ PostRefused(c)
  PROVE  LegacyInv'
<1>1. /\ LegacyTypes /\ commands[c] \in CommandRecord /\ Phase(c) /\ entry' = entry /\ entry \in EntryRecord
      /\ UNCHANGED <<fred, deaths, became, excused, late>> /\ late' \subseteq late \union {c}
  BY DEF LegacyInv, LegacyTypes, PlanRestart, PlanUpdate, AbortCommand, PostAborted, PostRefused
<1>2. CASE PlanRestart(c)
  <2>1. PICK r : r = [commands[c] EXCEPT !.kind = "restart", !.step = "post"]
    OBVIOUS
  <2>2. commands[c].step = "unborn" /\ commands' = [commands EXCEPT ![c] = r]
    BY <1>1, <1>2, <2>1 DEF PlanRestart, MayPlanLegacy, LegacyTypes
  <2>3. r \in CommandRecord /\ r.step = "post" /\ r.told = commands[c].told
    BY <1>1, <2>1 DEF CommandRecord
  <2>4. r.read = commands[c].read
    BY <1>1, <2>1 DEF CommandRecord
  <2>5. ~r.read /\ r.told = "nothing"
    BY <1>1, <2>2, <2>3, <2>4 DEF Phase
  <2>6. QED
    BY <1>1, <2>2, <2>3, <2>5, UnheardSafely
<1>3. ASSUME NEW stack \in BOOLEAN, PlanUpdate(c, stack) PROVE LegacyInv'
  <2>1. PICK r : r = [commands[c] EXCEPT !.kind = "update", !.step = "post", !.base = Merged(c, stack)]
    OBVIOUS
  <2>2. commands[c].step = "unborn" /\ commands' = [commands EXCEPT ![c] = r]
    BY <1>1, <1>3, <2>1 DEF PlanUpdate, MayPlanLegacy, LegacyTypes
  <2>3. Merged(c, stack) \in Manifests
    BY <1>1, LegacyAssumption DEF Merged, EntryRecord, Manifests, Commands
  <2>4. r \in CommandRecord /\ r.step = "post" /\ r.told = commands[c].told
    BY <1>1, <2>1, <2>3 DEF CommandRecord
  <2>5. r.read = commands[c].read
    BY <1>1, <2>1 DEF CommandRecord
  <2>6. ~r.read /\ r.told = "nothing"
    BY <1>1, <2>2, <2>4, <2>5 DEF Phase
  <2>7. QED
    BY <1>1, <2>2, <2>4, <2>6, UnheardSafely
<1>4. CASE AbortCommand(c)
  <2>1. PICK r : r = [commands[c] EXCEPT !.aborted = TRUE]
    OBVIOUS
  <2>2. commands' = [commands EXCEPT ![c] = r]
    BY <1>1, <1>4, <2>1 DEF AbortCommand, LegacyTypes
  <2>3. /\ r \in CommandRecord /\ r.step = commands[c].step /\ r.told = commands[c].told
        /\ r.kind = commands[c].kind /\ r.previous = commands[c].previous
    BY <1>1, <2>1 DEF CommandRecord
  <2>4. r.read = commands[c].read /\ r.sighted = commands[c].sighted /\ r.alone = commands[c].alone
    BY <1>1, <2>1 DEF CommandRecord
  <2>5. QED
    BY <1>1, <2>2, <2>3, <2>4, UnheardSafely
<1>5. CASE PostAborted(c) \/ PostRefused(c)
  <2>1. PICK word \in {"unasked", "conflict", "refused"} : Told(c, word)
    BY <1>5 DEF PostAborted, PostRefused
  <2>2. commands[c].step = "post"
    BY <1>5 DEF PostAborted, PostRefused, CommandAt
  <2>3. PICK r : r = ToldAs(c, word)
    OBVIOUS
  <2>4. commands' = [commands EXCEPT ![c] = r] /\ r \in CommandRecord /\ r.step = "done" /\ ~r.read
    BY <1>1, <2>1, <2>2, <2>3, ToldFields DEF Told, Phase
  <2>5. QED
    BY <1>1, <2>2, <2>4, UnheardSafely
<1>6. QED
  BY <1>2, <1>3, <1>4, <1>5

LEMMA PostAcceptedSafely ==
  ASSUME LegacyInv, NEW c \in Commands, PostAccepted(c)
  PROVE  LegacyInv'
<1>1. /\ LegacyTypes /\ commands[c] \in CommandRecord /\ Phase(c)
      /\ commands[c].step = "post" /\ Takes(c) /\ entry' = entry /\ late' = late /\ deaths' = deaths
      /\ excused' = (excused \/ Meets(c) # {})
  BY DEF LegacyInv, LegacyTypes, PostAccepted, CommandAt
<1>2. PICK r : r = [commands[c] EXCEPT !.step = "posted", !.base = First, !.aborted = FALSE, !.alone = (Meets(c) = {})]
  OBVIOUS
<1>3. commands' = [d \in Commands |-> IF d = c THEN r ELSE [commands[d] EXCEPT !.alone = @ /\ d \notin Meets(c)]]
  <2> DEFINE cs == [commands EXCEPT ![c].step = "posted", ![c].base = First, ![c].aborted = FALSE, ![c].alone = Meets(c) = {}]
  <2>1. commands' = Met(cs, c)
    BY DEF PostAccepted
  <2>2. cs[c] = r /\ \A d \in Commands : d # c => cs[d] = commands[d]
    BY <1>1, <1>2 DEF LegacyTypes
  <2>3. [r EXCEPT !.alone = @ /\ c \notin Meets(c)] = r
    <3>1. c \notin Meets(c) /\ r.alone = (Meets(c) = {})
      BY <1>1, <1>2 DEF Meets, CommandRecord
    <3>2. r.alone = (r.alone /\ c \notin Meets(c))
      BY <3>1
    <3>3. r = [kind |-> r.kind, step |-> r.step, base |-> r.base, previous |-> r.previous, aborted |-> r.aborted,
               told |-> r.told, sighted |-> r.sighted, read |-> r.read, alone |-> r.alone]
      BY <1>1, <1>2 DEF CommandRecord
    <3>4. QED
      BY <3>2, <3>3
  <2> HIDE DEF cs
  <2>4. QED
    BY <2>1, <2>2, <2>3 DEF Met
<1>4. First \in Manifests
  BY LegacyAssumption DEF First, Manifests
<1>5. r \in CommandRecord /\ r.step = "posted" /\ r.kind = commands[c].kind /\ r.told = commands[c].told
  BY <1>1, <1>2, <1>4 DEF CommandRecord
<1>6. r.read = commands[c].read
  BY <1>1, <1>2 DEF CommandRecord
<1>7. ~r.read /\ r.told = "nothing" /\ became[c] = "nothing" /\ ~Accepted(c) /\ c \notin late
  BY <1>1, <1>5, <1>6 DEF Phase, Accepted
<1>8. excused' \in BOOLEAN /\ (~excused' => ~excused /\ Meets(c) = {})
  BY <1>1 DEF LegacyTypes
<1>9. late' \subseteq late \ {c}
  BY <1>1, <1>7
<1>10. QED
  BY <1>1, <1>3, <1>5, <1>7, <1>8, <1>9, TakenSafely

\* The answer arrives: the manifest on record was one that is served, if no other command was executed.
LEMMA PostAcknowledgedSafely ==
  ASSUME LegacyInv, NEW c \in Commands, PostAcknowledged(c)
  PROVE  LegacyInv'
<1>1. /\ LegacyTypes /\ commands[c] \in CommandRecord /\ Phase(c) /\ Accepted(c) /\ entry \in EntryRecord
      /\ commands[c].step = "posted" /\ UNCHANGED <<fred, late, deaths, became, excused>>
      /\ entry' = IF commands[c].kind = "update" THEN [entry EXCEPT !.manifest = c] ELSE entry
  BY DEF LegacyInv, LegacyTypes, PostAcknowledged, CommandAt, Accepted
<1>2. PICK r : r = [commands[c] EXCEPT !.step = "wait", !.previous = entry.manifest]
  OBVIOUS
<1>3. commands' = [commands EXCEPT ![c] = r]
  BY <1>1, <1>2 DEF PostAcknowledged, LegacyTypes
<1>4. /\ r \in CommandRecord /\ r.step = "wait" /\ r.kind = commands[c].kind /\ r.told = commands[c].told
      /\ r.previous = entry.manifest
  BY <1>1, <1>2 DEF CommandRecord, EntryRecord
<1>5. r.alone = commands[c].alone /\ r.read = commands[c].read
  BY <1>1, <1>2 DEF CommandRecord
<1>6. /\ commands' \in [Commands -> CommandRecord] /\ commands'[c] = r
      /\ \A d \in Commands : d # c => commands'[d] = commands[d]
  BY <1>1, <1>3, <1>4, OneCommand
<1>7. c \in Manifests
  BY LegacyAssumption DEF Manifests, Commands
<1>8. /\ entry' \in EntryRecord /\ entry'.prov = entry.prov /\ entry'.stale = entry.stale
      /\ entry'.manifest = IF commands[c].kind = "update" THEN c ELSE entry.manifest
  BY <1>1, <1>7 DEF EntryRecord
<1>9. \A d \in Commands : Accepted(d)' <=> Accepted(d)
  BY <1>1, <1>4, <1>6 DEF Accepted
<1>10. LegacyTypes' /\ FredInv'
  BY <1>1, <1>6, <1>8 DEF LegacyInv, LegacyTypes, FredInv
<1>11. RecordInv'
  <2>1. \A d \in Commands : Sighting(d)' => Sighting(d)
    BY <1>4, <1>6 DEF Sighting
  <2>2. TellsOrAsks' <=> TellsOrAsks
    BY <1>1, <1>8 DEF TellsOrAsks
  <2>3. QED
    BY <1>1, <1>9, <2>1, <2>2 DEF LegacyInv, RecordInv
<1>12. ASSUME NEW d \in Commands PROVE Phase(d)'
  <2>1. Phase(d)
    BY DEF LegacyInv
  <2>2. CASE d # c
    BY <1>1, <1>6, <1>9, <2>1, <2>2 DEF Phase
  <2>3. CASE d = c
    BY <1>1, <1>4, <1>5, <1>6, <1>9, <2>1, <2>3 DEF Phase
  <2>4. QED
    BY <2>2, <2>3
<1>13. ASSUME deaths' = 0, NEW d \in Commands PROVE TellsTruth(d)'
  <2>1. TellsTruth(d)
    BY <1>1, <1>13 DEF LegacyInv
  <2>2. CASE d # c
    BY <1>1, <1>6, <1>9, <2>1, <2>2 DEF TellsTruth, Ran, Knows
  <2>3. CASE d = c
    <3>1. Ran(c)' <=> Ran(c)
      BY <1>1 DEF Ran
    <3>2. QED
      BY <1>1, <1>4, <1>5, <1>6, <1>9, <2>1, <2>3, <3>1 DEF TellsTruth
  <2>4. QED
    BY <2>2, <2>3
<1>14. ManifestInv'
  <2>1. became[c] # "nothing"
    BY <1>1 DEF Phase
  <2>2. ASSUME NEW d \in Commands, Only(d) PROVE d = c
    BY <2>1, <2>2 DEF Only
  <2>3. ASSUME Only(c) PROVE OnRecord(c)'
    <3>1. OnRecord(c)
      BY <2>3 DEF LegacyInv, ManifestInv
    <3>2. QED
      BY <1>1, <1>4, <1>6, <1>8, <3>1 DEF OnRecord
  <2>4. QED
    BY <1>1, <2>1, <2>2, <2>3 DEF ManifestInv, Only
<1>15. QED
  BY <1>10, <1>11, <1>12, <1>13, <1>14 DEF LegacyInv

\* A command that ends before its request was taken: the record is as it was, or asks.
LEMMA UntakenEndsSafely ==
  ASSUME LegacyInv, NEW c \in Commands, commands[c].step = "post", NEW word \in {"unknown", "nothing"}, Told(c, word),
         UNCHANGED <<fred, deaths, became, excused>>, GivesUp(c), entry' \in {entry, NoVerdictYet}
  PROVE  LegacyInv'
<1>1. LegacyTypes /\ commands[c] \in CommandRecord /\ Phase(c) /\ entry \in EntryRecord
  BY DEF LegacyInv, LegacyTypes
<1>2. PICK r : r = ToldAs(c, word)
  OBVIOUS
<1>3. /\ commands' = [commands EXCEPT ![c] = r] /\ r \in CommandRecord /\ r.step = "done" /\ r.read = commands[c].read
  BY <1>1, <1>2, ToldFields DEF Told
<1>4. ~r.read
  BY <1>1, <1>3 DEF Phase
<1>5. late' \subseteq late \union {c}
  BY DEF GivesUp
<1>6. entry' \in EntryRecord /\ entry'.manifest = entry.manifest /\ (entry'.stale \/ entry' = entry)
  BY <1>1 DEF NoVerdictYet, EntryRecord
<1>7. QED
  BY <1>1, <1>3, <1>4, <1>5, <1>6, UnheardSafely

LEMMA PostLostSafely ==
  ASSUME LegacyInv, NEW c \in Commands, PostLost(c)
  PROVE  LegacyInv'
<1>1. /\ LegacyTypes /\ commands[c] \in CommandRecord /\ Phase(c) /\ entry \in EntryRecord
      /\ UNCHANGED <<fred, deaths, became, excused>> /\ entry' = NoVerdictYet /\ Told(c, "unknown") /\ GivesUp(c)
  BY DEF LegacyInv, LegacyTypes, PostLost
<1>2. CASE commands[c].step = "post"
  BY <1>1, <1>2, UntakenEndsSafely
<1>3. CASE commands[c].step = "posted"
  <2>1. PICK r : r = ToldAs(c, "unknown")
    OBVIOUS
  <2>2. /\ commands' = [commands EXCEPT ![c] = r] /\ r \in CommandRecord /\ r.step = "done" /\ r.kind = commands[c].kind
        /\ r.read = commands[c].read /\ r.alone = commands[c].alone
    BY <1>1, <2>1, ToldFields DEF Told
  <2>3. ~r.read /\ Accepted(c)
    BY <1>1, <1>3, <2>2 DEF Phase, Accepted
  <2>4. ~Knows(c)'
    BY <1>1, <2>2, <2>3 DEF Knows, LegacyTypes
  <2>5. entry' \in EntryRecord /\ TellsOrAsks'
    BY <1>1 DEF NoVerdictYet, EntryRecord, TellsOrAsks
  <2>6. late' = late /\ excused' \in BOOLEAN /\ (~excused' => ~excused /\ TellsOrAsks')
    BY <1>1, <1>3, <2>5 DEF GivesUp, CommandAt, LegacyTypes
  <2>7. QED
    BY <1>1, <2>2, <2>3, <2>4, <2>5, <2>6, CommandEndsSafely
<1>4. QED
  BY <1>2, <1>3 DEF PostLost

\* The page dies: a record that was not marked is excused, and the manifest on it is one that is served.
LEMMA PageDiesSafely ==
  ASSUME LegacyInv, NEW c \in Commands, PageDies(c)
  PROVE  LegacyInv'
<1>1. /\ LegacyTypes /\ commands[c] \in CommandRecord /\ Phase(c) /\ entry \in EntryRecord
      /\ UNCHANGED <<fred, entry, deaths, became>> /\ Told(c, "nothing") /\ GivesUp(c) /\ Unfinished(c)
      /\ excused' = (excused \/ (Accepted(c) /\ ~entry.stale))
  BY DEF LegacyInv, LegacyTypes, PageDies
<1>2. CASE commands[c].step = "post"
  <2>1. excused' = excused
    BY <1>1, <1>2 DEF Accepted, LegacyTypes
  <2>2. QED
    BY <1>1, <1>2, <2>1, UntakenEndsSafely
<1>3. CASE commands[c].step \in {"posted", "wait", "provision", "url"}
  <2>1. PICK r : r = ToldAs(c, "nothing")
    OBVIOUS
  <2>2. /\ commands' = [commands EXCEPT ![c] = r] /\ r \in CommandRecord /\ r.step = "done" /\ r.kind = commands[c].kind
        /\ r.told = "nothing" /\ r.read = commands[c].read /\ r.alone = commands[c].alone
    BY <1>1, <2>1, ToldFields DEF Told
  <2>3. Accepted(c) /\ late' = late /\ entry' \in EntryRecord
    BY <1>1, <1>3 DEF Accepted, GivesUp, CommandAt
  <2>4. excused' \in BOOLEAN /\ (~excused' => ~excused /\ TellsOrAsks')
    BY <1>1, <2>3 DEF LegacyTypes, TellsOrAsks
  <2>5. Knows(c)' => Knows(c) /\ commands[c].step = "url"
    BY <1>1, <1>3, <2>2 DEF Knows, LegacyTypes, Phase
  <2>6. deaths = 0 /\ Knows(c)' => became[c] = "applied"
    BY <2>5 DEF LegacyInv, TellsTruth
  <2>7. deaths = 0 /\ Knows(c)' /\ Only(c) => entry'.manifest \in {fred.serves, Unknown}
    <3>1. Only(c) => OnRecord(c)
      BY DEF LegacyInv, ManifestInv
    <3>2. QED
      BY <1>1, <2>5, <2>6, <3>1 DEF OnRecord, Knows
  <2>8. r.told # "restored" /\ r.told # "notApplied" /\ r.told = "nothing"
    BY <2>2
  <2>9. QED
    BY <1>1, <2>2, <2>3, <2>4, <2>6, <2>7, <2>8, CommandEndsSafely
<1>4. QED
  BY <1>1, <1>2, <1>3 DEF Unfinished, CommandRecord

LEMMA LateArrivesSafely ==
  ASSUME LegacyInv, NEW c \in Commands, LateArrives(c)
  PROVE  LegacyInv'
<1>1. /\ LegacyTypes /\ commands[c] \in CommandRecord /\ Phase(c)
      /\ c \in late /\ late' = late \ {c} /\ entry' = entry /\ deaths' = deaths
  BY DEF LegacyInv, LegacyTypes, LateArrives
<1>2. commands[c].step = "done" /\ ~commands[c].read /\ became[c] = "nothing" /\ ~Accepted(c)
  BY <1>1 DEF Phase, Accepted
<1>3. CASE UNCHANGED <<fred, became, commands, excused>>
  <2>1. commands' = [commands EXCEPT ![c] = commands[c]]
    BY <1>1, <1>3 DEF LegacyTypes
  <2>2. late' \subseteq late \union {c} /\ c \notin late' /\ entry \in EntryRecord
    BY <1>1 DEF LegacyTypes
  <2>3. QED
    BY <1>1, <1>3, <2>1, <2>2, UnheardSafely
<1>4. CASE Takes(c) /\ excused' = (excused \/ Meets(c) # {} \/ ~entry.stale) /\ commands' = Met(commands, c)
  <2>1. PICK r : r = commands[c]
    OBVIOUS
  <2>2. [r EXCEPT !.alone = @ /\ c \notin Meets(c)] = r
    <3>1. r.alone = (r.alone /\ c \notin Meets(c))
      BY <1>1, <2>1 DEF CommandRecord, Meets
    <3>2. r = [kind |-> r.kind, step |-> r.step, base |-> r.base, previous |-> r.previous, aborted |-> r.aborted,
               told |-> r.told, sighted |-> r.sighted, read |-> r.read, alone |-> r.alone]
      BY <1>1, <2>1 DEF CommandRecord
    <3>3. QED
      BY <3>1, <3>2
  <2>3. commands' = [d \in Commands |-> IF d = c THEN r ELSE [commands[d] EXCEPT !.alone = @ /\ d \notin Meets(c)]]
    BY <1>4, <2>1, <2>2 DEF Met
  <2>4. r.step = "done" /\ ~r.read /\ r.kind = commands[c].kind /\ r \in CommandRecord
    BY <1>1, <1>2, <2>1
  <2>5. late' \subseteq late \ {c} /\ excused' \in BOOLEAN /\ (~excused' => ~excused /\ Meets(c) = {} /\ entry.stale)
    BY <1>1, <1>4 DEF LegacyTypes, EntryRecord
  <2>6. QED
    BY <1>1, <1>2, <1>4, <2>3, <2>4, <2>5, TakenSafely
<1>5. QED
  BY <1>3, <1>4 DEF LateArrives

LEMMA WaitsSafely ==
  ASSUME LegacyInv, NEW c \in Commands, NEW status, WaitResolves(c, status) \/ ProvisionClean(c, status)
  PROVE  LegacyInv'
<1>1. /\ LegacyTypes /\ commands[c] \in CommandRecord /\ Phase(c)
      /\ commands[c].step \in {"wait", "provision"} /\ Accepted(c)
      /\ fred.status \in {"ready", "busy", "failed"} /\ FredInv
      /\ UNCHANGED <<fred, entry, late, deaths, became, excused>>
  BY DEF LegacyInv, LegacyTypes, FredRecord, Statuses, WaitResolves, ProvisionClean, CommandAt, Accepted
<1>2. CASE WaitResolves(c, status)
  <2>1. PICK r : r = [commands[c] EXCEPT !.step = IF commands[c].kind = "update" THEN "provision" ELSE "url",
                                         !.sighted = (status = "ready")]
    OBVIOUS
  <2>2. commands' = [commands EXCEPT ![c] = r]
    BY <1>1, <1>2, <2>1 DEF WaitResolves, LegacyTypes
  <2>3. /\ r \in CommandRecord /\ r.step \in {"provision", "url"} /\ r.kind = commands[c].kind
        /\ r.previous = commands[c].previous /\ r.told = commands[c].told
    BY <1>1, <2>1 DEF CommandRecord
  <2>4. r.alone = commands[c].alone /\ r.read = commands[c].read /\ r.sighted = (status = "ready")
    BY <1>1, <2>1 DEF CommandRecord
  <2>5. ~r.read
    BY <1>1, <1>2, <2>4 DEF Phase, WaitResolves, CommandAt
  <2>6. r.sighted => fred.status = "ready"
    BY <1>2, <2>4 DEF WaitResolves, Reports
  <2>7. QED
    BY <1>1, <2>2, <2>3, <2>4, <2>5, <2>6, GoesOnSafely
<1>3. CASE ProvisionClean(c, status)
  <2>1. PICK r : r = [commands[c] EXCEPT !.step = "url", !.read = (status # "unread" /\ ~isUnsettledProvisionStatus(status))]
    OBVIOUS
  <2>2. commands' = [commands EXCEPT ![c] = r] /\ commands[c].step = "provision"
    BY <1>1, <1>3, <2>1 DEF ProvisionClean, LegacyTypes, CommandAt
  <2>3. /\ r \in CommandRecord /\ r.step = "url" /\ r.kind = commands[c].kind
        /\ r.previous = commands[c].previous /\ r.told = commands[c].told
    BY <1>1, <2>1 DEF CommandRecord
  <2>4. /\ r.alone = commands[c].alone /\ r.sighted = commands[c].sighted
        /\ r.read = (status # "unread" /\ ~isUnsettledProvisionStatus(status))
    BY <1>1, <2>1 DEF CommandRecord
  <2>5. r.read => fred.reason = "none" /\ fred.status = "ready"
    <3>1. r.read => status = fred.status /\ fred.reason = "none" /\ fred.status # "busy"
      BY <1>3, <2>4 DEF ProvisionClean, HasVerdict, Reports, isUnsettledProvisionStatus
    <3>2. QED
      BY <1>1, <3>1 DEF FredInv
  <2>6. r.sighted => Sighting(c)
    BY <2>2, <2>4 DEF Sighting
  <2>7. QED
    BY <1>1, <2>2, <2>3, <2>4, <2>5, <2>6, GoesOnSafely
<1>4. QED
  BY <1>2, <1>3

\* A wait that ends the command: the failure is on record, or the record asks.
LEMMA WaitEndsSafely ==
  ASSUME LegacyInv, NEW c \in Commands, WaitFails(c) \/ WaitRejects(c)
  PROVE  LegacyInv'
<1>1. /\ LegacyTypes /\ commands[c] \in CommandRecord /\ Phase(c) /\ Accepted(c) /\ entry \in EntryRecord
      /\ commands[c].step = "wait" /\ UNCHANGED <<fred, late, deaths, became, excused>>
  BY DEF LegacyInv, LegacyTypes, WaitFails, WaitRejects, CommandAt, Accepted
<1>2. PICK word \in {"failed", "unknown"} : Told(c, word)
  BY DEF WaitFails, WaitRejects
<1>3. PICK r : r = ToldAs(c, word)
  OBVIOUS
<1>4. /\ commands' = [commands EXCEPT ![c] = r] /\ r \in CommandRecord /\ r.step = "done" /\ r.kind = commands[c].kind
      /\ r.read = commands[c].read /\ r.alone = commands[c].alone
  BY <1>1, <1>2, <1>3, ToldFields DEF Told
<1>5. ~r.read
  BY <1>1, <1>4 DEF Phase
<1>6. ~Knows(c)'
  BY <1>1, <1>4, <1>5 DEF Knows, LegacyTypes
<1>7. entry' \in EntryRecord /\ TellsOrAsks'
  BY <1>1 DEF WaitFails, WaitRejects, WaitSilent, Verdict, NoVerdictYet, EntryRecord, TellsOrAsks, classifyProvisionStatus
<1>8. excused' \in BOOLEAN /\ (~excused' => ~excused /\ TellsOrAsks')
  BY <1>1, <1>7 DEF LegacyTypes
<1>9. QED
  BY <1>1, <1>4, <1>5, <1>6, <1>7, <1>8, CommandEndsSafely

\* The connection is read: the update whose end was read is the one that is served.
LEMMA UrlResolvedSafely ==
  ASSUME LegacyInv, NEW c \in Commands, UrlResolved(c)
  PROVE  LegacyInv'
<1>1. /\ LegacyTypes /\ commands[c] \in CommandRecord /\ Phase(c) /\ Accepted(c) /\ entry \in EntryRecord
      /\ commands[c].step = "url" /\ UNCHANGED <<fred, late, deaths, became>>
      /\ excused' = (excused \/ ~(commands[c].sighted \/ commands[c].read)) /\ entry' = Verdict("confirmed")
  BY DEF LegacyInv, LegacyTypes, UrlResolved, CommandAt, Accepted
<1>2. PICK r : r = ToldAs(c, "done")
  OBVIOUS
<1>3. /\ commands' = [commands EXCEPT ![c] = r] /\ r \in CommandRecord /\ r.step = "done" /\ r.kind = commands[c].kind
      /\ r.told = "done" /\ r.read = commands[c].read /\ r.alone = commands[c].alone
  BY <1>1, <1>2, ToldFields DEF Told, UrlResolved
<1>4. entry' \in EntryRecord /\ entry'.manifest = entry.manifest /\ entry'.prov = "confirmed"
  BY <1>1 DEF Verdict, EntryRecord
<1>5. excused' \in BOOLEAN /\ (~excused' => ~excused /\ TellsOrAsks')
  <2>1. ~excused' => ~excused /\ Sighting(c)
    BY <1>1 DEF Sighting
  <2>2. ~excused /\ Sighting(c) => fred.status = "ready"
    BY DEF LegacyInv, RecordInv
  <2>3. fred.status = "ready" => TellsOrAsks'
    BY <1>1, <1>4 DEF TellsOrAsks, classifyProvisionStatus
  <2>4. excused' \in BOOLEAN
    BY <1>1
  <2>5. QED
    BY <2>1, <2>2, <2>3, <2>4
<1>6. Knows(c)' => Knows(c)
  BY <1>1, <1>3 DEF Knows, LegacyTypes
<1>7. deaths = 0 /\ Knows(c)' => became[c] = "applied"
  BY <1>1, <1>6 DEF LegacyInv, TellsTruth
<1>8. deaths = 0 /\ Knows(c)' /\ Only(c) => entry'.manifest \in {fred.serves, Unknown}
  <2>1. Only(c) => OnRecord(c)
    BY DEF LegacyInv, ManifestInv
  <2>2. QED
    BY <1>1, <1>4, <1>6, <1>7, <2>1 DEF OnRecord, Knows
<1>9. r.told \in {"done", "outlived", "restored", "notApplied"} /\ r.told # "restored" /\ r.told # "notApplied"
  BY <1>3
<1>10. QED
  BY <1>1, <1>3, <1>4, <1>5, <1>7, <1>8, <1>9, CommandEndsSafely

\* A settled provision that tells why: the attempt is taken off the record, unless it was
\* applied and its container died.
LEMMA ProvisionFailedSafely ==
  ASSUME LegacyInv, NEW c \in Commands, NEW status, ProvisionFailed(c, status)
  PROVE  LegacyInv'
<1>1. /\ LegacyTypes /\ commands[c] \in CommandRecord /\ Phase(c) /\ Accepted(c) /\ entry \in EntryRecord
      /\ commands[c].step = "provision" /\ UNCHANGED <<fred, late, deaths, became, excused>>
      /\ fred \in FredRecord /\ FredInv /\ status = fred.status /\ fred.status \in {"ready", "failed"} /\ fred.reason # "none"
  BY DEF LegacyInv, LegacyTypes, ProvisionFailed, CommandAt, Accepted, HasVerdict, Reports, isUnsettledProvisionStatus,
         FredRecord, Statuses
<1>2. PICK word : word = IF AppliedThenFailed THEN "outlived" ELSE IF status = "ready" THEN "restored" ELSE "notApplied"
  OBVIOUS
<1>3. /\ word \in {"outlived", "restored", "notApplied"}
      /\ word = "outlived" => fred.reason = "ContainerExited" /\ fred.status = "failed" /\ deaths # 0
      /\ word = "restored" => fred.status = "ready"
      /\ word = "notApplied" => fred.status = "failed"
  <2>1. word = "outlived" <=> fred.reason = "ContainerExited"
    BY <1>1, <1>2 DEF AppliedThenFailed, UPDATE_ATTRIBUTABLE_REASONS, FredRecord
  <2>2. word \in {"outlived", "restored", "notApplied"} /\ (word = "restored" => fred.status = "ready")
    BY <1>1, <1>2
  <2>3. word = "notApplied" => fred.status = "failed"
    BY <1>1, <1>2
  <2>4. QED
    BY <1>1, <2>1, <2>2, <2>3 DEF FredInv
<1>4. PICK r : r = [NoCommand EXCEPT !.kind = commands[c].kind, !.step = "done", !.told = word, !.read = TRUE,
                                     !.alone = commands[c].alone]
  OBVIOUS
<1>5. commands' = [commands EXCEPT ![c] = r]
  <2> DEFINE read == [commands EXCEPT ![c].read = TRUE]
  <2>1. commands' = TellsOf(read, c, word)
    BY <1>2 DEF ProvisionFailed
  <2>2. read[c].kind = commands[c].kind /\ read[c].read = TRUE /\ read[c].alone = commands[c].alone
    BY <1>1 DEF LegacyTypes, CommandRecord
  <2>3. \A x : [read EXCEPT ![c] = x] = [commands EXCEPT ![c] = x]
    BY <1>1 DEF LegacyTypes
  <2> HIDE DEF read
  <2>4. QED
    BY <1>4, <2>1, <2>2, <2>3 DEF TellsOf
<1>6. /\ r \in CommandRecord /\ r.step = "done" /\ r.kind = commands[c].kind /\ r.told = word
      /\ r.alone = commands[c].alone /\ r.read
  <2>1. First \in Manifests
    BY LegacyAssumption DEF First, Manifests
  <2>2. QED
    BY <1>1, <1>3, <1>4, <2>1 DEF NoCommand, CommandRecord
<1>7. entry' = IF word = "outlived" THEN Verdict("failed")
               ELSE [Verdict(classifyProvisionStatus(status)) EXCEPT !.manifest = commands[c].previous]
  BY <1>2 DEF ProvisionFailed
<1>8. /\ entry' \in EntryRecord /\ TellsOrAsks'
      /\ word # "outlived" => entry'.manifest = commands[c].previous
  BY <1>1, <1>3, <1>7 DEF Verdict, EntryRecord, CommandRecord, TellsOrAsks, classifyProvisionStatus
<1>9. excused' \in BOOLEAN /\ (~excused' => ~excused /\ TellsOrAsks')
  BY <1>1, <1>8 DEF LegacyTypes
<1>10. ASSUME deaths = 0, Knows(c)'
       PROVE  /\ word # "outlived" /\ (word = "restored" => became[c] = "rolledBack")
              /\ word = "notApplied" => became[c] \in {"preflight", "rollbackFailed"}
              /\ Only(c) => entry'.manifest \in {fred.serves, Unknown}
  <2>1. commands'[c] = r
    BY <1>1, <1>5 DEF LegacyTypes
  <2>2. commands[c].alone /\ commands[c].kind = "update"
    BY <1>6, <1>10, <2>1 DEF Knows
  <2>3. Ran(c)
    BY <1>1, <1>10, <2>2 DEF LegacyInv, TellsTruth
  <2>4. word # "outlived" /\ became[c] \in {"rolledBack", "rollbackFailed", "preflight"}
    BY <1>1, <1>3, <1>10, <2>3 DEF Ran
  <2>5. Only(c) => OnRecord(c)
    BY DEF LegacyInv, ManifestInv
  <2>6. Only(c) => fred.serves = First /\ commands[c].previous \in {First, Unknown}
    BY <1>1, <2>2, <2>4, <2>5 DEF OnRecord
  <2>7. QED
    BY <1>3, <1>8, <2>3, <2>4, <2>6 DEF Ran
<1>11. QED
  BY <1>1, <1>3, <1>5, <1>6, <1>8, <1>9, <1>10, CommandEndsSafely

LEMMA LegacyStartsSafely ==
  ASSUME LegacyInit
  PROVE  LegacyInv
<1>1. First \in 0..MaxCommands /\ First \in Manifests /\ Unknown \in Manifests /\ 0 \in 0..MaxDeaths
  BY LegacyAssumption DEF First, Manifests
<1>2. /\ fred = [status |-> "ready", reason |-> "none", serves |-> First, job |-> First]
      /\ entry.manifest \in {First, Unknown} /\ entry \in EntryRecord /\ entry.prov = "confirmed"
      /\ late = {} /\ deaths = 0 /\ ~excused /\ excused \in BOOLEAN
      /\ commands = [c \in Commands |-> NoCommand] /\ became = [c \in Commands |-> "nothing"]
  <2>1. PICK m \in {First, Unknown} : entry = [manifest |-> m, prov |-> "confirmed", stale |-> FALSE]
    BY DEF LegacyInit
  <2>2. entry \in EntryRecord /\ entry.manifest = m /\ entry.prov = "confirmed"
    BY <1>1, <2>1 DEF EntryRecord
  <2>3. QED
    BY <2>2 DEF LegacyInit
<1>3. NoCommand \in CommandRecord /\ NoCommand.step = "unborn" /\ ~NoCommand.read /\ NoCommand.told = "nothing"
  BY <1>1 DEF NoCommand, CommandRecord
<1>4. \A c \in Commands : commands[c] = NoCommand /\ became[c] = "nothing"
  BY <1>2
<1>5. LegacyTypes /\ FredInv
  BY <1>1, <1>2, <1>3 DEF LegacyTypes, FredInv, FredRecord, Statuses
<1>6. RecordInv
  BY <1>2, <1>3, <1>4 DEF RecordInv, Accepted, Sighting, TellsOrAsks, classifyProvisionStatus
<1>7. ManifestInv
  BY <1>2, <1>3, <1>4 DEF ManifestInv, OnRecord, Accepted, Knows
<1>8. \A c \in Commands : Phase(c) /\ TellsTruth(c)
  BY <1>2, <1>3, <1>4 DEF Phase, TellsTruth, Accepted, Knows
<1>9. QED
  BY <1>5, <1>6, <1>7, <1>8 DEF LegacyInv

LEMMA LegacyStepsSafely ==
  ASSUME LegacyInv, [LegacyNext]_legacyVars
  PROVE  LegacyInv'
<1>1. CASE UNCHANGED legacyVars
  BY <1>1 DEF legacyVars, LegacyInv, LegacyTypes, FredInv, RecordInv, ManifestInv, Phase, TellsTruth, Ran, Knows,
              Only, OnRecord, Sighting, TellsOrAsks, Accepted
<1>2. CASE LegacyNext
  BY <1>2, FredEndsSafely, FredDiesSafely, ObservesSafely, PlansSafely, PostAcceptedSafely, PostAcknowledgedSafely, PostLostSafely,
     PageDiesSafely, LateArrivesSafely,
     WaitEndsSafely, UrlResolvedSafely, WaitsSafely, ProvisionFailedSafely DEF LegacyNext
<1>3. QED
  BY <1>1, <1>2

LEMMA LegacyTyped ==
  ASSUME LegacyInv
  PROVE  LegacyTypeOK
BY DEF LegacyInv, LegacyTypes, LegacyTypeOK, FredRecord, EntryRecord, Manifests

LEMMA LegacyAnswers ==
  ASSUME LegacyInv
  PROVE  RecordsTellOrAsk /\ ToldIsTrue
<1>1. RecordsTellOrAsk
  BY DEF LegacyInv, RecordInv, RecordsTellOrAsk, QuietApp, TellsOrAsks
<1>2. ASSUME deaths = 0, NEW c \in Commands, Knows(c)
      PROVE  /\ commands[c].told \in {"done", "outlived"} => became[c] = "applied"
             /\ commands[c].told = "restored" => became[c] = "rolledBack"
             /\ commands[c].told = "notApplied" => became[c] \in {"preflight", "rollbackFailed"}
             /\ commands[c].step = "done" /\ Only(c) => entry.manifest \in {fred.serves, Unknown}
  <2>1. TellsTruth(c) /\ Phase(c) /\ (Only(c) => OnRecord(c))
    BY <1>2 DEF LegacyInv, ManifestInv
  <2>2. QED
    BY <1>2, <2>1 DEF TellsTruth, Phase, OnRecord
<1>3. ToldIsTrue
  BY <1>2 DEF ToldIsTrue, Knows, Only
<1>4. QED
  BY <1>1, <1>3

\* When nothing is under way, the record of an app says how the app is or asks to be looked
\* into, but for what nothing could mark: a container that died by itself, a page that died
\* between the request and the end of the wait, a request that came through late, two tabs at
\* once, a degraded provider.  What the user is told of an update was so (the wait, the verdict
\* and the record of executeConfirmedUpdateApp and executeConfirmedRestartApp).
THEOREM AnswersHold == LegacySpec => [](RecordsTellOrAsk /\ ToldIsTrue)
<1>1. LegacyInit => LegacyInv
  BY LegacyStartsSafely
<1>2. LegacyInv /\ [LegacyNext]_legacyVars => LegacyInv'
  BY LegacyStepsSafely
<1>3. LegacyInv => RecordsTellOrAsk /\ ToldIsTrue
  BY LegacyAnswers
<1>4. QED
  BY <1>1, <1>2, <1>3, PTL DEF LegacySpec

-----------------------------------------------------------------------------
(* What a tab remembers of its advice *)

\* What the tab has written down as acknowledged, all it takes for acknowledged, and the advice
\* it knows of.
Durable(t) == t.entry.used \union t.volatile
UsedUp(t) == Durable(t) \union t.consumed
HeldBy(t) == ToSet(t.observed) \union ToSet(EntryKeys(t.entry))

EntryRecords(K) == [active : K \union {NoKey}, used : SUBSET K, seen : Seq(K)]
MemoryRecords(K) == [key : K \union {NoKey}, persisted : BOOLEAN]
TabRecords(K) ==
  [memory : MemoryRecords(K), consumed : SUBSET K, volatile : SUBSET K, observed : Seq(K),
   never : SUBSET Nat, entry : EntryRecords(K)]

\* The tab's memory goes on from t to u: it acknowledges nothing new, lets go of no advice that
\* is neither acknowledged nor disproved, and remembers nothing that was acknowledged, unless
\* it is in more.
Turns(t, u, more) ==
  /\ Durable(u) = Durable(t) /\ u.consumed \in {t.consumed, Durable(t)} /\ u.never = t.never
  /\ \A k \in HeldBy(t) : k \in t.never \union UsedUp(t) \union HeldBy(u)
  /\ u.memory.key \in {t.memory.key, NoKey} \union more \/ u.memory.key \notin Durable(t)

-----------------------------------------------------------------------------
(* Sequences of commands *)

LEMMA ToSets ==
  ASSUME NEW K
  PROVE  /\ ToSet(<<>>) = {}
         /\ \A s \in Seq(K) : ToSet(s) \subseteq K /\ (s # <<>> => s[1] \in ToSet(s))
         /\ \A s \in Seq(K), x \in K : ToSet(Append(s, x)) = ToSet(s) \union {x}
         /\ \A s, r \in Seq(K) : ToSet(s \o r) = ToSet(s) \union ToSet(r)
<1>1. ToSet(<<>>) = {}
  BY DEF ToSet
<1>2. ASSUME NEW s \in Seq(K) PROVE ToSet(s) \subseteq K /\ (s # <<>> => s[1] \in ToSet(s))
  BY DEF ToSet
<1>3. ASSUME NEW s \in Seq(K), NEW x \in K PROVE ToSet(Append(s, x)) = ToSet(s) \union {x}
  <2>1. /\ DOMAIN s = 1..Len(s) /\ Len(s) \in Nat /\ DOMAIN Append(s, x) = 1..(Len(s) + 1)
        /\ Append(s, x)[Len(s) + 1] = x /\ \A i \in 1..Len(s) : Append(s, x)[i] = s[i]
    OBVIOUS
  <2>2. \A i \in 1..(Len(s) + 1) : i = Len(s) + 1 \/ i \in 1..Len(s)
    BY <2>1
  <2>3. 1..Len(s) \subseteq 1..(Len(s) + 1) /\ Len(s) + 1 \in 1..(Len(s) + 1)
    BY <2>1
  <2>4. QED
    BY <2>1, <2>2, <2>3 DEF ToSet
<1>4. ASSUME NEW s \in Seq(K), NEW r \in Seq(K) PROVE ToSet(s \o r) = ToSet(s) \union ToSet(r)
  <2>1. /\ DOMAIN s = 1..Len(s) /\ DOMAIN r = 1..Len(r) /\ Len(s) \in Nat /\ Len(r) \in Nat
        /\ DOMAIN (s \o r) = 1..(Len(s) + Len(r))
        /\ \A i \in 1..Len(s) : (s \o r)[i] = s[i]
        /\ \A i \in 1..(Len(s) + Len(r)) : i \notin 1..Len(s) => (s \o r)[i] = r[i - Len(s)]
    OBVIOUS
  <2>2. ASSUME NEW i \in 1..(Len(s) + Len(r)) PROVE (s \o r)[i] \in ToSet(s) \union ToSet(r)
    <3>1. CASE i \in 1..Len(s)
      BY <2>1, <3>1 DEF ToSet
    <3>2. CASE i \notin 1..Len(s)
      <4>1. i - Len(s) \in 1..Len(r)
        BY <2>1, <3>2
      <4>2. QED
        BY <2>1, <3>2, <4>1 DEF ToSet
    <3>3. QED
      BY <3>1, <3>2
  <2>3. ASSUME NEW i \in 1..Len(s) PROVE s[i] \in ToSet(s \o r)
    <3>1. i \in 1..(Len(s) + Len(r)) /\ (s \o r)[i] = s[i]
      BY <2>1
    <3>2. QED
      BY <2>1, <3>1 DEF ToSet
  <2>4. ASSUME NEW i \in 1..Len(r) PROVE r[i] \in ToSet(s \o r)
    <3>1. i + Len(s) \in 1..(Len(s) + Len(r)) /\ i + Len(s) \notin 1..Len(s) /\ (i + Len(s)) - Len(s) = i
      BY <2>1
    <3>2. (s \o r)[i + Len(s)] = r[i]
      BY <2>1, <3>1
    <3>3. QED
      BY <2>1, <3>1, <3>2 DEF ToSet
  <2>5. QED
    BY <2>1, <2>2, <2>3, <2>4 DEF ToSet
<1>5. QED
  BY <1>1, <1>2, <1>3, <1>4

\* g[i] is what is left of the first i keys.
OmitsUpTo(keys, S, n, g) ==
  g = [i \in 0..n |-> IF i = 0 THEN <<>> ELSE IF keys[i] \in S THEN g[i - 1] ELSE Append(g[i - 1], keys[i])]

LEMMA OmittingExists ==
  ASSUME NEW keys, NEW S, NEW n \in Nat
  PROVE  \E g : OmitsUpTo(keys, S, n, g)
<1> DEFINE M == {m \in 0..n : \E g : OmitsUpTo(keys, S, m, g)}
<1>1. 0 \in M
  <2>1. OmitsUpTo(keys, S, 0, [i \in 0..0 |-> <<>>])
    BY DEF OmitsUpTo
  <2>2. QED
    BY <2>1
<1>2. ASSUME NEW m \in 1..n, m - 1 \in M PROVE m \in M
  <2>1. PICK g : OmitsUpTo(keys, S, m - 1, g)
    BY <1>2
  <2> DEFINE next == IF keys[m] \in S THEN g[m - 1] ELSE Append(g[m - 1], keys[m])
             h == [i \in 0..m |-> IF i = m THEN next ELSE g[i]]
  <2>2. \A i \in 0..m : i # m => i \in 0..m-1 /\ (i # 0 => i - 1 \in 0..m-1 /\ h[i - 1] = g[i - 1])
    OBVIOUS
  <2>3. h[m - 1] = g[m - 1] /\ m # 0
    OBVIOUS
  <2>4. \A i \in 0..m-1 : g[i] = IF i = 0 THEN <<>>
                               ELSE IF keys[i] \in S THEN g[i - 1] ELSE Append(g[i - 1], keys[i])
    BY <2>1 DEF OmitsUpTo
  <2>5. \A i \in 0..m : h[i] = IF i = 0 THEN <<>>
                             ELSE IF keys[i] \in S THEN h[i - 1] ELSE Append(h[i - 1], keys[i])
    BY <2>2, <2>3, <2>4
  <2>6. OmitsUpTo(keys, S, m, h)
    BY <2>5 DEF OmitsUpTo
  <2>7. QED
    BY <2>6
<1>3. 0..n \subseteq M
  <2> HIDE DEF M
  <2>1. QED
    BY <1>1, <1>2, UpTo
<1>4. QED
  BY <1>3

\* What is left without some of the keys is a sequence of the others.
LEMMA OmittingIs ==
  ASSUME NEW K, NEW keys \in Seq(K), NEW S
  PROVE  Omitting(keys, S) \in Seq(K) /\ ToSet(Omitting(keys, S)) = ToSet(keys) \ S
<1> DEFINE g == CHOOSE h : OmitsUpTo(keys, S, Len(keys), h)
           upTo(m) == {keys[i] : i \in 1..m}
           M == {m \in 0..Len(keys) : g[m] \in Seq(K) /\ ToSet(g[m]) = upTo(m) \ S}
<1>1. OmitsUpTo(keys, S, Len(keys), g)
  BY OmittingExists
<1>2. Omitting(keys, S) = g[Len(keys)]
  BY DEF Omitting, OmitsUpTo
<1> HIDE DEF g
<1>3. \A m \in 0..Len(keys) : g[m] = IF m = 0 THEN <<>>
                                    ELSE IF keys[m] \in S THEN g[m - 1] ELSE Append(g[m - 1], keys[m])
  BY <1>1 DEF OmitsUpTo
<1>4. 0 \in M
  <2>1. g[0] = <<>> /\ upTo(0) = {}
    BY <1>3
  <2>2. <<>> \in Seq(K) /\ ToSet(<<>>) = {}
    BY ToSets
  <2> HIDE DEF upTo
  <2>3. 0 \in 0..Len(keys)
    OBVIOUS
  <2>4. QED
    BY <2>1, <2>2, <2>3
<1>5. ASSUME NEW m \in 1..Len(keys), m - 1 \in M PROVE m \in M
  <2>1. keys[m] \in K /\ upTo(m) = upTo(m - 1) \union {keys[m]}
    <3>1. \A i \in 1..m : i = m \/ i \in 1..(m - 1)
      OBVIOUS
    <3>2. 1..(m - 1) \subseteq 1..m /\ m \in 1..m
      OBVIOUS
    <3>3. QED
      BY <3>1, <3>2
  <2>2. g[m - 1] \in Seq(K) /\ ToSet(g[m - 1]) = upTo(m - 1) \ S
    BY <1>5
  <2>3. g[m] = IF keys[m] \in S THEN g[m - 1] ELSE Append(g[m - 1], keys[m])
    BY <1>3
  <2> HIDE DEF upTo
  <2>4. CASE keys[m] \in S
    BY <2>1, <2>2, <2>3, <2>4
  <2>5. CASE keys[m] \notin S
    <3>1. g[m] \in Seq(K) /\ ToSet(g[m]) = ToSet(g[m - 1]) \union {keys[m]}
      BY <2>1, <2>2, <2>3, <2>5, ToSets
    <3>2. QED
      BY <2>1, <2>2, <2>5, <3>1
  <2>6. QED
    BY <2>4, <2>5
<1>6. Len(keys) \in Nat /\ Len(keys) \in 0..Len(keys)
  OBVIOUS
<1>7. 0..Len(keys) \subseteq M
  <2> HIDE DEF M
  <2>1. QED
    BY <1>4, <1>5, <1>6, UpTo
<1>8. upTo(Len(keys)) = ToSet(keys)
  BY DEF ToSet
<1>9. Len(keys) \in M
  <2> HIDE DEF M
  <2>1. QED
    BY <1>6, <1>7
<1> HIDE DEF upTo
<1>10. QED
  BY <1>2, <1>8, <1>9
-----------------------------------------------------------------------------
(* The tab's store *)

\* Numbers that commands may have.
Numbered(K) == K \in SUBSET (Nat \ {NoKey})

LEMMA WithoutIs ==
  ASSUME NEW K, NEW t, NEW keys \in Seq(K)
  PROVE  Without(t, keys) \in Seq(K) /\ ToSet(Without(t, keys)) = ToSet(keys) \ (t.never \union t.consumed)
BY OmittingIs DEF Without

LEMMA EmptyIsBare ==
  ASSUME NEW K, NEW s \in Seq(K), ToSet(s) # {}
  PROVE  s # <<>> /\ s[1] \in ToSet(s)
BY ToSets

\* Only what is not suppressed is observed, and what was stays.
LEMMA ObserveIs ==
  ASSUME NEW K, NEW t \in TabRecords(K), NEW k \in K
  PROVE  /\ observe(t, k) \in TabRecords(K)
         /\ observe(t, k).memory = t.memory /\ observe(t, k).consumed = t.consumed
         /\ observe(t, k).volatile = t.volatile /\ observe(t, k).never = t.never
         /\ observe(t, k).entry = t.entry
         /\ ToSet(t.observed) \subseteq ToSet(observe(t, k).observed)
         /\ ToSet(observe(t, k).observed) \subseteq ToSet(t.observed) \union {k}
         /\ k \in t.never \union t.consumed \union ToSet(observe(t, k).observed)
<1>1. CASE suppressed(t, k) \/ k \in ToSet(t.observed)
  <2>1. observe(t, k) = t
    BY <1>1 DEF observe
  <2>2. QED
    BY <1>1, <2>1 DEF suppressed
<1>2. CASE ~(suppressed(t, k) \/ k \in ToSet(t.observed))
  <2>1. observe(t, k) = [t EXCEPT !.observed = Append(t.observed, k)]
    BY <1>2 DEF observe
  <2>2. t.observed \in Seq(K)
    BY DEF TabRecords
  <2>3. Append(t.observed, k) \in Seq(K) /\ ToSet(Append(t.observed, k)) = ToSet(t.observed) \union {k}
    BY <2>2, ToSets
  <2>4. observe(t, k) \in TabRecords(K) /\ observe(t, k).observed = Append(t.observed, k)
    BY <2>1, <2>3 DEF TabRecords
  <2>5. /\ observe(t, k).memory = t.memory /\ observe(t, k).consumed = t.consumed
        /\ observe(t, k).volatile = t.volatile /\ observe(t, k).never = t.never
        /\ observe(t, k).entry = t.entry
    BY <2>1 DEF TabRecords
  <2>6. QED
    BY <2>3, <2>4, <2>5
<1>3. QED
  BY <1>1, <1>2

LEMMA EntryKeysIs ==
  ASSUME NEW K, NEW e \in EntryRecords(K)
  PROVE  /\ EntryKeys(e) \in Seq(K)
         /\ ToSet(EntryKeys(e)) = ToSet(e.seen) \union ({e.active} \ {NoKey})
<1>1. e.seen \in Seq(K) /\ e.active \in K \union {NoKey}
  BY DEF EntryRecords
<1>2. CASE e.active = NoKey
  BY <1>1, <1>2 DEF EntryKeys
<1>3. CASE e.active # NoKey
  <2>1. EntryKeys(e) = Append(e.seen, e.active) /\ e.active \in K
    BY <1>1, <1>3 DEF EntryKeys
  <2>2. QED
    BY <1>1, <1>3, <2>1, ToSets
<1>4. QED
  BY <1>2, <1>3

LEMMA FirstsAreTyped ==
  ASSUME NEW K
  PROVE  NoEntry \in EntryRecords(K) /\ NoMemory \in MemoryRecords(K) /\ EntryKeys(NoEntry) = <<>>
BY DEF NoEntry, NoMemory, EntryRecords, MemoryRecords, EntryKeys

\* What a reading of the entry leaves.
HearsAll(t, r) ==
  /\ r.memory = t.memory /\ r.volatile = t.volatile /\ r.never = t.never /\ r.entry = t.entry
  /\ r.consumed = Durable(t)
  /\ \A k \in HeldBy(t) : k \in t.never \union Durable(t) \union ToSet(r.observed)

LEMMA ReadIs ==
  ASSUME NEW K, NEW t \in TabRecords(K)
  PROVE  readStored(t) \in TabRecords(K) /\ HearsAll(t, readStored(t))
<1>1. /\ t.entry \in EntryRecords(K) /\ t.observed \in Seq(K) /\ t.volatile \in SUBSET K
      /\ t.entry.used \in SUBSET K
  BY DEF TabRecords, EntryRecords
<1>2. CASE t.entry = NoEntry
  <2>1. readStored(t) = [t EXCEPT !.consumed = t.volatile]
    BY <1>2 DEF readStored
  <2>2. Durable(t) = t.volatile
    BY <1>2 DEF Durable, NoEntry
  <2>3. HeldBy(t) = ToSet(t.observed)
    BY <1>2, FirstsAreTyped, ToSets DEF HeldBy
  <2>4. readStored(t) \in TabRecords(K)
    BY <2>1, <1>1 DEF TabRecords
  <2>5. /\ readStored(t).memory = t.memory /\ readStored(t).volatile = t.volatile
        /\ readStored(t).never = t.never /\ readStored(t).entry = t.entry
        /\ readStored(t).consumed = t.volatile /\ readStored(t).observed = t.observed
    BY <2>1 DEF TabRecords
  <2>6. QED
    BY <2>2, <2>3, <2>4, <2>5 DEF HearsAll
<1>3. CASE t.entry # NoEntry
  <2>1. PICK s : s = [t EXCEPT !.consumed = t.entry.used \union t.volatile]
    OBVIOUS
  <2>2. PICK kept : kept = Without(s, s.observed)
    OBVIOUS
  <2>3. PICK heard : heard = Omitting(Without(s, EntryKeys(s.entry)), ToSet(kept))
    OBVIOUS
  <2>4. readStored(t) = [s EXCEPT !.observed = kept \o heard]
    BY <1>3, <2>1, <2>2, <2>3 DEF readStored, Hear
  <2>5. s \in TabRecords(K)
    BY <1>1, <2>1 DEF TabRecords
  <2>6. /\ s.memory = t.memory /\ s.volatile = t.volatile /\ s.never = t.never /\ s.entry = t.entry
        /\ s.observed = t.observed /\ s.consumed = t.entry.used \union t.volatile
    BY <2>1 DEF TabRecords
  <2>7. kept \in Seq(K) /\ ToSet(kept) = ToSet(t.observed) \ (t.never \union Durable(t))
    BY <1>1, <2>2, <2>6, WithoutIs DEF Durable
  <2>8. /\ Without(s, EntryKeys(s.entry)) \in Seq(K)
        /\ ToSet(Without(s, EntryKeys(s.entry))) = ToSet(EntryKeys(t.entry)) \ (t.never \union Durable(t))
    BY <1>1, <2>6, EntryKeysIs, WithoutIs DEF Durable
  <2>9. heard \in Seq(K) /\ ToSet(heard) = (ToSet(EntryKeys(t.entry)) \ (t.never \union Durable(t))) \ ToSet(kept)
    BY <2>3, <2>8, OmittingIs
  <2>10. kept \o heard \in Seq(K) /\ ToSet(kept \o heard) = ToSet(kept) \union ToSet(heard)
    BY <2>7, <2>9, ToSets
  <2>11. readStored(t) \in TabRecords(K)
    BY <2>4, <2>5, <2>10 DEF TabRecords
  <2>12. /\ readStored(t).memory = t.memory /\ readStored(t).volatile = t.volatile
         /\ readStored(t).never = t.never /\ readStored(t).entry = t.entry
         /\ readStored(t).consumed = t.entry.used \union t.volatile /\ readStored(t).observed = kept \o heard
    BY <2>4, <2>5, <2>6 DEF TabRecords
  <2>13. \A k \in HeldBy(t) : k \in t.never \union Durable(t) \union ToSet(kept \o heard)
    BY <2>7, <2>9, <2>10 DEF HeldBy
  <2>14. QED
    BY <2>11, <2>12, <2>13 DEF HearsAll, Durable
<1>4. QED
  BY <1>2, <1>3

LEMMA TurnsOn ==
  ASSUME NEW t, NEW u, NEW v, NEW before, NEW after, NEW more, Turns(t, u, before), Turns(u, v, after),
         before \subseteq more, after \subseteq more
  PROVE  Turns(t, v, more)
<1>1. /\ Durable(u) = Durable(t) /\ u.consumed \in {t.consumed, Durable(t)} /\ u.never = t.never
      /\ \A k \in HeldBy(t) : k \in t.never \union UsedUp(t) \union HeldBy(u)
      /\ u.memory.key \in {t.memory.key, NoKey} \union before \/ u.memory.key \notin Durable(t)
  BY DEF Turns
<1>2. /\ Durable(v) = Durable(u) /\ v.consumed \in {u.consumed, Durable(u)} /\ v.never = u.never
      /\ \A k \in HeldBy(u) : k \in u.never \union UsedUp(u) \union HeldBy(v)
      /\ v.memory.key \in {u.memory.key, NoKey} \union after \/ v.memory.key \notin Durable(u)
  BY DEF Turns
<1>3. UsedUp(u) \subseteq UsedUp(t)
  BY <1>1 DEF UsedUp
<1>4. \A k \in HeldBy(t) : k \in t.never \union UsedUp(t) \union HeldBy(v)
  BY <1>1, <1>2, <1>3
<1>5. v.memory.key \in {t.memory.key, NoKey} \union more \/ v.memory.key \notin Durable(t)
  BY <1>1, <1>2
<1>6. QED
  BY <1>1, <1>2, <1>4, <1>5 DEF Turns

LEMMA TurnsInPlace ==
  ASSUME NEW t
  PROVE  Turns(t, t, {})
BY DEF Turns

\* A reading of the entry, and what may follow it without harm.
LEMMA ReadTurns ==
  ASSUME NEW t, NEW r, HearsAll(t, r)
  PROVE  Turns(t, r, {}) /\ Durable(r) = Durable(t)
<1>1. /\ r.memory = t.memory /\ r.volatile = t.volatile /\ r.never = t.never /\ r.entry = t.entry
      /\ r.consumed = Durable(t)
      /\ \A k \in HeldBy(t) : k \in t.never \union Durable(t) \union ToSet(r.observed)
  BY DEF HearsAll
<1>2. Durable(r) = Durable(t)
  BY <1>1 DEF Durable
<1>3. \A k \in HeldBy(t) : k \in t.never \union UsedUp(t) \union HeldBy(r)
  BY <1>1 DEF HeldBy, UsedUp
<1>4. QED
  BY <1>1, <1>2, <1>3 DEF Turns

\* The first of what is observed and still counts, if there is any.
LEMMA FallbackIs ==
  ASSUME NEW K, Numbered(K), NEW t \in TabRecords(K)
  PROVE  /\ fallbackIntent(t) \in K \union {NoKey}
         /\ fallbackIntent(t) # NoKey => fallbackIntent(t) \notin t.never \union t.consumed
         /\ fallbackIntent(t) = NoKey => ToSet(t.observed) \subseteq t.never \union t.consumed
<1>1. t.observed \in Seq(K)
  BY DEF TabRecords
<1>2. PICK s : s = Without(t, t.observed)
  OBVIOUS
<1>3. s \in Seq(K) /\ ToSet(s) = ToSet(t.observed) \ (t.never \union t.consumed)
  BY <1>1, <1>2, WithoutIs
<1>4. fallbackIntent(t) = IF s = <<>> THEN NoKey ELSE s[1]
  BY <1>2 DEF fallbackIntent
<1>5. CASE s = <<>>
  BY <1>3, <1>4, <1>5, ToSets
<1>6. CASE s # <<>>
  <2>1. s[1] \in ToSet(s) /\ ToSet(s) \subseteq K
    BY <1>3, <1>6, ToSets
  <2>2. NoKey \notin K
    BY DEF Numbered
  <2>3. QED
    BY <1>3, <1>4, <1>6, <2>1, <2>2
<1>7. QED
  BY <1>5, <1>6

LEMMA ActionableIs ==
  ASSUME NEW K, Numbered(K), NEW t \in TabRecords(K), NEW k \in K \union {NoKey}
  PROVE  /\ actionable(t, k) \in K \union {NoKey}
         /\ actionable(t, k) # NoKey => actionable(t, k) \notin t.never \union t.consumed
         /\ actionable(t, k) = NoKey => ToSet(t.observed) \subseteq t.never \union t.consumed
<1>1. CASE k # NoKey /\ ~suppressed(t, k)
  BY <1>1 DEF actionable, suppressed
<1>2. CASE ~(k # NoKey /\ ~suppressed(t, k))
  <2>1. actionable(t, k) = fallbackIntent(t)
    BY <1>2 DEF actionable
  <2>2. QED
    BY <2>1, FallbackIs
<1>3. QED
  BY <1>1, <1>2

LEMMA MemoryIs ==
  ASSUME NEW K, NEW k \in K \union {NoKey}, NEW persisted \in BOOLEAN
  PROVE  Memory(k, persisted) \in MemoryRecords(K) /\ Memory(k, persisted).key = k
BY DEF Memory, NoMemory, MemoryRecords

\* What the tab answers when it is asked, and what it has in mind then.
Answers(t, u) ==
  /\ u.consumed = Durable(t) \/ Unwritten(t) \/ mood = "denied"
  /\ ~Throws(t) /\ u.memory.key # NoKey => u.memory.key \notin t.never \union u.consumed
  /\ ~Throws(t) /\ u.memory.key = NoKey => HeldBy(t) \subseteq t.never \union UsedUp(t)

LEMMA LookedIs ==
  ASSUME NEW K, Numbered(K), NEW t \in TabRecords(K)
  PROVE  Looked(t) \in TabRecords(K) /\ Turns(t, Looked(t), {}) /\ Answers(t, Looked(t))
<1>1. CASE Unwritten(t) \/ mood = "denied"
  <2>1. Looked(t) = t
    BY <1>1 DEF Looked
  <2>2. (t.memory.key # NoKey /\ t.memory.key \notin t.never \union t.consumed) \/ Throws(t)
    BY <1>1 DEF Unwritten, Throws, suppressed
  <2>3. QED
    BY <1>1, <2>1, <2>2, TurnsInPlace DEF Answers
<1>2. CASE ~(Unwritten(t) \/ mood = "denied")
  <2>1. PICK r : r = readStored(t)
    OBVIOUS
  <2>2. r \in TabRecords(K) /\ HearsAll(t, r) /\ Turns(t, r, {}) /\ Durable(r) = Durable(t)
    BY <2>1, ReadIs, ReadTurns
  <2>3. PICK k : k = actionable(r, r.entry.active)
    OBVIOUS
  <2>4. r.entry.active \in K \union {NoKey} /\ r.entry \in EntryRecords(K)
    BY <2>2 DEF TabRecords, EntryRecords
  <2>5. /\ k \in K \union {NoKey}
        /\ k # NoKey => k \notin r.never \union r.consumed
        /\ k = NoKey => ToSet(r.observed) \subseteq r.never \union r.consumed
    BY <2>2, <2>3, <2>4, ActionableIs
  <2>6. PICK m : m = Memory(k, k = r.entry.active)
    OBVIOUS
  <2>7. m \in MemoryRecords(K) /\ m.key = k
    <3>1. (k = r.entry.active) \in BOOLEAN
      OBVIOUS
    <3>2. QED
      BY <2>5, <2>6, <3>1, MemoryIs
  <2>8. Looked(t) = [r EXCEPT !.memory = m]
    BY <1>2, <2>1, <2>3, <2>6 DEF Looked, AdoptActive, Adopt
  <2>9. PICK u : u = [r EXCEPT !.memory = m]
    OBVIOUS
  <2>10. u \in TabRecords(K)
    BY <2>2, <2>7, <2>9 DEF TabRecords
  <2>11. /\ u.memory = m /\ u.consumed = r.consumed /\ u.volatile = r.volatile /\ u.observed = r.observed
         /\ u.never = r.never /\ u.entry = r.entry
    BY <2>2, <2>9 DEF TabRecords
  <2>12. Durable(u) = Durable(r) /\ HeldBy(u) = HeldBy(r) /\ UsedUp(u) = UsedUp(r)
    BY <2>11 DEF Durable, HeldBy, UsedUp
  <2>13. r.consumed = Durable(t) /\ r.never = t.never
    BY <2>2 DEF HearsAll
  <2>14. Turns(r, u, {})
    <3>1. u.memory.key = NoKey \/ u.memory.key \notin Durable(r)
      BY <2>2, <2>5, <2>7, <2>11, <2>13
    <3>2. QED
      BY <2>11, <2>12, <3>1 DEF Turns
  <2>15. Turns(t, u, {})
    BY <2>2, <2>14, TurnsOn
  <2>16. k = NoKey => HeldBy(t) \subseteq t.never \union UsedUp(t)
    BY <2>2, <2>5, <2>13 DEF HearsAll, UsedUp
  <2>17. Answers(t, u)
    BY <2>5, <2>7, <2>11, <2>13, <2>16 DEF Answers
  <2>18. QED
    BY <2>8, <2>9, <2>10, <2>15, <2>17
<1>3. QED
  BY <1>1, <1>2

LEMMA SerializedIs ==
  ASSUME NEW K, NEW t \in TabRecords(K), NEW k \in K \union {NoKey}
  PROVE  serialized(t, k) \in EntryRecords(K) /\ serialized(t, k).used = t.consumed
<1>1. t.observed \in Seq(K) /\ t.consumed \in SUBSET K
  BY DEF TabRecords
<1>2. Without(t, t.observed) \in Seq(K)
  BY <1>1, WithoutIs
<1>3. Omitting(Without(t, t.observed), {k}) \in Seq(K)
  BY <1>2, OmittingIs
<1>4. QED
  BY <1>1, <1>3 DEF serialized, EntryRecords

\* An entry is replaced by what the tab knows, after it was read.
RewritesStore(r, u, m, e) == u = [r EXCEPT !.memory = m, !.entry = e]

\* What a tab may write: a record of the entry made with its durable keys, and
\* a key in memory that was there, is new or is not used up.
WritesWell(K, r, m, e, more) ==
  /\ r \in TabRecords(K) /\ r.consumed = Durable(r)
  /\ m \in MemoryRecords(K) /\ e \in EntryRecords(K)
  /\ e = r.entry \/ e.used = Durable(r)
  /\ m.key \in {r.memory.key, NoKey} \union more \/ m.key \notin Durable(r)
  /\ HeldBy(r) \subseteq r.never \union UsedUp(r) \union ToSet(r.observed)

\* What the write comes to.
Written(K, r, u, more) ==
  u \in TabRecords(K) /\ Turns(r, u, more) /\ u.consumed = Durable(r) /\ u.observed = r.observed

LEMMA WritingTurns ==
  ASSUME NEW K, NEW r, NEW m, NEW e, NEW more, WritesWell(K, r, m, e, more), NEW u, RewritesStore(r, u, m, e)
  PROVE  Written(K, r, u, more)
<1>1. u = [r EXCEPT !.memory = m, !.entry = e]
  BY DEF RewritesStore
<1>2. u \in TabRecords(K)
  BY <1>1 DEF TabRecords, WritesWell
<1>3. /\ u.memory = m /\ u.entry = e /\ u.consumed = r.consumed /\ u.volatile = r.volatile
      /\ u.never = r.never /\ u.observed = r.observed
  BY <1>1 DEF TabRecords, WritesWell
<1>4. Durable(u) = Durable(r)
  BY <1>3 DEF Durable, WritesWell
<1>5. \A k \in HeldBy(r) : k \in r.never \union UsedUp(r) \union HeldBy(u)
  BY <1>3 DEF HeldBy, WritesWell
<1>6. QED
  BY <1>2, <1>3, <1>4, <1>5 DEF Turns, WritesWell, Written

LEMMA RememberIs ==
  ASSUME NEW K, Numbered(K), NEW t \in TabRecords(K), NEW k \in K, NEW preserve, NEW written \in BOOLEAN,
         NEW u, u = rememberMaintenanceRecoveryIntent(t, k, preserve, written)
  PROVE  /\ u \in TabRecords(K) /\ Turns(t, u, {k}) /\ k \in t.never \union UsedUp(t) \union HeldBy(u)
         /\ u.consumed = Durable(t) \/ mood = "denied"
<1>1. CASE mood = "denied"
  <2>1. PICK o : o = observe(t, k)
    OBVIOUS
  <2>2. /\ o \in TabRecords(K) /\ o.memory = t.memory /\ o.consumed = t.consumed
        /\ o.volatile = t.volatile /\ o.never = t.never /\ o.entry = t.entry
        /\ ToSet(t.observed) \subseteq ToSet(o.observed)
        /\ k \in t.never \union t.consumed \union ToSet(o.observed)
    BY <2>1, ObserveIs
  <2>3. Durable(o) = Durable(t) /\ \A x \in HeldBy(t) : x \in HeldBy(o)
    BY <2>2 DEF Durable, HeldBy
  <2>4. k \in t.never \union UsedUp(t) \union HeldBy(o)
    BY <2>2 DEF UsedUp, HeldBy
  <2>5. u = o \/ u = [o EXCEPT !.memory = [key |-> k, persisted |-> FALSE]]
    BY <1>1, <2>1 DEF rememberMaintenanceRecoveryIntent
  <2>6. CASE u = o
    BY <1>1, <2>2, <2>3, <2>4, <2>6 DEF Turns
  <2>7. CASE u = [o EXCEPT !.memory = [key |-> k, persisted |-> FALSE]]
    <3>1. [key |-> k, persisted |-> FALSE] \in MemoryRecords(K)
      BY DEF MemoryRecords
    <3>2. u \in TabRecords(K)
      BY <2>2, <2>7, <3>1 DEF TabRecords
    <3>3. /\ u.memory.key = k /\ u.consumed = o.consumed /\ u.volatile = o.volatile
          /\ u.never = o.never /\ u.entry = o.entry /\ u.observed = o.observed
      BY <2>2, <2>7 DEF TabRecords
    <3>4. Durable(u) = Durable(o) /\ HeldBy(u) = HeldBy(o)
      BY <3>3 DEF Durable, HeldBy
    <3>5. QED
      BY <1>1, <2>2, <2>3, <2>4, <3>2, <3>3, <3>4 DEF Turns
  <2>8. QED
    BY <2>5, <2>6, <2>7
<1>2. CASE mood # "denied"
  <2>1. PICK r : r = readStored(t)
    OBVIOUS
  <2>2. r \in TabRecords(K) /\ HearsAll(t, r) /\ Turns(t, r, {}) /\ Durable(r) = Durable(t)
    BY <2>1, ReadIs, ReadTurns
  <2>3. r.consumed = Durable(t) /\ r.never = t.never /\ r.memory = t.memory
    BY <2>2 DEF HearsAll
  <2>4. u = Remember(r, k, preserve, written)
    BY <1>2, <2>1 DEF rememberMaintenanceRecoveryIntent
  <2>5. CASE suppressed(r, k)
    <3>1. u = r
      BY <2>4, <2>5 DEF Remember
    <3>2. k \in t.never \union UsedUp(t)
      BY <2>3, <2>5 DEF suppressed, UsedUp
    <3>3. Turns(t, u, {k})
      BY <2>2, <3>1, TurnsInPlace, TurnsOn
    <3>4. QED
      BY <2>2, <2>3, <3>1, <3>2, <3>3
  <2>6. CASE ~suppressed(r, k)
    <3>1. PICK o : o = observe(r, k)
      OBVIOUS
    <3>2. /\ o \in TabRecords(K) /\ o.memory = r.memory /\ o.consumed = r.consumed
          /\ o.volatile = r.volatile /\ o.never = r.never /\ o.entry = r.entry
          /\ ToSet(r.observed) \subseteq ToSet(o.observed)
          /\ k \in r.never \union r.consumed \union ToSet(o.observed)
      BY <2>2, <3>1, ObserveIs
    <3>3. Durable(o) = Durable(r) /\ o.consumed = Durable(o)
      BY <2>2, <2>3, <3>2 DEF Durable
    <3>4. PICK active : active = Foremost(Existing(r), k, preserve)
      OBVIOUS
    <3>5. r.entry.active \in K \union {NoKey} /\ r.memory.key \in K \union {NoKey}
      BY <2>2 DEF TabRecords, EntryRecords, MemoryRecords
    <3>6. /\ Existing(r) \in K \union {NoKey}
          /\ Existing(r) = r.memory.key \/ Existing(r) = NoKey \/ Existing(r) \notin Durable(r)
      BY <2>2, <2>3, <3>5, ActionableIs DEF Existing
    <3>7. active \in K /\ (active \in {r.memory.key, k} \/ active \notin Durable(r))
      BY <3>4, <3>6 DEF Foremost
    <3>8. PICK m : m = [key |-> active, persisted |-> written]
      OBVIOUS
    <3>9. m \in MemoryRecords(K) /\ m.key = active
      BY <3>7, <3>8 DEF MemoryRecords
    <3>10. PICK e : e = IF written THEN serialized(o, active) ELSE o.entry
      OBVIOUS
    <3>11. RewritesStore(o, u, m, e)
      BY <2>4, <2>6, <3>1, <3>4, <3>8, <3>10 DEF Remember, Hold, RewritesStore
    <3>12. \A x \in HeldBy(t) : x \in t.never \union Durable(t) \union ToSet(o.observed)
      BY <2>2, <3>2 DEF HearsAll
    <3>13. HeldBy(o) \subseteq o.never \union UsedUp(o) \union ToSet(o.observed)
      <4>1. HeldBy(o) \subseteq ToSet(o.observed) \union HeldBy(t)
        BY <2>2, <3>2 DEF HeldBy, HearsAll
      <4>2. QED
        BY <2>2, <2>3, <3>2, <3>3, <3>12, <4>1 DEF UsedUp
    <3>14. m.key \in {o.memory.key, NoKey} \union {k} \/ m.key \notin Durable(o)
      BY <3>2, <3>3, <3>7, <3>9
    <3>15. e \in EntryRecords(K) /\ (e = o.entry \/ e.used = Durable(o))
      <4>1. o.entry \in EntryRecords(K) /\ active \in K \union {NoKey}
        BY <3>2, <3>7 DEF TabRecords
      <4>2. QED
        BY <3>2, <3>3, <3>10, <4>1, SerializedIs
    <3>16. u \in TabRecords(K) /\ Turns(o, u, {k}) /\ u.consumed = Durable(o) /\ u.observed = o.observed
      <4>1. WritesWell(K, o, m, e, {k})
        BY <3>2, <3>3, <3>9, <3>13, <3>14, <3>15 DEF WritesWell
      <4>2. Written(K, o, u, {k})
        BY <3>11, <4>1, WritingTurns
      <4>3. QED
        BY <4>2 DEF Written
    <3>17. Turns(r, o, {})
      <4>1. \A x \in HeldBy(r) : x \in r.never \union UsedUp(r) \union HeldBy(o)
        BY <3>2 DEF HeldBy
      <4>2. QED
        BY <3>2, <3>3, <4>1 DEF Turns
    <3>18. Turns(t, u, {k})
      <4>1. Turns(t, o, {})
        BY <2>2, <3>17, TurnsOn
      <4>2. QED
        BY <3>16, <4>1, TurnsOn
    <3>19. k \in t.never \union UsedUp(t) \union HeldBy(u)
      BY <2>3, <3>2, <3>16 DEF HeldBy, UsedUp
    <3>20. QED
      BY <2>2, <3>3, <3>16, <3>18, <3>19
  <2>7. QED
    BY <2>5, <2>6
<1>3. QED
  BY <1>1, <1>2

LEMMA RetireIs ==
  ASSUME NEW K, Numbered(K), NEW t \in TabRecords(K), NEW k \in t.never, NEW written \in BOOLEAN,
         NEW u, u = retireUnsentMaintenanceRecoveryIntent(t, k, written)
  PROVE  u \in TabRecords(K) /\ Turns(t, u, {}) /\ (u.consumed = Durable(t) \/ mood = "denied")
<1>1. Disprove(t, k) = t
  <2>1. t.never \union {k} = t.never
    OBVIOUS
  <2>2. QED
    BY <2>1 DEF Disprove, TabRecords
<1>2. CASE mood = "denied"
  BY <1>1, <1>2, TurnsInPlace DEF retireUnsentMaintenanceRecoveryIntent
<1>3. CASE mood # "denied"
  <2>1. PICK r : r = readStored(t)
    OBVIOUS
  <2>2. r \in TabRecords(K) /\ HearsAll(t, r) /\ Turns(t, r, {}) /\ Durable(r) = Durable(t)
    BY <2>1, ReadIs, ReadTurns
  <2>3. r.consumed = Durable(t) /\ r.never = t.never
    BY <2>2 DEF HearsAll
  <2>4. PICK next : next = fallbackIntent(r)
    OBVIOUS
  <2>5. next \in K \union {NoKey} /\ (next # NoKey => next \notin r.never \union r.consumed)
    BY <2>2, <2>4, FallbackIs
  <2>6. u = r \/ u = Succeed(r, next, written)
    BY <1>1, <1>3, <2>1, <2>4 DEF retireUnsentMaintenanceRecoveryIntent, TakeBack
  <2>7. CASE u = r
    BY <2>2, <2>3, <2>7
  <2>8. HeldBy(r) \subseteq r.never \union UsedUp(r) \union ToSet(r.observed)
    <3>1. HeldBy(r) \subseteq ToSet(r.observed) \union HeldBy(t)
      BY <2>2 DEF HeldBy, HearsAll
    <3>2. QED
      BY <2>2, <2>3, <3>1 DEF HearsAll, UsedUp
  <2>9. CASE u = Succeed(r, next, written) /\ next = NoKey /\ r.consumed = {}
    <3>1. u = [r EXCEPT !.memory = NoMemory, !.entry = NoEntry]
      BY <2>9 DEF Succeed
    <3>2. u \in TabRecords(K)
      BY <2>2, <3>1, FirstsAreTyped DEF TabRecords
    <3>3. /\ u.memory = NoMemory /\ u.entry = NoEntry /\ u.consumed = r.consumed /\ u.volatile = r.volatile
          /\ u.never = r.never /\ u.observed = r.observed
      BY <2>2, <3>1 DEF TabRecords
    <3>4. Durable(u) = Durable(r)
      BY <2>2, <2>3, <2>9, <3>3 DEF Durable, NoEntry
    <3>5. \A x \in HeldBy(r) : x \in r.never \union UsedUp(r) \union HeldBy(u)
      BY <2>8, <3>3 DEF HeldBy
    <3>6. Turns(r, u, {})
      BY <3>3, <3>4, <3>5 DEF Turns, NoMemory
    <3>7. QED
      BY <2>2, <2>3, <3>2, <3>3, <3>6, TurnsOn
  <2>10. CASE u = Succeed(r, next, written) /\ ~(next = NoKey /\ r.consumed = {})
    <3>1. PICK m : m = Memory(next, written)
      OBVIOUS
    <3>2. m \in MemoryRecords(K) /\ m.key = next
      BY <2>5, <3>1, MemoryIs
    <3>3. PICK e : e = IF written THEN serialized(r, next) ELSE r.entry
      OBVIOUS
    <3>4. RewritesStore(r, u, m, e)
      BY <2>10, <3>1, <3>3 DEF Succeed, RewritesStore
    <3>5. PICK more : more = {}
      OBVIOUS
    <3>6. m.key \in {r.memory.key, NoKey} \union more \/ m.key \notin Durable(r)
      BY <2>2, <2>3, <2>5, <3>2
    <3>7. r.consumed = Durable(r)
      BY <2>2, <2>3
    <3>8. e \in EntryRecords(K) /\ (e = r.entry \/ e.used = Durable(r))
      <4>1. r.entry \in EntryRecords(K)
        BY <2>2 DEF TabRecords
      <4>2. QED
        BY <2>2, <2>5, <3>3, <3>7, <4>1, SerializedIs
    <3>9. u \in TabRecords(K) /\ Turns(r, u, more) /\ u.consumed = Durable(r)
      <4>1. WritesWell(K, r, m, e, more)
        BY <2>2, <2>8, <3>2, <3>6, <3>7, <3>8 DEF WritesWell
      <4>2. Written(K, r, u, more)
        BY <3>4, <4>1, WritingTurns
      <4>3. QED
        BY <4>2 DEF Written
    <3>10. QED
      BY <2>2, <3>5, <3>9, TurnsOn
  <2>11. QED
    BY <2>6, <2>7, <2>9, <2>10
<1>4. QED
  BY <1>2, <1>3

\* g[i] is the tab's store after the first i proofs.
SyncsUpTo(t, keys, written, n, g) ==
  g = [i \in 0..n |-> IF i = 0 THEN [t EXCEPT !.never = ToSet(keys)]
                      ELSE retireUnsentMaintenanceRecoveryIntent(g[i - 1], keys[i], written)]

LEMMA SyncExists ==
  ASSUME NEW t, NEW keys, NEW written, NEW n \in Nat
  PROVE  \E g : SyncsUpTo(t, keys, written, n, g)
<1> DEFINE M == {m \in 0..n : \E g : SyncsUpTo(t, keys, written, m, g)}
<1>1. 0 \in M
  <2>1. SyncsUpTo(t, keys, written, 0, [i \in 0..0 |-> [t EXCEPT !.never = ToSet(keys)]])
    BY DEF SyncsUpTo
  <2>2. QED
    BY <2>1
<1>2. ASSUME NEW m \in 1..n, m - 1 \in M PROVE m \in M
  <2>1. PICK g : SyncsUpTo(t, keys, written, m - 1, g)
    BY <1>2
  <2> DEFINE next == retireUnsentMaintenanceRecoveryIntent(g[m - 1], keys[m], written)
             h == [i \in 0..m |-> IF i = m THEN next ELSE g[i]]
  <2>2. \A i \in 0..m : i # m => i \in 0..m-1 /\ (i # 0 => i - 1 \in 0..m-1 /\ h[i - 1] = g[i - 1])
    OBVIOUS
  <2>3. h[m - 1] = g[m - 1] /\ m # 0
    OBVIOUS
  <2>4. \A i \in 0..m-1 : g[i] = IF i = 0 THEN [t EXCEPT !.never = ToSet(keys)]
                                 ELSE retireUnsentMaintenanceRecoveryIntent(g[i - 1], keys[i], written)
    BY <2>1 DEF SyncsUpTo
  <2>5. \A i \in 0..m : h[i] = IF i = 0 THEN [t EXCEPT !.never = ToSet(keys)]
                               ELSE retireUnsentMaintenanceRecoveryIntent(h[i - 1], keys[i], written)
    BY <2>2, <2>3, <2>4
  <2>6. SyncsUpTo(t, keys, written, m, h)
    BY <2>5 DEF SyncsUpTo
  <2>7. QED
    BY <2>6
<1>3. 0..n \subseteq M
  <2> HIDE DEF M
  <2>1. QED
    BY <1>1, <1>2, UpTo
<1>4. QED
  BY <1>3

\* The proofs a look at the shared record brings along.
Proven(t, keys) == [t EXCEPT !.never = ToSet(keys)]

LEMMA ProvenIs ==
  ASSUME NEW K, NEW t \in TabRecords(K), NEW keys \in Seq(Nat)
  PROVE  /\ Proven(t, keys) \in TabRecords(K) /\ Proven(t, keys).never = ToSet(keys)
         /\ Proven(t, keys).memory = t.memory /\ Proven(t, keys).consumed = t.consumed
         /\ Durable(Proven(t, keys)) = Durable(t) /\ HeldBy(Proven(t, keys)) = HeldBy(t)
         /\ UsedUp(Proven(t, keys)) = UsedUp(t)
<1>1. ToSet(keys) \in SUBSET Nat
  BY ToSets
<1>2. QED
  BY <1>1 DEF Proven, TabRecords, Durable, HeldBy, UsedUp

LEMMA SyncIs ==
  ASSUME NEW K, Numbered(K), NEW t \in TabRecords(K), NEW keys \in Seq(Nat), NEW written \in BOOLEAN,
         NEW u, u = syncMaintenanceNeverSentProofs(t, keys, written)
  PROVE  /\ u \in TabRecords(K) /\ Turns(Proven(t, keys), u, {}) /\ u.never = ToSet(keys)
         /\ keys # <<>> => u.consumed = Durable(t) \/ mood = "denied"
         /\ keys = <<>> => u = Proven(t, keys)
<1> DEFINE g == CHOOSE h : SyncsUpTo(t, keys, written, Len(keys), h)
           p == Proven(t, keys)
           M == {m \in 0..Len(keys) : /\ g[m] \in TabRecords(K) /\ Turns(p, g[m], {})
                                      /\ m = 0 \/ g[m].consumed = Durable(t) \/ mood = "denied"}
<1>1. Len(keys) \in Nat /\ Len(keys) \in 0..Len(keys) /\ (keys = <<>> <=> Len(keys) = 0)
  OBVIOUS
<1>2. SyncsUpTo(t, keys, written, Len(keys), g)
  BY <1>1, SyncExists
<1>3. u = g[Len(keys)]
  BY DEF syncMaintenanceNeverSentProofs, SyncsUpTo
<1> HIDE DEF g
<1>4. \A m \in 0..Len(keys) : g[m] = IF m = 0 THEN p ELSE retireUnsentMaintenanceRecoveryIntent(g[m - 1], keys[m], written)
  BY <1>2 DEF SyncsUpTo, Proven
<1>5. p \in TabRecords(K) /\ p.never = ToSet(keys) /\ Durable(p) = Durable(t)
  BY ProvenIs
<1> HIDE DEF p
<1>6. 0 \in 0..Len(keys) /\ g[0] = p
  BY <1>1, <1>4
<1>7. 0 \in M
  BY <1>5, <1>6, TurnsInPlace
<1>8. ASSUME NEW m \in 1..Len(keys), m - 1 \in M PROVE m \in M
  <2>1. g[m - 1] \in TabRecords(K) /\ Turns(p, g[m - 1], {})
    BY <1>8
  <2>2. g[m - 1].never = p.never /\ Durable(g[m - 1]) = Durable(p)
    BY <2>1 DEF Turns
  <2>3. keys[m] \in g[m - 1].never
    BY <1>5, <2>2 DEF ToSet
  <2>4. m \in 0..Len(keys) /\ m # 0
    OBVIOUS
  <2>5. g[m] = retireUnsentMaintenanceRecoveryIntent(g[m - 1], keys[m], written)
    BY <1>4, <2>4
  <2>6. /\ g[m] \in TabRecords(K) /\ Turns(g[m - 1], g[m], {})
        /\ g[m].consumed = Durable(g[m - 1]) \/ mood = "denied"
    BY <2>1, <2>3, <2>5, RetireIs
  <2>7. Turns(p, g[m], {})
    BY <2>1, <2>6, TurnsOn
  <2>8. QED
    BY <1>5, <2>2, <2>4, <2>6, <2>7
<1>9. Len(keys) \in M
  <2> HIDE DEF M
  <2>1. 0..Len(keys) \subseteq M
    BY <1>1, <1>7, <1>8, UpTo
  <2>2. QED
    BY <1>1, <2>1
<1>10. u \in TabRecords(K) /\ Turns(p, u, {}) /\ (Len(keys) = 0 \/ u.consumed = Durable(t) \/ mood = "denied")
  BY <1>3, <1>9
<1>11. u.never = p.never
  BY <1>10 DEF Turns
<1>12. keys = <<>> => u = p
  BY <1>1, <1>3, <1>6
<1>13. QED
  BY <1>1, <1>5, <1>10, <1>11, <1>12 DEF p

\* g[i] is what the first i rows of a transcript have brought.
RestoresUpTo(start, keys, written, n, g) ==
  g = [i \in 0..n |-> IF i = 0 THEN start ELSE RestoreRow(g[i - 1], keys[i], written)]

LEMMA RestoreExists ==
  ASSUME NEW start, NEW keys, NEW written, NEW n \in Nat
  PROVE  \E g : RestoresUpTo(start, keys, written, n, g)
<1> DEFINE M == {m \in 0..n : \E g : RestoresUpTo(start, keys, written, m, g)}
<1>1. 0 \in M
  <2>1. RestoresUpTo(start, keys, written, 0, [i \in 0..0 |-> start])
    BY DEF RestoresUpTo
  <2>2. QED
    BY <2>1
<1>2. ASSUME NEW m \in 1..n, m - 1 \in M PROVE m \in M
  <2>1. PICK g : RestoresUpTo(start, keys, written, m - 1, g)
    BY <1>2
  <2> DEFINE next == RestoreRow(g[m - 1], keys[m], written)
             h == [i \in 0..m |-> IF i = m THEN next ELSE g[i]]
  <2>2. \A i \in 0..m : i # m => i \in 0..m-1 /\ (i # 0 => i - 1 \in 0..m-1 /\ h[i - 1] = g[i - 1])
    OBVIOUS
  <2>3. h[m - 1] = g[m - 1] /\ m # 0
    OBVIOUS
  <2>4. \A i \in 0..m-1 : g[i] = IF i = 0 THEN start ELSE RestoreRow(g[i - 1], keys[i], written)
    BY <2>1 DEF RestoresUpTo
  <2>5. \A i \in 0..m : h[i] = IF i = 0 THEN start ELSE RestoreRow(h[i - 1], keys[i], written)
    BY <2>2, <2>3, <2>4
  <2>6. RestoresUpTo(start, keys, written, m, h)
    BY <2>5 DEF RestoresUpTo
  <2>7. QED
    BY <2>6
<1>3. 0..n \subseteq M
  <2> HIDE DEF M
  <2>1. QED
    BY <1>1, <1>2, UpTo
<1>4. QED
  BY <1>3

CarriesStore(acc, K) == acc.t \in TabRecords(K)

LEMMA RowRestored ==
  ASSUME NEW K, Numbered(K), NEW acc, CarriesStore(acc, K), NEW k \in K,
         NEW written \in BOOLEAN, NEW v, v = RestoreRow(acc, k, written)
  PROVE  /\ CarriesStore(v, K)
         /\ Turns(acc.t, v.t, {k} \ acc.t.consumed)
         /\ k \in acc.t.never \union UsedUp(acc.t) \union HeldBy(v.t)
<1>1. CASE suppressed(acc.t, k)
  <2>1. v = acc
    BY <1>1 DEF RestoreRow
  <2>2. k \in acc.t.never \union UsedUp(acc.t)
    BY <1>1 DEF suppressed, UsedUp
  <2>3. Turns(acc.t, v.t, {k} \ acc.t.consumed)
    BY <2>1, TurnsInPlace, TurnsOn
  <2>4. QED
    BY <2>1, <2>2, <2>3
<1>2. CASE ~suppressed(acc.t, k)
  <2> DEFINE t == acc.t
             preserve == acc.restored
             u == rememberMaintenanceRecoveryIntent(t, k, preserve, written)
  <2>2. v.t = u
    BY <1>2 DEF RestoreRow
  <2>3. u \in TabRecords(K) /\ Turns(t, u, {k}) /\ k \in t.never \union UsedUp(t) \union HeldBy(u)
    <3> HIDE DEF t, preserve
    <3>1. t \in TabRecords(K)
      BY DEF CarriesStore, t
    <3>2. QED
      BY <3>1, RememberIs
  <2>4. CarriesStore(v, K)
    BY <2>2, <2>3 DEF CarriesStore
  <2> HIDE DEF u
  <2>5. {k} \ acc.t.consumed = {k}
    BY <1>2 DEF suppressed
  <2>6. QED
    BY <2>2, <2>3, <2>4, <2>5
<1>3. QED
  BY <1>1, <1>2

LEMMA RestoreIs ==
  ASSUME NEW K, Numbered(K), NEW t \in TabRecords(K), rows \in Seq(K), rows # <<>>, shared.proofs \in Seq(Nat),
         NEW written \in BOOLEAN, NEW u, u = restoreMessageMaintenanceAdvice(t, written)
  PROVE  /\ u \in TabRecords(K)
         /\ Turns(Proven(t, shared.proofs), u, ToSet(rows) \ (t.consumed \intersect Durable(t)))
         /\ \A k \in ToSet(rows) : k \in u.never \union UsedUp(t) \union HeldBy(u)
         /\ \/ u.consumed = Durable(t) \/ mood = "denied"
            \/ shared.proofs = <<>> /\ Unwritten(Proven(t, shared.proofs))
<1>1. PICK p : p = Proven(t, shared.proofs)
  OBVIOUS
<1>2. PICK synced : synced = syncMaintenanceNeverSentProofs(t, shared.proofs, written)
  OBVIOUS
<1>3. PICK more : more = ToSet(rows) \ (t.consumed \intersect Durable(t))
  OBVIOUS
<1>4. PICK start : start = [t |-> Looked(synced), restored |-> FALSE]
  OBVIOUS
<1> DEFINE settled == mood = "denied" \/ (shared.proofs = <<>> /\ Unwritten(p))
<1>6. /\ p \in TabRecords(K) /\ p.never = ToSet(shared.proofs) /\ p.consumed = t.consumed
      /\ Durable(p) = Durable(t) /\ UsedUp(p) = UsedUp(t)
  BY <1>1, ProvenIs
<1>7. /\ synced \in TabRecords(K) /\ Turns(p, synced, {})
      /\ shared.proofs # <<>> => synced.consumed = Durable(t) \/ mood = "denied"
      /\ shared.proofs = <<>> => synced = p
  BY <1>1, <1>2, SyncIs
<1>8. start.t \in TabRecords(K) /\ Turns(synced, start.t, {}) /\ Answers(synced, start.t) /\ start.restored = FALSE
  BY <1>4, <1>7, LookedIs
<1>9. Turns(p, start.t, more)
  <2>1. {} \subseteq more
    OBVIOUS
  <2>2. QED
    BY <1>7, <1>8, <2>1, TurnsOn
<1>10. start.t.consumed = Durable(t) \/ settled
  <2>1. Durable(synced) = Durable(t)
    BY <1>6, <1>7 DEF Turns
  <2>2. start.t.consumed = Durable(synced) \/ Unwritten(synced) \/ mood = "denied"
    BY <1>8 DEF Answers
  <2>3. start.t.consumed \in {synced.consumed, Durable(synced)}
    BY <1>8 DEF Turns
  <2>4. QED
    BY <1>7, <2>1, <2>2, <2>3
<1> HIDE DEF settled
<1>11. PICK g : RestoresUpTo(start, rows, written, Len(rows), g) /\ u = g[Len(rows)].t
  <2> DEFINE h == CHOOSE x : RestoresUpTo(start, rows, written, Len(rows), x)
  <2>1. Len(rows) \in Nat
    OBVIOUS
  <2>2. RestoresUpTo(start, rows, written, Len(rows), h)
    BY <2>1, RestoreExists
  <2>3. u = h[Len(rows)].t
    BY <1>2, <1>4 DEF restoreMessageMaintenanceAdvice, RestoresUpTo
  <2> HIDE DEF h
  <2>4. QED
    BY <2>2, <2>3
<1> DEFINE Brought(m) ==
             /\ g[m].t \in TabRecords(K) /\ Turns(p, g[m].t, more)
             /\ \A i \in 1..m : rows[i] \in p.never \union UsedUp(p) \union HeldBy(g[m].t)
             /\ \/ g[m].t.consumed = Durable(t)
                \/ settled
           M == {m \in 0..Len(rows) : Brought(m)}
<1>12. Len(rows) \in Nat /\ Len(rows) \in 0..Len(rows) /\ 0 \in 0..Len(rows)
  OBVIOUS
<1>13. \A m \in 0..Len(rows) : g[m] = IF m = 0 THEN start ELSE RestoreRow(g[m - 1], rows[m], written)
  BY <1>11 DEF RestoresUpTo
<1>14. 0 \in M
  <2>1. g[0] = start
    BY <1>12, <1>13
  <2>2. Brought(0)
    BY <1>8, <1>9, <1>10, <2>1
  <2>3. QED
    BY <1>12, <2>2
<1>15. ASSUME NEW m \in 1..Len(rows), m - 1 \in M PROVE m \in M
  <2>1. PICK v : v = g[m - 1]
    OBVIOUS
  <2>2. PICK w : w = g[m]
    OBVIOUS
  <2>3. /\ v.t \in TabRecords(K) /\ Turns(p, v.t, more)
        /\ \A i \in 1..(m - 1) : rows[i] \in p.never \union UsedUp(p) \union HeldBy(v.t)
        /\ v.t.consumed = Durable(t) \/ settled
    BY <1>15, <2>1
  <2>4. m \in 0..Len(rows) /\ m # 0 /\ rows[m] \in K /\ rows[m] \in ToSet(rows)
    BY DEF ToSet
  <2>5. w = RestoreRow(v, rows[m], written)
    BY <1>13, <2>1, <2>2, <2>4
  <2>6. /\ CarriesStore(w, K)
        /\ Turns(v.t, w.t, {rows[m]} \ v.t.consumed)
        /\ rows[m] \in v.t.never \union UsedUp(v.t) \union HeldBy(w.t)
    <3>1. CarriesStore(v, K)
      BY <2>3 DEF CarriesStore
    <3>2. QED
      BY <2>4, <2>5, <3>1, RowRestored
  <2>7. /\ v.t.never = p.never /\ Durable(v.t) = Durable(p) /\ v.t.consumed \in {p.consumed, Durable(p)}
        /\ UsedUp(v.t) \subseteq UsedUp(p)
    BY <2>3 DEF Turns, UsedUp
  <2>8. {rows[m]} \ v.t.consumed \subseteq more
    BY <1>3, <1>6, <2>4, <2>7
  <2>9. Turns(p, w.t, more)
    BY <2>3, <2>6, <2>8, TurnsOn
  <2>10. ASSUME NEW i \in 1..m PROVE rows[i] \in p.never \union UsedUp(p) \union HeldBy(w.t)
    <3>1. CASE i = m
      BY <2>6, <2>7, <3>1
    <3>2. CASE i # m
      <4>1. i \in 1..(m - 1)
        BY <3>2
      <4>2. rows[i] \in p.never \union UsedUp(p) \union HeldBy(v.t)
        BY <2>3, <4>1
      <4>3. \A k \in HeldBy(v.t) : k \in v.t.never \union UsedUp(v.t) \union HeldBy(w.t)
        BY <2>6 DEF Turns
      <4>4. QED
        BY <2>7, <4>2, <4>3
    <3>3. QED
      BY <3>1, <3>2
  <2>11. w.t.consumed = Durable(t) \/ settled
    <3>1. w.t.consumed \in {v.t.consumed, Durable(v.t)}
      BY <2>6 DEF Turns
    <3>2. QED
      BY <1>6, <2>3, <2>7, <3>1
  <2>12. Brought(m)
    BY <2>2, <2>6, <2>9, <2>10, <2>11 DEF CarriesStore
  <2> HIDE DEF Brought
  <2>13. QED
    BY <2>4, <2>12
<1>16. Len(rows) \in M
  <2> HIDE DEF M
  <2>1. 0..Len(rows) \subseteq M
    BY <1>12, <1>14, <1>15, UpTo
  <2>2. QED
    BY <1>12, <2>1
<1>17. Brought(Len(rows))
  BY <1>16
<1>18. u.never = p.never
  BY <1>11, <1>17 DEF Turns
<1>19. \A k \in ToSet(rows) : k \in u.never \union UsedUp(t) \union HeldBy(u)
  BY <1>6, <1>11, <1>17, <1>18 DEF ToSet
<1>20. QED
  BY <1>1, <1>3, <1>11, <1>17, <1>19 DEF settled

\* All that was observed is acknowledged.
Forgets(t, u) ==
  /\ u.consumed = Durable(u) /\ Durable(t) \subseteq u.consumed
  /\ u.memory.key = NoKey /\ u.never = t.never
  /\ \A k \in HeldBy(t) : k \in t.never \union UsedUp(t) \union u.consumed

LEMMA ForgetIs ==
  ASSUME NEW K, NEW r \in TabRecords(K), NEW used \in SUBSET K, NEW written \in BOOLEAN,
         NEW u, u = Forget(r, used, written)
  PROVE  /\ u \in TabRecords(K) /\ u.consumed = used /\ Durable(u) = used
         /\ u.memory.key = NoKey /\ u.never = r.never
<1>1. PICK e : e = IF written THEN [NoEntry EXCEPT !.used = used] ELSE NoEntry
  OBVIOUS
<1>2. PICK volatile : volatile = IF written THEN {} ELSE used
  OBVIOUS
<1>3. e \in EntryRecords(K) /\ e.used \union volatile = used /\ volatile \in SUBSET K
  <2>1. CASE written
    <3>1. e = [active |-> NoKey, used |-> used, seen |-> <<>>] /\ volatile = {}
      BY <1>1, <1>2, <2>1 DEF NoEntry
    <3>2. QED
      BY <3>1 DEF EntryRecords
  <2>2. CASE ~written
    <3>1. e = NoEntry /\ volatile = used
      BY <1>1, <1>2, <2>2
    <3>2. QED
      BY <3>1, FirstsAreTyped DEF NoEntry
  <2>3. QED
    BY <2>1, <2>2
<1>4. u = [r EXCEPT !.memory = NoMemory, !.observed = <<>>, !.consumed = used, !.volatile = volatile, !.entry = e]
  BY <1>1, <1>2 DEF Forget
<1>5. <<>> \in Seq(K)
  OBVIOUS
<1>6. u \in TabRecords(K)
  BY <1>3, <1>4, <1>5, FirstsAreTyped DEF TabRecords
<1>7. u.consumed = used /\ u.volatile = volatile /\ u.entry = e /\ u.memory = NoMemory /\ u.never = r.never
  BY <1>4 DEF TabRecords
<1>8. QED
  BY <1>3, <1>6, <1>7 DEF Durable, NoMemory

LEMMA ConsumeIs ==
  ASSUME NEW K, Numbered(K), NEW t \in TabRecords(K), NEW k, NEW written \in BOOLEAN,
         NEW u, u = consumeMaintenanceRecoveryIntent(t, k, written)
  PROVE  u \in TabRecords(K) /\ (Turns(t, u, {}) \/ Forgets(t, u))
<1>1. CASE k = NoKey \/ Throws(t)
  BY <1>1, TurnsInPlace DEF consumeMaintenanceRecoveryIntent
<1>2. CASE ~(k = NoKey \/ Throws(t))
  <2>1. PICK l : l = Looked(t)
    OBVIOUS
  <2>2. l \in TabRecords(K) /\ Turns(t, l, {})
    BY <2>1, LookedIs
  <2>3. u = ConsumeLooked(l, k, written)
    BY <1>2, <2>1 DEF consumeMaintenanceRecoveryIntent
  <2>4. CASE l.memory.key # k \/ mood = "denied"
    BY <2>2, <2>3, <2>4 DEF ConsumeLooked
  <2>5. CASE ~(l.memory.key # k \/ mood = "denied")
    <3>1. PICK r : r = readStored(l)
      OBVIOUS
    <3>2. r \in TabRecords(K) /\ HearsAll(l, r) /\ Turns(l, r, {}) /\ Durable(r) = Durable(l)
      BY <2>2, <3>1, ReadIs, ReadTurns
    <3>3. Turns(t, r, {})
      BY <2>2, <3>2, TurnsOn
    <3>4. u = Consume(r, k, written)
      BY <2>3, <2>5, <3>1 DEF ConsumeLooked
    <3>5. u = r \/ u = Forget(r, r.consumed \union Acknowledged(r), written)
      BY <3>4 DEF Consume
    <3>6. CASE u = r
      BY <3>2, <3>3, <3>6
    <3>7. CASE u = Forget(r, r.consumed \union Acknowledged(r), written)
      <4>1. PICK used : used = r.consumed \union Acknowledged(r)
        OBVIOUS
      <4>2. /\ r.consumed = Durable(l) /\ r.never = l.never /\ r.memory = l.memory
            /\ \A x \in HeldBy(l) : x \in l.never \union Durable(l) \union ToSet(r.observed)
        BY <3>2 DEF HearsAll
      <4>3. /\ Durable(l) = Durable(t) /\ l.never = t.never
            /\ \A x \in HeldBy(t) : x \in t.never \union UsedUp(t) \union HeldBy(l)
        BY <2>2 DEF Turns
      <4>4. r.memory.key \in K
        <5>1. l.memory.key \in K \union {NoKey}
          BY <2>2 DEF TabRecords, MemoryRecords
        <5>2. QED
          BY <1>2, <2>5, <4>2, <5>1
      <4>5. r.consumed \in SUBSET K /\ ToSet(r.observed) \in SUBSET K
        <5>1. r.observed \in Seq(K) /\ r.consumed \in SUBSET K
          BY <3>2 DEF TabRecords
        <5>2. QED
          BY <5>1, ToSets
      <4>6. used \in SUBSET K
        BY <4>1, <4>4, <4>5 DEF Acknowledged
      <4>7. /\ u \in TabRecords(K) /\ u.consumed = used /\ Durable(u) = used
            /\ u.memory.key = NoKey /\ u.never = r.never
        BY <3>2, <3>7, <4>1, <4>6, ForgetIs
      <4>8. ToSet(r.observed) \subseteq r.never \union used
        BY <4>1 DEF Acknowledged
      <4>9. \A x \in HeldBy(t) : x \in t.never \union UsedUp(t) \union used
        BY <4>1, <4>2, <4>3, <4>8
      <4>10. Durable(t) \subseteq used
        BY <4>1, <4>2, <4>3
      <4>11. QED
        BY <4>2, <4>3, <4>7, <4>9, <4>10 DEF Forgets
    <3>8. QED
      BY <3>5, <3>6, <3>7
  <2>6. QED
    BY <2>4, <2>5
<1>3. QED
  BY <1>1, <1>2

-----------------------------------------------------------------------------
(* What holds of the advice *)

\* The command this tab plans is in no list yet: it is not among the known ones.
Own == IF order.step = "none" THEN {} ELSE {order.key}
Known == (1..lastKey) \ Own
SharedRecords == [pend : 0..lastKey, sent : BOOLEAN, receipt : 0..lastKey, proofs : Seq(1..lastKey), open : BOOLEAN]
OrderRecords ==
  [key : 0..lastKey, intent : Nat, previous : 0..lastKey, step : {"none", "planned", "saved", "sent"}, seen : SUBSET Nat]

AdviceShape ==
  /\ lastKey \in Nat /\ shared \in SharedRecords /\ order \in OrderRecords
  /\ tab \in TabRecords(Known) /\ tab.never \subseteq 1..lastKey
  /\ rows \in Seq(Known) /\ told \in Known \union {NoKey}
  /\ mood \in {"works", "full", "denied"} /\ troubles \in 0..MaxTroubles
  /\ everSent \subseteq 1..lastKey /\ advised \subseteq ToSet(rows)

\* How far the confirmation has come.
OrderSteps ==
  /\ order.step = "none" <=> order.key = NoKey
  /\ order.step \in {"planned", "saved"} => order.key \notin everSent
  /\ order.step = "sent" => order.key \in everSent
  /\ order.step = "planned" => shared.pend # order.key
  /\ order.step = "saved" => told = NoKey
  /\ order.step = "saved" /\ shared.pend = order.key => ~shared.sent
  /\ shared.pend # NoKey /\ ~shared.sent => shared.pend \notin everSent

\* Commands that may come to be executed are not proved unsent, and what was acknowledged
\* is neither on its way nor advised of.
Living == everSent \union ({shared.pend} \ {NoKey})
UnsentIsDead == (tab.never \union ToSet(shared.proofs)) \intersect Living = {}
UsedIsDead == UsedUp(tab) \intersect (({shared.pend, told} \ {NoKey}) \union advised) = {}

\* Advice that counts is held by the tab: that on a row, and that being recorded.
Standing == IF shared.open THEN advised \union {told} ELSE advised
StandingIsHeld == Standing \intersect Living \subseteq HeldBy(tab)

\* A plan saw the advice there was, unless a command has ended since.
PlanIsInformed ==
  /\ order.step \in {"planned", "saved"} /\ order.intent # NoKey => order.previous # NoKey
  /\ order.step = "planned" /\ shared.pend # NoKey => order.previous # shared.pend
  /\ order.step = "planned" /\ order.intent # NoKey /\ shared.receipt = order.previous
       => (advised \union {told}) \intersect Living \subseteq order.seen \union {shared.pend}
  /\ order.step = "saved" /\ shared.pend = order.key
       => IF order.intent # NoKey THEN advised \intersect everSent \subseteq order.seen ELSE advised \intersect everSent = {}

\* What was acknowledged is written down or kept by the page, and neither the memory nor the
\* rows bring it back.
Quieted(t) ==
  /\ settledFor \subseteq Durable(t)
  /\ t.memory.key \in settledFor => t.memory.key \in t.consumed
  /\ settledFor \intersect ToSet(rows) \subseteq t.consumed

AdviceInv ==
  /\ AdviceShape /\ OrderSteps /\ UnsentIsDead /\ UsedIsDead /\ StandingIsHeld /\ PlanIsInformed
  /\ Quieted(tab) /\ AcknowledgedWasShown

LEMMA KnownAreNumbered ==
  ASSUME AdviceShape
  PROVE  Numbered(Known) /\ shared.proofs \in Seq(Nat) /\ ToSet(shared.proofs) \subseteq 1..lastKey
<1>1. Numbered(Known)
  BY DEF AdviceShape, Known, Numbered, NoKey
<1>2. shared.proofs \in Seq(1..lastKey) /\ lastKey \in Nat
  BY DEF AdviceShape, SharedRecords
<1>3. shared.proofs \in Seq(Nat)
  <2>1. 1..lastKey \subseteq Nat
    BY <1>2
  <2>2. QED
    BY <1>2, <2>1
<1>4. QED
  BY <1>1, <1>2, <1>3, ToSets

LEMMA RecordsGrow ==
  ASSUME NEW K, NEW L, K \subseteq L
  PROVE  TabRecords(K) \subseteq TabRecords(L) /\ Seq(K) \subseteq Seq(L)
<1>1. Seq(K) \subseteq Seq(L)
  OBVIOUS
<1>2. EntryRecords(K) \subseteq EntryRecords(L) /\ MemoryRecords(K) \subseteq MemoryRecords(L)
  BY <1>1 DEF EntryRecords, MemoryRecords
<1>3. ASSUME NEW t \in TabRecords(K) PROVE t \in TabRecords(L)
  BY <1>1, <1>2 DEF TabRecords
<1>4. QED
  BY <1>1, <1>3

LEMMA TurnsKeepQuiet ==
  ASSUME NEW t, NEW u, NEW more, Quieted(t), Turns(t, u, more), more \intersect settledFor \subseteq t.consumed,
         NoKey \notin Durable(t)
  PROVE  Quieted(u)
<1>1. /\ settledFor \subseteq Durable(t)
      /\ t.memory.key \in settledFor => t.memory.key \in t.consumed
      /\ settledFor \intersect ToSet(rows) \subseteq t.consumed
  BY DEF Quieted
<1>2. /\ Durable(u) = Durable(t) /\ u.consumed \in {t.consumed, Durable(t)}
      /\ u.memory.key \in {t.memory.key, NoKey} \union more \/ u.memory.key \notin Durable(t)
  BY DEF Turns
<1>3. u.memory.key \in settledFor => u.memory.key \in t.consumed
  BY <1>1, <1>2
<1>4. QED
  BY <1>1, <1>2, <1>3 DEF Quieted

LEMMA DurableIsKnown ==
  ASSUME NEW K, Numbered(K), NEW t \in TabRecords(K)
  PROVE  /\ NoKey \notin Durable(t) /\ UsedUp(t) \subseteq K /\ Durable(t) \subseteq UsedUp(t)
         /\ t.consumed \subseteq UsedUp(t) /\ HeldBy(t) \subseteq K
<1>1. t.entry \in EntryRecords(K) /\ t.volatile \in SUBSET K /\ t.consumed \in SUBSET K /\ t.observed \in Seq(K)
  BY DEF TabRecords
<1>2. t.entry.used \in SUBSET K
  BY <1>1 DEF EntryRecords
<1>3. EntryKeys(t.entry) \in Seq(K)
  BY <1>1, EntryKeysIs
<1>4. ToSet(t.observed) \subseteq K /\ ToSet(EntryKeys(t.entry)) \subseteq K
  BY <1>1, <1>3, ToSets
<1>5. QED
  BY <1>1, <1>2, <1>4 DEF Durable, UsedUp, HeldBy, Numbered

\* What is left of the advice of t in u, but for what is gone.
Follows(t, u, gone) ==
  /\ Durable(u) = Durable(t) /\ UsedUp(u) \subseteq UsedUp(t)
  /\ HeldBy(t) \subseteq gone \union UsedUp(t) \union HeldBy(u)

LEMMA TurnsFollow ==
  ASSUME NEW t, NEW u, NEW more, Turns(t, u, more)
  PROVE  Follows(t, u, t.never) /\ u.never = t.never
BY DEF Turns, Follows, UsedUp

LEMMA FollowsOn ==
  ASSUME NEW t, NEW u, NEW v, NEW a, NEW b, NEW c, Follows(t, u, a), Follows(u, v, b), a \subseteq c, b \subseteq c
  PROVE  Follows(t, v, c)
BY DEF Follows

LEMMA SyncFollows ==
  ASSUME NEW K, Numbered(K), NEW t \in TabRecords(K), NEW keys \in Seq(Nat), NEW written \in BOOLEAN,
         NEW u, u = syncMaintenanceNeverSentProofs(t, keys, written)
  PROVE  /\ u \in TabRecords(K) /\ u.never = ToSet(keys) /\ Follows(t, u, ToSet(keys))
         /\ u.consumed \in {t.consumed, Durable(t)}
         /\ Quieted(t) => Quieted(u)
<1>1. u \in TabRecords(K) /\ Turns(Proven(t, keys), u, {}) /\ u.never = ToSet(keys)
  BY SyncIs
<1>2. PICK p : p = Proven(t, keys)
  OBVIOUS
<1>3. /\ p \in TabRecords(K) /\ p.never = ToSet(keys) /\ p.memory = t.memory /\ p.consumed = t.consumed
      /\ Durable(p) = Durable(t) /\ HeldBy(p) = HeldBy(t) /\ UsedUp(p) = UsedUp(t)
  BY <1>2, ProvenIs
<1>4. Follows(p, u, p.never)
  BY <1>1, <1>2, TurnsFollow
<1>5. Follows(t, u, ToSet(keys))
  BY <1>3, <1>4 DEF Follows
<1>6. u.consumed \in {t.consumed, Durable(t)}
  BY <1>1, <1>2, <1>3 DEF Turns
<1>7. ASSUME Quieted(t) PROVE Quieted(u)
  <2>1. Quieted(p)
    BY <1>3, <1>7 DEF Quieted
  <2>2. NoKey \notin Durable(p)
    BY <1>3, DurableIsKnown
  <2>3. PICK none : none = {}
    OBVIOUS
  <2>4. Turns(p, u, none) /\ none \intersect settledFor \subseteq p.consumed
    BY <1>1, <1>2, <2>3
  <2>5. QED
    BY <2>1, <2>2, <2>4, TurnsKeepQuiet
<1>8. QED
  BY <1>1, <1>5, <1>6, <1>7

\* A look of the tab, after the proofs it brings along.
Looks(K, t, u, gone) == u \in TabRecords(K) /\ u.never = gone /\ Follows(t, u, gone) /\ Quieted(u)

LEMMA SyncLooks ==
  ASSUME NEW K, Numbered(K), NEW t \in TabRecords(K), NEW keys \in Seq(Nat), NEW written \in BOOLEAN, Quieted(t),
         NEW u, u = syncMaintenanceNeverSentProofs(t, keys, written)
  PROVE  Looks(K, t, u, ToSet(keys))
BY SyncFollows DEF Looks

LEMMA AdviceBegins ==
  ASSUME AdviceInit
  PROVE  AdviceInv
<1>1. /\ shared = [pend |-> NoKey, sent |-> FALSE, receipt |-> NoKey, proofs |-> <<>>, open |-> TRUE]
      /\ lastKey = 0 /\ tab = FreshTab(NoEntry) /\ mood = "works"
      /\ rows = <<>> /\ told = NoKey /\ order = NoOrder /\ troubles = 0
      /\ everSent = {} /\ advised = {} /\ settledFor = {} /\ blind = FALSE /\ rash = FALSE
  BY DEF AdviceInit
<1>2. /\ shared.pend = NoKey /\ shared.sent = FALSE /\ shared.receipt = NoKey /\ shared.proofs = <<>>
      /\ shared.open = TRUE /\ shared \in SharedRecords
  <2>1. <<>> \in Seq(1..lastKey) /\ 0 \in 0..lastKey
    BY <1>1
  <2>2. QED
    BY <1>1, <2>1 DEF SharedRecords, NoKey
<1>3. /\ tab \in TabRecords(Known) /\ tab.never = {} /\ tab.memory.key = NoKey /\ tab.consumed = {}
      /\ Durable(tab) = {} /\ UsedUp(tab) = {} /\ HeldBy(tab) = {}
  <2>1. /\ tab.memory = NoMemory /\ tab.consumed = {} /\ tab.volatile = {} /\ tab.observed = <<>>
        /\ tab.never = {} /\ tab.entry = NoEntry
    BY <1>1 DEF FreshTab
  <2>2. <<>> \in Seq(Known)
    OBVIOUS
  <2>3. tab \in TabRecords(Known)
    BY <1>1, <2>2, FirstsAreTyped DEF FreshTab, TabRecords
  <2>4. Durable(tab) = {} /\ UsedUp(tab) = {}
    BY <2>1 DEF Durable, UsedUp, NoEntry
  <2>5. HeldBy(tab) = {}
    BY <2>1, FirstsAreTyped, ToSets DEF HeldBy
  <2>6. QED
    BY <2>1, <2>3, <2>4, <2>5 DEF NoMemory
<1>4. /\ order.step = "none" /\ order.key = NoKey /\ order \in OrderRecords
  <2>1. 0 \in 0..lastKey
    BY <1>1
  <2>2. QED
    BY <1>1, <2>1 DEF NoOrder, OrderRecords, NoKey
<1>5. ToSet(rows) = {} /\ rows \in Seq(Known)
  BY <1>1, ToSets
<1>6. AdviceShape
  <2>1. 0 \in 0..MaxTroubles
    BY AdviceAssumption
  <2>2. QED
    BY <1>1, <1>2, <1>3, <1>4, <1>5, <2>1 DEF AdviceShape
<1>7. OrderSteps
  BY <1>1, <1>2, <1>4 DEF OrderSteps
<1>8. UnsentIsDead /\ UsedIsDead
  BY <1>1, <1>2, <1>3, ToSets DEF UnsentIsDead, UsedIsDead, Living
<1>9. StandingIsHeld
  BY <1>1, <1>2 DEF StandingIsHeld, Living
<1>10. PlanIsInformed
  BY <1>4 DEF PlanIsInformed
<1>11. Quieted(tab) /\ AcknowledgedWasShown
  BY <1>1, <1>3 DEF Quieted, AcknowledgedWasShown
<1>12. QED
  BY <1>6, <1>7, <1>8, <1>9, <1>10, <1>11 DEF AdviceInv

\* Advice that stands is found when the tab looks for it.
LEMMA StandingIsAnswered ==
  ASSUME AdviceInv, NEW u, u \in TabRecords(Known), u.never = ToSet(shared.proofs),
         Follows(tab, u, ToSet(shared.proofs)), ~Throws(u), Looked(u).memory.key = NoKey
  PROVE  Standing \intersect Living = {}
<1>1. Answers(u, Looked(u))
  BY KnownAreNumbered, LookedIs DEF AdviceInv
<1>2. HeldBy(u) \subseteq u.never \union UsedUp(u)
  BY <1>1 DEF Answers
<1>3. ASSUME NEW k \in Standing \intersect Living PROVE FALSE
  <2>1. k \in HeldBy(tab)
    BY <1>3 DEF AdviceInv, StandingIsHeld
  <2>2. k \notin ToSet(shared.proofs)
    BY <1>3 DEF AdviceInv, UnsentIsDead
  <2>3. k # NoKey
    BY DEF AdviceInv, AdviceShape, Living, NoKey
  <2>4. k \notin UsedUp(tab)
    BY <1>3, <2>3 DEF AdviceInv, UsedIsDead, Standing
  <2>5. QED
    BY <1>2, <2>1, <2>2, <2>4 DEF Follows
<1>4. QED
  BY <1>3

LEMMA AdviceAnswers ==
  ASSUME AdviceInv
  PROVE  AdviceStands /\ AcknowledgedIsQuiet /\ AcknowledgedWasShown
<1>1. Numbered(Known) /\ shared.proofs \in Seq(Nat) /\ tab \in TabRecords(Known)
  BY KnownAreNumbered DEF AdviceInv, AdviceShape
<1>2. AdviceStands
  <2>1. SUFFICES ASSUME advised \intersect everSent # {}, NEW written \in Writes, NEW t,
                        t = syncMaintenanceNeverSentProofs(tab, shared.proofs, written)
                 PROVE  Looked(t).memory.key # NoKey \/ Throws(t)
    BY DEF AdviceStands, getMaintenanceRecoveryIntent
  <2>2. written \in BOOLEAN
    BY DEF Writes
  <2>3. /\ t \in TabRecords(Known) /\ t.never = ToSet(shared.proofs) /\ Follows(tab, t, ToSet(shared.proofs))
    BY <1>1, <2>1, <2>2, SyncFollows
  <2>4. ASSUME ~Throws(t), Looked(t).memory.key = NoKey PROVE FALSE
    <3>1. Standing \intersect Living = {}
      BY <2>3, <2>4, StandingIsAnswered
    <3>2. QED
      BY <2>1, <3>1 DEF Standing, Living
  <2>5. QED
    BY <2>4
<1>3. AcknowledgedIsQuiet
  <2>1. PICK u : u = Looked(tab)
    OBVIOUS
  <2>2. u \in TabRecords(Known) /\ Turns(tab, u, {}) /\ Answers(tab, u)
    BY <1>1, <2>1, LookedIs
  <2>3. NoKey \notin Durable(tab) /\ Quieted(tab)
    BY <1>1, DurableIsKnown DEF AdviceInv
  <2>4. Quieted(u) /\ Durable(u) = Durable(tab)
    <3> DEFINE none == {}
    <3>1. Turns(tab, u, none) /\ none \intersect settledFor \subseteq tab.consumed
      BY <2>2
    <3> HIDE DEF none
    <3>2. QED
      BY <2>3, <3>1, TurnsKeepQuiet DEF Turns
  <2>5. ASSUME ~Throws(tab) PROVE u.memory.key \notin settledFor
    <3>1. u.memory.key = NoKey \/ u.memory.key \notin u.consumed
      BY <2>2, <2>5 DEF Answers
    <3>2. QED
      BY <2>3, <2>4, <3>1 DEF Quieted
  <2>6. QED
    BY <2>1, <2>5 DEF AcknowledgedIsQuiet, getMaintenanceRecoveryIntent
<1>4. QED
  BY <1>2, <1>3 DEF AdviceInv

-----------------------------------------------------------------------------
(* What others do keeps it *)

LEMMA LivingAreIssued ==
  ASSUME AdviceShape
  PROVE  /\ Living \subseteq 1..lastKey /\ NoKey \notin Living /\ shared.pend \in 0..lastKey
         /\ shared.receipt \in 0..lastKey /\ order.key \in 0..lastKey /\ lastKey \in Nat
         /\ shared.sent \in BOOLEAN /\ order.step \in {"none", "planned", "saved", "sent"}
<1>1. /\ shared.pend \in 0..lastKey /\ shared.receipt \in 0..lastKey /\ order.key \in 0..lastKey /\ lastKey \in Nat
      /\ shared.sent \in BOOLEAN /\ order.step \in {"none", "planned", "saved", "sent"}
      /\ everSent \subseteq 1..lastKey
  BY DEF AdviceShape, SharedRecords, OrderRecords
<1>2. (shared.pend # 0 => shared.pend \in 1..lastKey) /\ 0 \notin 1..lastKey
  BY <1>1
<1>3. Living \subseteq 1..lastKey
  BY <1>1, <1>2 DEF Living, NoKey
<1>4. QED
  BY <1>1, <1>2, <1>3 DEF NoKey

\* The tab and its transcript stay: nothing that was ended comes to life.
LEMMA SharedMoves ==
  ASSUME AdviceInv, UNCHANGED <<tab, rows, told, order, advised, settledFor, blind, rash>>,
         lastKey' \in Nat, lastKey <= lastKey', shared' \in SharedRecords', troubles' \in 0..MaxTroubles,
         mood' \in {"works", "full", "denied"},
         everSent' \subseteq Living, shared'.open = shared.open, ToSet(shared'.proofs) \subseteq ToSet(shared.proofs),
         shared'.pend \in {shared.pend, NoKey} \/ shared'.pend \notin 1..lastKey,
         OrderSteps', PlanIsInformed'
  PROVE  AdviceInv'
<1>1. AdviceShape /\ OrderSteps /\ UnsentIsDead /\ UsedIsDead /\ StandingIsHeld /\ Quieted(tab) /\ AcknowledgedWasShown
  BY DEF AdviceInv
<1>2. /\ lastKey \in Nat /\ tab \in TabRecords(Known) /\ rows \in Seq(Known) /\ order \in OrderRecords
      /\ tab.never \subseteq 1..lastKey /\ told \in Known \union {NoKey} /\ everSent \subseteq 1..lastKey
      /\ advised \subseteq ToSet(rows) /\ shared \in SharedRecords
  BY <1>1 DEF AdviceShape
<1>3. Known \subseteq Known' /\ Known \subseteq 1..lastKey
  BY <1>2 DEF Known, Own
<1>4. Living \subseteq 1..lastKey /\ NoKey \notin Living
  BY <1>1, LivingAreIssued
<1>5. 1..lastKey \subseteq 1..lastKey' /\ 0..lastKey \subseteq 0..lastKey'
  BY <1>2
<1>6. AdviceShape'
  <2>1. tab \in TabRecords(Known') /\ rows \in Seq(Known')
    BY <1>2, <1>3, RecordsGrow
  <2>2. order \in OrderRecords'
    BY <1>2, <1>5 DEF OrderRecords
  <2>3. everSent' \subseteq 1..lastKey'
    BY <1>4, <1>5
  <2>4. tab.never \subseteq 1..lastKey' /\ told \in Known' \union {NoKey}
    BY <1>2, <1>3, <1>5
  <2>5. QED
    BY <1>2, <2>1, <2>2, <2>3, <2>4 DEF AdviceShape
<1>7. Living' \subseteq Living \union {shared'.pend} /\ (shared'.pend \in Living \/ shared'.pend \notin 1..lastKey)
  <2>1. everSent \subseteq Living /\ (shared.pend # NoKey => shared.pend \in Living)
    BY DEF Living
  <2>2. NoKey \notin 1..lastKey
    BY <1>2 DEF NoKey
  <2>3. Living' \subseteq Living \union {shared'.pend}
    BY <2>1 DEF Living
  <2>4. QED
    BY <2>1, <2>2, <2>3
<1>8. UnsentIsDead'
  <2>1. ToSet(shared.proofs) \subseteq 1..lastKey
    BY <1>1, KnownAreNumbered
  <2>2. (tab.never \union ToSet(shared'.proofs)) \intersect Living' = {}
    BY <1>1, <1>2, <1>7, <2>1 DEF UnsentIsDead
  <2>3. QED
    BY <2>2 DEF UnsentIsDead
<1>9. UsedUp(tab) \subseteq 1..lastKey
  BY <1>1, <1>2, <1>3, KnownAreNumbered, DurableIsKnown
<1>10. UsedIsDead'
  BY <1>1, <1>9 DEF UsedIsDead
<1>11. Standing' = Standing /\ Standing \subseteq 1..lastKey \union {NoKey}
  <2>1. ToSet(rows) \subseteq Known
    BY <1>2, ToSets
  <2>2. QED
    BY <1>2, <1>3, <2>1 DEF Standing
<1>12. StandingIsHeld'
  <2>1. NoKey \notin Living'
    BY <1>4 DEF Living
  <2>2. Standing' \intersect Living' \subseteq Standing \intersect Living
    BY <1>7, <1>11, <2>1
  <2>3. QED
    BY <1>1, <2>2 DEF StandingIsHeld
<1>13. Quieted(tab)'
  BY <1>1 DEF Quieted
<1>14. AcknowledgedWasShown'
  BY <1>1 DEF AcknowledgedWasShown
<1>15. QED
  BY <1>6, <1>8, <1>10, <1>12, <1>13, <1>14 DEF AdviceInv

LEMMA SavesElsewhereSafely ==
  ASSUME AdviceInv, ElsewhereSaves
  PROVE  AdviceInv'
<1>1. /\ shared.pend = NoKey /\ shared' = [shared EXCEPT !.pend = lastKey + 1, !.sent = FALSE]
      /\ lastKey' = lastKey + 1
      /\ UNCHANGED <<tab, mood, rows, told, order, troubles, everSent, advised, settledFor, blind, rash>>
  BY DEF ElsewhereSaves
<1>2. AdviceShape /\ OrderSteps /\ PlanIsInformed
  BY DEF AdviceInv
<1>3. lastKey \in Nat /\ shared \in SharedRecords /\ order \in OrderRecords /\ everSent \subseteq 1..lastKey
  BY <1>2 DEF AdviceShape
<1>4. /\ shared'.pend = lastKey + 1 /\ shared'.sent = FALSE /\ shared'.receipt = shared.receipt
      /\ shared'.proofs = shared.proofs /\ shared'.open = shared.open
  BY <1>1, <1>3 DEF SharedRecords
<1>5. shared' \in SharedRecords'
  <2>1. 1..lastKey \subseteq 1..lastKey' /\ 0..lastKey \subseteq 0..lastKey' /\ lastKey + 1 \in 0..lastKey'
    BY <1>1, <1>3
  <2>2. shared.proofs \in Seq(1..lastKey')
    BY <1>3, <2>1, RecordsGrow DEF SharedRecords
  <2>3. QED
    BY <1>1, <1>3, <2>1, <2>2 DEF SharedRecords
<1>6. lastKey + 1 \notin 0..lastKey /\ lastKey + 1 # NoKey /\ order.key \in 0..lastKey /\ order.previous \in 0..lastKey
  BY <1>3 DEF OrderRecords, NoKey
<1>7. OrderSteps'
  BY <1>1, <1>2, <1>3, <1>4, <1>6 DEF OrderSteps
<1>8. PlanIsInformed'
  <2>1. Living' = Living \union {lastKey + 1}
    BY <1>1, <1>4, <1>6 DEF Living
  <2>2. NoKey \notin Living
    BY <1>2, LivingAreIssued
  <2>3. QED
    BY <1>1, <1>2, <1>4, <1>6, <2>1, <2>2 DEF PlanIsInformed
<1>9. everSent' \subseteq Living
  BY <1>1 DEF Living
<1>10. lastKey' \in Nat /\ lastKey <= lastKey' /\ shared'.pend \notin 1..lastKey
  BY <1>1, <1>3, <1>4
<1>11. QED
  BY <1>1, <1>2, <1>4, <1>5, <1>7, <1>8, <1>9, <1>10, SharedMoves DEF AdviceShape

LEMMA SendsElsewhereSafely ==
  ASSUME AdviceInv, ElsewhereSends
  PROVE  AdviceInv'
<1>1. /\ shared.pend \notin {NoKey, order.key} /\ shared' = [shared EXCEPT !.sent = TRUE]
      /\ everSent' = everSent \union {shared.pend}
      /\ UNCHANGED <<lastKey, tab, mood, rows, told, order, troubles, advised, settledFor, blind, rash>>
  BY DEF ElsewhereSends, LeaveOrder, LeaveTab
<1>2. AdviceShape /\ OrderSteps /\ PlanIsInformed
  BY DEF AdviceInv
<1>3. lastKey \in Nat /\ shared \in SharedRecords
  BY <1>2 DEF AdviceShape
<1>4. /\ shared'.pend = shared.pend /\ shared'.sent = TRUE /\ shared'.receipt = shared.receipt
      /\ shared'.proofs = shared.proofs /\ shared'.open = shared.open /\ shared' \in SharedRecords'
  BY <1>1, <1>3 DEF SharedRecords
<1>5. OrderSteps'
  BY <1>1, <1>2, <1>4 DEF OrderSteps
<1>6. Living' = Living /\ everSent' \subseteq Living
  BY <1>1, <1>4 DEF Living
<1>7. PlanIsInformed'
  BY <1>1, <1>2, <1>4, <1>6 DEF PlanIsInformed
<1>8. lastKey' \in Nat /\ lastKey <= lastKey'
  BY <1>1, <1>3
<1>9. QED
  BY <1>1, <1>2, <1>4, <1>5, <1>6, <1>7, <1>8, SharedMoves DEF AdviceShape

LEMMA SettlesSafely ==
  ASSUME AdviceInv, Settles
  PROVE  AdviceInv'
<1>1. /\ shared.pend # NoKey /\ shared.sent /\ shared' = [shared EXCEPT !.pend = NoKey, !.receipt = shared.pend]
      /\ UNCHANGED <<lastKey, tab, mood, rows, told, order, troubles, everSent, advised, settledFor, blind, rash>>
  BY DEF Settles, LeaveOrder, LeaveTab
<1>2. AdviceShape /\ OrderSteps /\ PlanIsInformed
  BY DEF AdviceInv
<1>3. lastKey \in Nat /\ shared \in SharedRecords
  BY <1>2 DEF AdviceShape
<1>4. /\ shared'.pend = NoKey /\ shared'.sent = shared.sent /\ shared'.receipt = shared.pend
      /\ shared'.proofs = shared.proofs /\ shared'.open = shared.open
  BY <1>1, <1>3 DEF SharedRecords
<1>5. shared' \in SharedRecords'
  <2>1. NoKey \in 0..lastKey /\ shared.pend \in 0..lastKey /\ lastKey' = lastKey
    BY <1>1, <1>3 DEF SharedRecords, NoKey
  <2>2. SharedRecords' = SharedRecords
    BY <2>1 DEF SharedRecords
  <2>3. QED
    BY <1>1, <1>3, <2>1, <2>2 DEF SharedRecords
<1>6. OrderSteps'
  BY <1>1, <1>2, <1>4 DEF OrderSteps
<1>7. everSent' \subseteq Living
  BY <1>1 DEF Living
<1>8. PlanIsInformed'
  BY <1>1, <1>2, <1>4, <1>6 DEF PlanIsInformed, OrderSteps
<1>9. lastKey' \in Nat /\ lastKey <= lastKey'
  BY <1>1, <1>3
<1>10. QED
  BY <1>1, <1>2, <1>4, <1>5, <1>6, <1>7, <1>8, <1>9, SharedMoves DEF AdviceShape

LEMMA LosesTheRecordSafely ==
  ASSUME AdviceInv, RecordLost
  PROVE  AdviceInv'
<1>1. /\ troubles < MaxTroubles /\ troubles' = troubles + 1
      /\ shared' = [shared EXCEPT !.pend = NoKey, !.sent = FALSE, !.receipt = NoKey, !.proofs = <<>>]
      /\ UNCHANGED <<lastKey, tab, mood, rows, told, order, everSent, advised, settledFor, blind, rash>>
  BY DEF RecordLost
<1>2. AdviceShape /\ OrderSteps /\ PlanIsInformed
  BY DEF AdviceInv
<1>3. lastKey \in Nat /\ shared \in SharedRecords /\ troubles \in 0..MaxTroubles
  BY <1>2 DEF AdviceShape
<1>4. /\ shared'.pend = NoKey /\ shared'.sent = FALSE /\ shared'.receipt = NoKey
      /\ shared'.proofs = <<>> /\ shared'.open = shared.open
  BY <1>1, <1>3 DEF SharedRecords
<1>5. shared' \in SharedRecords'
  <2>1. <<>> \in Seq(1..lastKey') /\ NoKey \in 0..lastKey'
    BY <1>1, <1>3 DEF NoKey
  <2>2. QED
    BY <1>1, <1>3, <2>1 DEF SharedRecords
<1>6. OrderSteps'
  BY <1>1, <1>2, <1>4 DEF OrderSteps
<1>7. everSent' \subseteq Living
  BY <1>1 DEF Living
<1>8. PlanIsInformed'
  BY <1>1, <1>2, <1>4, <1>6 DEF PlanIsInformed, OrderSteps
<1>9. lastKey' \in Nat /\ lastKey <= lastKey' /\ troubles' \in 0..MaxTroubles
  BY <1>1, <1>3, AdviceAssumption
<1>10. ToSet(shared'.proofs) \subseteq ToSet(shared.proofs)
  BY <1>4, ToSets
<1>11. QED
  BY <1>1, <1>2, <1>4, <1>5, <1>6, <1>7, <1>8, <1>9, <1>10, SharedMoves DEF AdviceShape

LEMMA ChangesMoodSafely ==
  ASSUME AdviceInv, MoodChanges
  PROVE  AdviceInv'
<1>1. /\ troubles < MaxTroubles /\ troubles' = troubles + 1 /\ mood' \in {"works", "full", "denied"}
      /\ UNCHANGED <<shared, lastKey, tab, rows, told, order, everSent, advised, settledFor, blind, rash>>
  BY DEF MoodChanges
<1>2. AdviceShape /\ OrderSteps /\ PlanIsInformed
  BY DEF AdviceInv
<1>3. lastKey \in Nat /\ shared \in SharedRecords /\ troubles \in 0..MaxTroubles
  BY <1>2 DEF AdviceShape
<1>4. shared' \in SharedRecords'
  BY <1>1, <1>3 DEF SharedRecords
<1>5. OrderSteps'
  BY <1>1, <1>2 DEF OrderSteps
<1>6. PlanIsInformed'
  BY <1>1, <1>2 DEF PlanIsInformed, Living
<1>7. everSent' \subseteq Living
  BY <1>1 DEF Living
<1>8. lastKey' \in Nat /\ lastKey <= lastKey' /\ troubles' \in 0..MaxTroubles
  BY <1>1, <1>3, AdviceAssumption
<1>9. QED
  BY <1>1, <1>4, <1>5, <1>6, <1>7, <1>8, SharedMoves

\* A store that remembers nothing but the entry.
Fresh(e, never) == [FreshTab(e) EXCEPT !.never = never]

LEMMA FreshIs ==
  ASSUME NEW K, NEW e \in EntryRecords(K), NEW never \in SUBSET Nat, NEW u, u = Fresh(e, never)
  PROVE  /\ u \in TabRecords(K) /\ u.memory = NoMemory /\ u.memory.key = NoKey /\ u.consumed = {}
         /\ u.volatile = {} /\ u.never = never /\ u.entry = e
         /\ Durable(u) = e.used /\ UsedUp(u) = e.used /\ HeldBy(u) = ToSet(EntryKeys(e))
<1>1. <<>> \in Seq(K)
  OBVIOUS
<1>2. u = [memory |-> NoMemory, consumed |-> {}, volatile |-> {}, observed |-> <<>>, never |-> never, entry |-> e]
  BY DEF Fresh, FreshTab
<1>3. u \in TabRecords(K)
  <2>1. NoMemory \in MemoryRecords(K) /\ {} \in SUBSET K
    BY FirstsAreTyped
  <2>2. QED
    BY <1>1, <1>2, <2>1 DEF TabRecords
<1>4. QED
  BY <1>2, <1>3, ToSets DEF Durable, UsedUp, HeldBy, NoMemory

LEMMA RetiresTheLeaseSafely ==
  ASSUME AdviceInv, LeaseRetired
  PROVE  AdviceInv'
<1>1. /\ shared' = [shared EXCEPT !.open = FALSE, !.pend = NoKey, !.sent = FALSE, !.receipt = NoKey, !.proofs = <<>>]
      /\ tab' = [FreshTab(IF mood = "denied" THEN tab.entry ELSE NoEntry) EXCEPT !.never = tab.never]
      /\ advised' = {} /\ settledFor' = {} /\ order' = NoOrder
      /\ UNCHANGED <<lastKey, mood, rows, told, troubles, blind, rash, everSent>>
  BY DEF LeaseRetired, LeaveOrder
<1>2. AdviceShape /\ OrderSteps /\ UsedIsDead /\ UnsentIsDead /\ AcknowledgedWasShown
  BY DEF AdviceInv
<1>3. /\ lastKey \in Nat /\ shared \in SharedRecords /\ tab \in TabRecords(Known) /\ tab.never \subseteq 1..lastKey
      /\ rows \in Seq(Known) /\ told \in Known \union {NoKey} /\ everSent \subseteq 1..lastKey
  BY <1>2 DEF AdviceShape
<1>4. /\ shared'.pend = NoKey /\ shared'.sent = FALSE /\ shared'.receipt = NoKey
      /\ shared'.proofs = <<>> /\ shared'.open = FALSE
  BY <1>1, <1>3 DEF SharedRecords
<1>5. shared' \in SharedRecords'
  <2>1. <<>> \in Seq(1..lastKey') /\ NoKey \in 0..lastKey'
    BY <1>1, <1>3 DEF NoKey
  <2>2. QED
    BY <1>1, <1>3, <2>1 DEF SharedRecords
<1>6. PICK e : e = IF mood = "denied" THEN tab.entry ELSE NoEntry
  OBVIOUS
<1>7. e \in EntryRecords(Known) /\ e.used \subseteq UsedUp(tab)
  <2>1. tab.entry \in EntryRecords(Known)
    BY <1>3 DEF TabRecords
  <2>2. NoEntry.used = {} /\ tab.entry.used \subseteq UsedUp(tab)
    BY DEF NoEntry, UsedUp, Durable
  <2>3. QED
    BY <1>6, <2>1, <2>2, FirstsAreTyped
<1>8. /\ tab' \in TabRecords(Known) /\ tab'.memory.key = NoKey /\ tab'.never = tab.never
      /\ UsedUp(tab') = e.used
  <2>1. tab.never \in SUBSET Nat
    BY <1>3
  <2>2. tab' = Fresh(e, tab.never)
    BY <1>1, <1>6 DEF Fresh
  <2>3. QED
    BY <1>7, <2>1, <2>2, FreshIs
<1>9. Known \subseteq Known'
  BY <1>1, <1>3 DEF Known, Own, NoOrder
<1>10. AdviceShape'
  <2>1. tab' \in TabRecords(Known') /\ rows' \in Seq(Known')
    BY <1>1, <1>3, <1>8, <1>9, RecordsGrow
  <2>2. order' \in OrderRecords'
    BY <1>1, <1>3 DEF OrderRecords, NoOrder, NoKey
  <2>3. told' \in Known' \union {NoKey} /\ tab'.never \subseteq 1..lastKey' /\ everSent' \subseteq 1..lastKey'
    BY <1>1, <1>3, <1>8, <1>9
  <2>4. QED
    BY <1>1, <1>2, <1>3, <1>5, <2>1, <2>2, <2>3 DEF AdviceShape
<1>11. order'.step = "none" /\ order'.key = NoKey
  BY <1>1 DEF NoOrder
<1>12. OrderSteps' /\ PlanIsInformed'
  BY <1>4, <1>11 DEF OrderSteps, PlanIsInformed
<1>13. UnsentIsDead'
  <2>1. Living' \subseteq Living
    BY <1>1, <1>4 DEF Living
  <2>2. QED
    BY <1>2, <1>4, <1>8, <2>1, ToSets DEF UnsentIsDead
<1>14. UsedIsDead'
  BY <1>1, <1>2, <1>4, <1>7, <1>8 DEF UsedIsDead
<1>15. StandingIsHeld'
  BY <1>1, <1>4 DEF StandingIsHeld, Standing
<1>16. Quieted(tab)' /\ AcknowledgedWasShown'
  BY <1>1, <1>2 DEF Quieted, AcknowledgedWasShown
<1>17. QED
  BY <1>10, <1>12, <1>13, <1>14, <1>15, <1>16 DEF AdviceInv

LEMMA DiscardsSafely ==
  ASSUME AdviceInv, NEW written \in BOOLEAN, Discards(written)
  PROVE  AdviceInv'
<1>1. PICK proofs : proofs = Append(shared.proofs, shared.pend)
  OBVIOUS
<1>2. /\ shared.pend # NoKey /\ ~shared.sent /\ (order.key = shared.pend => told = NoKey)
      /\ shared' = [shared EXCEPT !.pend = NoKey, !.proofs = proofs]
      /\ tab' = IF order.key = shared.pend THEN syncMaintenanceNeverSentProofs(tab, proofs, written) ELSE tab
      /\ advised' = advised \ {shared.pend}
      /\ order' = IF order.key = shared.pend THEN [order EXCEPT !.step = "planned"] ELSE order
      /\ UNCHANGED <<lastKey, mood, rows, told, troubles, blind, rash, everSent, settledFor>>
  BY <1>1 DEF Discards, LeaveOrder
<1>3. AdviceShape /\ OrderSteps /\ UsedIsDead /\ UnsentIsDead /\ StandingIsHeld /\ PlanIsInformed /\ Quieted(tab) /\ AcknowledgedWasShown
  BY DEF AdviceInv
<1>4. /\ lastKey \in Nat /\ shared \in SharedRecords /\ tab \in TabRecords(Known) /\ tab.never \subseteq 1..lastKey
      /\ rows \in Seq(Known) /\ told \in Known \union {NoKey} /\ everSent \subseteq 1..lastKey
      /\ advised \subseteq ToSet(rows) /\ order \in OrderRecords
  BY <1>3 DEF AdviceShape
<1>5. /\ Numbered(Known) /\ shared.pend \in 1..lastKey /\ shared.proofs \in Seq(1..lastKey) /\ shared.pend \notin everSent
      /\ ToSet(shared.proofs) \subseteq 1..lastKey
  <2>1. shared.pend \in 0..lastKey /\ shared.proofs \in Seq(1..lastKey)
    BY <1>4 DEF SharedRecords
  <2>2. QED
    BY <1>2, <1>3, <1>4, <2>1, KnownAreNumbered DEF NoKey, OrderSteps
<1>6. proofs \in Seq(1..lastKey) /\ proofs \in Seq(Nat) /\ ToSet(proofs) = ToSet(shared.proofs) \union {shared.pend}
  <2>1. 1..lastKey \subseteq Nat /\ proofs \in Seq(1..lastKey)
    BY <1>1, <1>4, <1>5
  <2>2. proofs \in Seq(Nat)
    BY <2>1, RecordsGrow
  <2>3. QED
    BY <1>1, <1>5, <2>1, <2>2, ToSets
<1>7. /\ shared'.pend = NoKey /\ shared'.sent = FALSE /\ shared'.receipt = shared.receipt
      /\ shared'.proofs = proofs /\ shared'.open = shared.open
  BY <1>2, <1>4 DEF SharedRecords
<1>8. shared' \in SharedRecords'
  <2>1. NoKey \in 0..lastKey /\ SharedRecords' = SharedRecords
    BY <1>2, <1>4 DEF NoKey, SharedRecords
  <2>2. QED
    BY <1>2, <1>4, <1>6, <2>1 DEF SharedRecords
<1>9. Living' = everSent /\ everSent \subseteq Living
  BY <1>2, <1>7 DEF Living
<1>10. ToSet(proofs) \intersect everSent = {}
  BY <1>3, <1>5, <1>6, <1>9 DEF UnsentIsDead
<1>11. /\ tab' \in TabRecords(Known) /\ tab'.never \subseteq 1..lastKey /\ tab'.never \intersect everSent = {}
       /\ Follows(tab, tab', ToSet(proofs)) /\ Quieted(tab')
  <2>1. CASE order.key = shared.pend
    <3>1. tab' = syncMaintenanceNeverSentProofs(tab, proofs, written)
      BY <1>2, <2>1
    <3>2. tab' \in TabRecords(Known) /\ tab'.never = ToSet(proofs) /\ Follows(tab, tab', ToSet(proofs)) /\ Quieted(tab')
      <4>1. tab \in TabRecords(Known) /\ proofs \in Seq(Nat) /\ Numbered(Known) /\ Quieted(tab)
        BY <1>3, <1>4, <1>5, <1>6
      <4>2. QED
        BY <3>1, <4>1, SyncFollows
    <3>3. QED
      BY <1>5, <1>6, <1>10, <3>2
  <2>2. CASE order.key # shared.pend
    <3>1. tab' = tab
      BY <1>2, <2>2
    <3>2. Follows(tab, tab, ToSet(proofs))
      BY DEF Follows
    <3>3. tab.never \intersect everSent = {}
      BY <1>3, <1>9 DEF UnsentIsDead
    <3>4. QED
      BY <1>3, <1>4, <3>1, <3>2, <3>3
  <2>3. QED
    BY <2>1, <2>2
<1>12. /\ order' \in OrderRecords /\ order'.key = order.key /\ order'.intent = order.intent
       /\ order'.previous = order.previous /\ order'.seen = order.seen
       /\ order.key = shared.pend => order.step = "saved" /\ order'.step = "planned" /\ told = NoKey
       /\ order.key # shared.pend => order' = order
  <2>1. order.key = shared.pend => order.step = "saved"
    <3>1. order.step \in {"none", "planned", "saved", "sent"}
      BY <1>4 DEF OrderRecords
    <3>2. QED
      BY <1>2, <1>3, <1>5, <3>1 DEF OrderSteps
  <2>2. QED
    BY <1>2, <1>4, <2>1 DEF OrderRecords
<1>13. Known' = Known /\ OrderRecords' = OrderRecords
  <2>1. Own' = Own
    BY <1>12 DEF Own
  <2>2. QED
    BY <1>2, <2>1 DEF Known, OrderRecords
<1>14. AdviceShape'
  BY <1>2, <1>3, <1>4, <1>8, <1>11, <1>12, <1>13 DEF AdviceShape
<1>15. OrderSteps'
  BY <1>2, <1>3, <1>5, <1>7, <1>12 DEF OrderSteps, NoKey
<1>16. UnsentIsDead'
  BY <1>7, <1>9, <1>10, <1>11 DEF UnsentIsDead
<1>17. UsedIsDead'
  BY <1>2, <1>3, <1>7, <1>11 DEF UsedIsDead, Follows
<1>18. StandingIsHeld'
  <2>1. Standing' \subseteq Standing
    BY <1>2, <1>7 DEF Standing
  <2>2. ASSUME NEW k \in Standing' \intersect Living' PROVE k \in HeldBy(tab')
    <3>1. k \in HeldBy(tab) /\ k \in everSent /\ k \notin ToSet(proofs)
      BY <1>3, <1>9, <1>10, <2>1, <2>2 DEF StandingIsHeld
    <3>2. k # NoKey
      BY <1>4, <3>1 DEF NoKey
    <3>3. k \notin UsedUp(tab)
      BY <1>3, <2>1, <2>2, <3>2 DEF UsedIsDead, Standing
    <3>4. QED
      BY <1>11, <3>1, <3>3 DEF Follows
  <2>3. QED
    BY <2>2 DEF StandingIsHeld
<1>19. PlanIsInformed'
  <2>1. CASE order.key = shared.pend
    <3>1. order.intent # NoKey => order.previous # NoKey /\ advised \intersect everSent \subseteq order.seen
      BY <1>3, <1>12, <2>1 DEF PlanIsInformed
    <3>2. NoKey \notin everSent
      BY <1>4 DEF NoKey
    <3>3. QED
      BY <1>2, <1>7, <1>9, <1>12, <2>1, <3>1, <3>2 DEF PlanIsInformed
  <2>2. CASE order.key # shared.pend
    BY <1>2, <1>3, <1>5, <1>7, <1>9, <1>12, <2>2 DEF PlanIsInformed, OrderSteps
  <2>3. QED
    BY <2>1, <2>2
<1>20. Quieted(tab)' /\ AcknowledgedWasShown'
  BY <1>2, <1>3, <1>11 DEF Quieted, AcknowledgedWasShown
<1>21. QED
  BY <1>14, <1>15, <1>16, <1>17, <1>18, <1>19, <1>20 DEF AdviceInv

-----------------------------------------------------------------------------
(* What the tab does keeps it *)

\* The store u holds what t held, and k.
RecallsOn(K, t, u, k) ==
  /\ u \in TabRecords(K) /\ u.never = t.never /\ Follows(t, u, t.never) /\ Quieted(u)
  /\ k \notin UsedUp(u) /\ k \in t.never \union HeldBy(u)

LEMMA RememberFollows ==
  ASSUME NEW K, Numbered(K), NEW t \in TabRecords(K), NEW k \in K, NEW preserve, NEW written \in BOOLEAN,
         NEW u, u = rememberMaintenanceRecoveryIntent(t, k, preserve, written),
         Quieted(t), k \notin UsedUp(t)
  PROVE  RecallsOn(K, t, u, k)
<1> DEFINE more == {k}
<1>1. u \in TabRecords(K) /\ Turns(t, u, more) /\ k \in t.never \union UsedUp(t) \union HeldBy(u)
  BY RememberIs
<1>2. NoKey \notin Durable(t) /\ Durable(t) \subseteq UsedUp(t)
  BY DurableIsKnown
<1>3. more \intersect settledFor \subseteq t.consumed
  BY <1>2 DEF Quieted
<1> HIDE DEF more
<1>4. Quieted(u)
  BY <1>1, <1>2, <1>3, TurnsKeepQuiet
<1>5. Follows(t, u, t.never) /\ u.never = t.never
  BY <1>1, TurnsFollow
<1>6. QED
  BY <1>1, <1>4, <1>5 DEF RecallsOn, Follows

\* Advice that counts stays with a tab that follows from this one.
LEMMA FollowersHold ==
  ASSUME AdviceInv, NEW u, NEW gone, Follows(tab, u, gone), NEW k \in Standing \intersect Living, k \notin gone
  PROVE  k \in HeldBy(u) /\ k # NoKey
<1>1. k \in HeldBy(tab)
  BY DEF AdviceInv, StandingIsHeld
<1>2. k # NoKey
  BY LivingAreIssued DEF AdviceInv
<1>3. k \notin UsedUp(tab)
  BY <1>2 DEF AdviceInv, UsedIsDead, Standing
<1>4. QED
  BY <1>1, <1>2, <1>3 DEF Follows

LEMMA AdvisesSafely ==
  ASSUME AdviceInv, NEW k \in AdviceKeys, NEW written \in BOOLEAN, Advise(k, written)
  PROVE  AdviceInv'
<1>1. /\ told = NoKey
      /\ \/ k = shared.pend /\ k # NoKey /\ order.step # "saved"
         \/ k = order.key /\ order.step \in {"saved", "sent"}
      /\ order' = (IF k = order.key THEN NoOrder ELSE order)
      /\ told' = k
      /\ UNCHANGED <<shared, lastKey, mood, rows, troubles, everSent, advised, settledFor, blind, rash>>
  BY DEF Advise
<1>2. PICK t : t = syncMaintenanceNeverSentProofs(tab, shared.proofs, written)
  OBVIOUS
<1>3. PICK once : once = rememberMaintenanceRecoveryIntent(t, k, TRUE, written)
  OBVIOUS
<1>4. tab' = rememberMaintenanceRecoveryIntent(once, k, TRUE, written)
  BY <1>2, <1>3 DEF Advise
<1>5. AdviceShape /\ OrderSteps /\ UsedIsDead /\ UnsentIsDead /\ StandingIsHeld /\ PlanIsInformed /\ Quieted(tab) /\ AcknowledgedWasShown
  BY DEF AdviceInv
<1>6. /\ lastKey \in Nat /\ shared \in SharedRecords /\ tab \in TabRecords(Known) /\ tab.never \subseteq 1..lastKey
      /\ rows \in Seq(Known) /\ everSent \subseteq 1..lastKey /\ order \in OrderRecords
  BY <1>5 DEF AdviceShape
<1>7. Numbered(Known) /\ shared.proofs \in Seq(Nat) /\ ToSet(shared.proofs) \subseteq 1..lastKey
  BY <1>5, KnownAreNumbered
<1>8. Living' = Living /\ Living \subseteq 1..lastKey /\ NoKey \notin Living
  BY <1>1, <1>5, LivingAreIssued DEF Living
<1>9. k \in 1..lastKey /\ k # NoKey
  <2>1. shared.pend \in 0..lastKey /\ order.key \in 0..lastKey
    BY <1>5, LivingAreIssued
  <2>2. k # NoKey
    BY <1>1, <1>5 DEF OrderSteps
  <2>3. QED
    BY <1>1, <1>6, <2>1, <2>2 DEF NoKey
<1>10. PICK K : K = Known \union {k}
  OBVIOUS
<1>11. Known \subseteq K /\ K \subseteq Known'
  <2>1. CASE k = order.key
    <3>1. Known' = 1..lastKey
      BY <1>1, <2>1 DEF Known, Own, NoOrder
    <3>2. QED
      BY <1>9, <1>10, <3>1 DEF Known
  <2>2. CASE k # order.key
    <3>1. Known' = Known
      BY <1>1, <2>2 DEF Known, Own
    <3>2. k \in Known
      BY <1>9, <2>2 DEF Known, Own
    <3>3. QED
      BY <1>10, <3>1, <3>2
  <2>3. QED
    BY <2>1, <2>2
<1>12. Numbered(K) /\ tab \in TabRecords(K) /\ k \in K
  <2>1. tab \in TabRecords(K)
    BY <1>6, <1>11, RecordsGrow
  <2>2. K \in SUBSET (Nat \ {NoKey})
    BY <1>7, <1>9, <1>10 DEF Numbered
  <2>3. QED
    BY <1>10, <2>1, <2>2 DEF Numbered
<1>13. k \notin UsedUp(tab)
  <2>1. CASE k = shared.pend
    BY <1>5, <1>9, <2>1 DEF UsedIsDead
  <2>2. CASE k = order.key /\ order.step \in {"saved", "sent"}
    <3>1. UsedUp(tab) \subseteq Known
      BY <1>6, <1>7, DurableIsKnown
    <3>2. QED
      BY <2>2, <3>1 DEF Known, Own
  <2>3. QED
    BY <1>1, <2>1, <2>2
<1>14. /\ t \in TabRecords(K) /\ t.never = ToSet(shared.proofs) /\ Follows(tab, t, ToSet(shared.proofs)) /\ Quieted(t)
  BY <1>2, <1>5, <1>7, <1>12, SyncFollows
<1>15. k \notin UsedUp(t)
  BY <1>13, <1>14 DEF Follows
<1>16. /\ once \in TabRecords(K) /\ once.never = t.never /\ Follows(t, once, t.never) /\ Quieted(once)
       /\ k \notin UsedUp(once)
  <2>1. RecallsOn(K, t, once, k)
    BY <1>3, <1>12, <1>14, <1>15, RememberFollows
  <2>2. QED
    BY <2>1 DEF RecallsOn
<1>17. /\ tab' \in TabRecords(K) /\ tab'.never = once.never /\ Follows(once, tab', once.never) /\ Quieted(tab')
       /\ k \notin UsedUp(tab') /\ k \in once.never \union HeldBy(tab')
  <2>1. RecallsOn(K, once, tab', k)
    BY <1>4, <1>12, <1>16, RememberFollows
  <2>2. QED
    BY <2>1 DEF RecallsOn
<1>18. tab'.never = ToSet(shared.proofs) /\ Follows(tab, tab', ToSet(shared.proofs))
  <2>1. Follows(tab, once, ToSet(shared.proofs))
    BY <1>14, <1>16, FollowsOn
  <2>2. QED
    BY <1>14, <1>16, <1>17, <2>1, FollowsOn
<1>19. AdviceShape'
  <2>1. tab' \in TabRecords(Known') /\ rows \in Seq(Known')
    BY <1>6, <1>11, <1>17, RecordsGrow
  <2>2. order' \in OrderRecords
    BY <1>1, <1>6 DEF OrderRecords, NoOrder, NoKey
  <2>3. OrderRecords' = OrderRecords /\ SharedRecords' = SharedRecords
    BY <1>1 DEF OrderRecords, SharedRecords
  <2>4. told' \in Known' \union {NoKey} /\ tab'.never \subseteq 1..lastKey
    BY <1>1, <1>7, <1>10, <1>11, <1>18
  <2>5. QED
    BY <1>1, <1>5, <1>6, <2>1, <2>2, <2>3, <2>4 DEF AdviceShape
<1>20. OrderSteps'
  BY <1>1, <1>5 DEF OrderSteps, NoOrder
<1>21. UnsentIsDead'
  BY <1>1, <1>5, <1>8, <1>18 DEF UnsentIsDead
<1>22. UsedIsDead'
  BY <1>1, <1>5, <1>17, <1>18 DEF UsedIsDead, Follows
<1>23. StandingIsHeld'
  <2>1. Standing' \subseteq Standing \union {k}
    BY <1>1 DEF Standing
  <2>2. ASSUME NEW x \in Standing' \intersect Living' PROVE x \in HeldBy(tab')
    <3>1. x \in Living /\ x \notin ToSet(shared.proofs)
      BY <1>5, <1>8, <2>2 DEF UnsentIsDead
    <3>2. CASE x = k
      BY <1>14, <1>16, <1>17, <3>1, <3>2
    <3>3. CASE x # k
      BY <1>18, <2>1, <2>2, <3>1, <3>3, FollowersHold
    <3>4. QED
      BY <3>2, <3>3
  <2>3. QED
    BY <2>2 DEF StandingIsHeld
<1>24. PlanIsInformed'
  <2>1. CASE k = order.key
    <3>1. order'.step = "none"
      BY <1>1, <2>1 DEF NoOrder
    <3>2. QED
      BY <3>1 DEF PlanIsInformed
  <2>2. CASE k # order.key
    <3>1. order' = order /\ k = shared.pend /\ order.step # "saved"
      BY <1>1, <2>2
    <3>2. QED
      BY <1>1, <1>5, <1>8, <3>1 DEF PlanIsInformed
  <2>3. QED
    BY <2>1, <2>2
<1>25. Quieted(tab)' /\ AcknowledgedWasShown'
  BY <1>1, <1>5, <1>17 DEF Quieted, AcknowledgedWasShown
<1>26. QED
  BY <1>19, <1>20, <1>21, <1>22, <1>23, <1>24, <1>25 DEF AdviceInv

LEMMA RecordsAdviceSafely ==
  ASSUME AdviceInv, NEW written \in BOOLEAN, NEW stopped \in BOOLEAN, AdviceRecorded(written, stopped)
  PROVE  AdviceInv'
<1>1. PICK t : t = syncMaintenanceNeverSentProofs(tab, shared.proofs, written)
  OBVIOUS
<1>2. /\ told # NoKey
      /\ tab' = (IF shared.pend = told /\ shared.sent THEN rememberMaintenanceRecoveryIntent(t, told, FALSE, written) ELSE t)
      /\ rows' = (IF stopped \/ told \in ToSet(rows) THEN rows ELSE Append(rows, told))
      /\ advised' = (IF stopped THEN advised
                     ELSE IF shared.open THEN advised \union ({told} \ (settledFor \union ToSet(shared.proofs))) ELSE {})
      /\ told' = NoKey
      /\ UNCHANGED <<shared, lastKey, mood, order, troubles, everSent, settledFor, blind, rash>>
  BY <1>1 DEF AdviceRecorded
<1>3. AdviceShape /\ OrderSteps /\ UsedIsDead /\ UnsentIsDead /\ StandingIsHeld /\ PlanIsInformed /\ Quieted(tab) /\ AcknowledgedWasShown
  BY DEF AdviceInv
<1>4. /\ lastKey \in Nat /\ tab \in TabRecords(Known) /\ rows \in Seq(Known) /\ told \in Known
      /\ advised \subseteq ToSet(rows) /\ order.step # "saved"
  BY <1>2, <1>3 DEF AdviceShape, OrderSteps
<1>5. Numbered(Known) /\ shared.proofs \in Seq(Nat) /\ ToSet(shared.proofs) \subseteq 1..lastKey
  BY <1>3, KnownAreNumbered
<1>6. told \notin UsedUp(tab)
  BY <1>2, <1>3 DEF UsedIsDead
<1>7. /\ t \in TabRecords(Known) /\ t.never = ToSet(shared.proofs) /\ Follows(tab, t, ToSet(shared.proofs)) /\ Quieted(t)
  BY <1>1, <1>3, <1>4, <1>5, SyncFollows
<1>8. /\ tab' \in TabRecords(Known) /\ tab'.never = ToSet(shared.proofs)
      /\ Follows(tab, tab', ToSet(shared.proofs)) /\ Quieted(tab')
  <2>1. CASE tab' = t
    BY <1>7, <2>1
  <2>2. CASE tab' = rememberMaintenanceRecoveryIntent(t, told, FALSE, written)
    <3>1. told \notin UsedUp(t)
      BY <1>6, <1>7 DEF Follows
    <3>2. RecallsOn(Known, t, tab', told)
      BY <1>4, <1>5, <1>7, <2>2, <3>1, RememberFollows
    <3>3. tab' \in TabRecords(Known) /\ tab'.never = t.never /\ Follows(t, tab', t.never) /\ Quieted(tab')
      BY <3>2 DEF RecallsOn
    <3>4. Follows(tab, tab', ToSet(shared.proofs))
      BY <1>7, <3>3, FollowsOn
    <3>5. QED
      BY <1>7, <3>3, <3>4
  <2>3. QED
    BY <1>2, <2>1, <2>2
<1>9. rows' \in Seq(Known) /\ ToSet(rows') \subseteq ToSet(rows) \union {told} /\ advised' \subseteq ToSet(rows')
  <2>1. Append(rows, told) \in Seq(Known) /\ ToSet(Append(rows, told)) = ToSet(rows) \union {told}
    BY <1>4, ToSets
  <2>2. QED
    BY <1>2, <1>4, <2>1
<1>10. Known' = Known /\ OrderRecords' = OrderRecords /\ SharedRecords' = SharedRecords /\ Living' = Living
  BY <1>2 DEF Known, Own, OrderRecords, SharedRecords, Living
<1>11. AdviceShape'
  BY <1>2, <1>3, <1>5, <1>8, <1>9, <1>10 DEF AdviceShape
<1>12. OrderSteps'
  BY <1>2, <1>3 DEF OrderSteps
<1>13. UnsentIsDead'
  BY <1>2, <1>3, <1>8, <1>10 DEF UnsentIsDead
<1>14. advised' \subseteq advised \union {told}
  BY <1>2
<1>15. UsedIsDead'
  <2>1. UsedUp(tab') \subseteq UsedUp(tab)
    BY <1>8 DEF Follows
  <2>2. UsedUp(tab) \intersect (({shared.pend, told} \ {NoKey}) \union advised) = {}
    BY <1>3 DEF UsedIsDead
  <2>3. UsedUp(tab') \intersect (({shared.pend, told'} \ {NoKey}) \union advised') = {}
    BY <1>2, <1>6, <1>14, <2>1, <2>2
  <2>4. QED
    BY <1>2, <2>3 DEF UsedIsDead
<1>16. StandingIsHeld'
  <2>1. Standing' \subseteq Standing \union {NoKey}
    BY <1>2, <1>14 DEF Standing
  <2>2. ASSUME NEW k \in Standing' \intersect Living' PROVE k \in HeldBy(tab')
    <3>1. k \in Living /\ k \notin ToSet(shared.proofs) /\ k # NoKey
      BY <1>3, <1>10, <2>2, LivingAreIssued DEF UnsentIsDead
    <3>2. QED
      BY <1>8, <2>1, <2>2, <3>1, FollowersHold
  <2>3. QED
    BY <2>2 DEF StandingIsHeld
<1>17. PlanIsInformed'
  <2>1. NoKey \notin Living
    BY <1>3, LivingAreIssued
  <2>2. QED
    BY <1>2, <1>3, <1>4, <1>10, <1>14, <2>1 DEF PlanIsInformed
<1>18. Quieted(tab)'
  <2>1. told \notin settledFor
    BY <1>3, <1>6 DEF Quieted, UsedUp
  <2>2. QED
    BY <1>2, <1>8, <1>9, <2>1 DEF Quieted
<1>19. AcknowledgedWasShown'
  BY <1>2, <1>3 DEF AcknowledgedWasShown
<1>20. QED
  BY <1>11, <1>12, <1>13, <1>15, <1>16, <1>17, <1>18, <1>19 DEF AdviceInv

LEMMA LookFollows ==
  ASSUME NEW K, Numbered(K), NEW t \in TabRecords(K), NEW keys \in Seq(Nat), NEW written \in BOOLEAN,
         Quieted(t), NEW u, u = Looked(syncMaintenanceNeverSentProofs(t, keys, written))
  PROVE  Looks(K, t, u, ToSet(keys))
<1>1. PICK s : s = syncMaintenanceNeverSentProofs(t, keys, written)
  OBVIOUS
<1>2. s \in TabRecords(K) /\ s.never = ToSet(keys) /\ Follows(t, s, ToSet(keys)) /\ Quieted(s)
  BY <1>1, SyncFollows
<1> DEFINE none == {}
<1>3. u \in TabRecords(K) /\ Turns(s, u, none) /\ none \intersect settledFor \subseteq s.consumed
  BY <1>1, <1>2, LookedIs
<1> HIDE DEF none
<1>4. NoKey \notin Durable(s)
  BY <1>2, DurableIsKnown
<1>5. Quieted(u)
  BY <1>2, <1>3, <1>4, TurnsKeepQuiet
<1>6. Follows(s, u, s.never) /\ u.never = s.never
  BY <1>3, TurnsFollow
<1>7. Follows(t, u, ToSet(keys))
  BY <1>2, <1>6, FollowsOn
<1>8. QED
  BY <1>2, <1>3, <1>5, <1>6, <1>7 DEF Looks

LEMMA PlansAdviceSafely ==
  ASSUME AdviceInv, NEW deliberate \in BOOLEAN, NEW written \in BOOLEAN, PlanNew(deliberate, written)
  PROVE  AdviceInv'
<1>1. /\ shared.pend = NoKey /\ told = NoKey
      /\ tab' = Looked(syncMaintenanceNeverSentProofs(tab, shared.proofs, written))
      /\ tab'.memory.key # NoKey => shared.receipt # NoKey
      /\ order' = [key |-> lastKey + 1, intent |-> tab'.memory.key, previous |-> shared.receipt,
                   step |-> "planned", seen |-> advised]
      /\ lastKey' = lastKey + 1
      /\ UNCHANGED <<shared, mood, rows, told, troubles, everSent, advised, settledFor, blind, rash>>
  BY DEF PlanNew
<1>2. AdviceShape /\ OrderSteps /\ UsedIsDead /\ UnsentIsDead /\ StandingIsHeld /\ Quieted(tab) /\ AcknowledgedWasShown
  BY DEF AdviceInv
<1>3. /\ lastKey \in Nat /\ shared \in SharedRecords /\ tab \in TabRecords(Known) /\ rows \in Seq(Known)
      /\ everSent \subseteq 1..lastKey /\ advised \subseteq ToSet(rows)
  BY <1>2 DEF AdviceShape
<1>4. Numbered(Known) /\ shared.proofs \in Seq(Nat) /\ ToSet(shared.proofs) \subseteq 1..lastKey
  BY <1>2, KnownAreNumbered
<1>5. /\ tab' \in TabRecords(Known) /\ tab'.never = ToSet(shared.proofs)
      /\ Follows(tab, tab', ToSet(shared.proofs)) /\ Quieted(tab')
  <2>1. Looks(Known, tab, tab', ToSet(shared.proofs))
    BY <1>1, <1>2, <1>3, <1>4, LookFollows
  <2>2. QED
    BY <2>1 DEF Looks
<1>6. Known \subseteq Known' /\ 1..lastKey \subseteq 1..lastKey' /\ 0..lastKey \subseteq 0..lastKey' /\ Known \subseteq 1..lastKey
  BY <1>1, <1>3 DEF Known, Own
<1>7. order'.step = "planned" /\ order'.key = lastKey + 1 /\ order'.intent = tab'.memory.key
      /\ order'.previous = shared.receipt /\ order'.seen = advised
  BY <1>1
<1>8. lastKey + 1 \notin 0..lastKey /\ lastKey + 1 # NoKey /\ lastKey + 1 \notin 1..lastKey
  BY <1>3 DEF NoKey
<1>9. AdviceShape'
  <2>1. tab' \in TabRecords(Known') /\ rows \in Seq(Known')
    BY <1>3, <1>5, <1>6, RecordsGrow
  <2>2. shared \in SharedRecords'
    <3>1. Seq(1..lastKey) \subseteq Seq(1..lastKey')
      BY <1>6, RecordsGrow
    <3>2. QED
      BY <1>3, <1>6, <3>1 DEF SharedRecords
  <2>3. order' \in OrderRecords'
    <3>1. tab'.memory.key \in Nat
      <4>1. tab'.memory.key \in Known \union {NoKey}
        BY <1>5 DEF TabRecords, MemoryRecords
      <4>2. Known \subseteq Nat
        BY <1>4 DEF Numbered
      <4>3. NoKey \in Nat
        BY DEF NoKey
      <4>4. QED
        BY <4>1, <4>2, <4>3
    <3>2. advised \in SUBSET Nat
      BY <1>3, <1>4, ToSets DEF Numbered
    <3>3. lastKey + 1 \in 0..lastKey' /\ shared.receipt \in 0..lastKey'
      BY <1>1, <1>3, <1>6 DEF SharedRecords
    <3>4. QED
      BY <1>1, <3>1, <3>2, <3>3 DEF OrderRecords
  <2>4. lastKey' \in Nat /\ tab'.never \subseteq 1..lastKey' /\ everSent \subseteq 1..lastKey'
    BY <1>1, <1>3, <1>4, <1>5, <1>6
  <2>5. QED
    BY <1>1, <1>2, <2>1, <2>2, <2>3, <2>4 DEF AdviceShape
<1>10. OrderSteps'
  BY <1>1, <1>2, <1>3, <1>7, <1>8 DEF OrderSteps
<1>11. Living' = Living /\ NoKey \notin Living
  BY <1>1, <1>2, LivingAreIssued DEF Living
<1>12. UnsentIsDead'
  BY <1>1, <1>2, <1>5, <1>11 DEF UnsentIsDead
<1>13. UsedIsDead'
  BY <1>1, <1>2, <1>5 DEF UsedIsDead, Follows
<1>14. StandingIsHeld'
  <2>1. Standing' = Standing
    BY <1>1 DEF Standing
  <2>2. ASSUME NEW k \in Standing' \intersect Living' PROVE k \in HeldBy(tab')
    <3>1. k \notin ToSet(shared.proofs)
      BY <1>2, <1>11, <2>2 DEF UnsentIsDead
    <3>2. QED
      BY <1>5, <1>11, <2>1, <2>2, <3>1, FollowersHold
  <2>3. QED
    BY <2>2 DEF StandingIsHeld
<1>15. PlanIsInformed'
  BY <1>1, <1>7, <1>11 DEF PlanIsInformed
<1>16. Quieted(tab)' /\ AcknowledgedWasShown'
  BY <1>1, <1>2, <1>5 DEF Quieted, AcknowledgedWasShown
<1>17. QED
  BY <1>9, <1>10, <1>12, <1>13, <1>14, <1>15, <1>16 DEF AdviceInv

LEMMA PreparesSafely ==
  ASSUME AdviceInv, NEW written \in BOOLEAN, Prepare(written)
  PROVE  AdviceInv'
<1>1. PICK t : t = syncMaintenanceNeverSentProofs(tab, shared.proofs, written)
  OBVIOUS
<1>2. PICK looked : looked = Looked(t)
  OBVIOUS
<1>3. PICK proofs : proofs = Omitting(shared.proofs, {order.key})
  OBVIOUS
<1>4. AdviceShape /\ OrderSteps /\ UsedIsDead /\ UnsentIsDead /\ StandingIsHeld /\ PlanIsInformed /\ Quieted(tab) /\ AcknowledgedWasShown
  BY DEF AdviceInv
<1>5. /\ lastKey \in Nat /\ shared \in SharedRecords /\ tab \in TabRecords(Known) /\ rows \in Seq(Known)
      /\ everSent \subseteq 1..lastKey /\ advised \subseteq ToSet(rows) /\ order \in OrderRecords
  BY <1>4 DEF AdviceShape
<1>6. /\ told = NoKey /\ order.step = "planned" /\ shared.pend = NoKey /\ shared.receipt = order.previous
      /\ shared' = [shared EXCEPT !.pend = order.key, !.sent = FALSE, !.proofs = proofs]
      /\ ~Throws(t)
      /\ looked.memory.key # NoKey => order.intent = looked.memory.key
      /\ order' = [order EXCEPT !.step = "saved"]
      /\ UNCHANGED <<lastKey, mood, rows, told, troubles, blind, rash, everSent, advised, settledFor>>
  BY <1>1, <1>2, <1>3 DEF Prepare, LeaveOrder
<1>7. /\ shared'.pend = order.key /\ shared'.sent = FALSE /\ shared'.proofs = proofs
      /\ shared'.receipt = shared.receipt /\ shared'.open = shared.open
  BY <1>5, <1>6 DEF SharedRecords
<1>8. tab' = syncMaintenanceNeverSentProofs(looked, proofs, written)
  BY <1>1, <1>2, <1>7 DEF Prepare
<1>9. /\ order'.step = "saved" /\ order'.key = order.key /\ order'.intent = order.intent
      /\ order'.previous = order.previous /\ order'.seen = order.seen /\ order' \in OrderRecords
  BY <1>5, <1>6 DEF OrderRecords
<1>10. Numbered(Known) /\ shared.proofs \in Seq(Nat) /\ ToSet(shared.proofs) \subseteq 1..lastKey
  BY <1>4, KnownAreNumbered
<1>11. /\ order.key \in 1..lastKey /\ order.key # NoKey /\ order.key \notin Known /\ order.key \notin everSent
  <2>1. order.key \in 0..lastKey /\ order.key # NoKey
    BY <1>4, <1>6, LivingAreIssued DEF OrderSteps
  <2>2. QED
    BY <1>4, <1>5, <1>6, <2>1 DEF NoKey, Known, Own, OrderSteps
<1>12. proofs \in Seq(Nat) /\ proofs \in Seq(1..lastKey) /\ ToSet(proofs) = ToSet(shared.proofs) \ {order.key}
  <2>1. shared.proofs \in Seq(1..lastKey)
    BY <1>5 DEF SharedRecords
  <2>2. QED
    BY <1>3, <1>10, <2>1, OmittingIs
<1>13. t \in TabRecords(Known) /\ t.never = ToSet(shared.proofs) /\ Follows(tab, t, ToSet(shared.proofs))
  BY <1>1, <1>4, <1>5, <1>10, SyncFollows
<1>14. looked \in TabRecords(Known) /\ Follows(tab, looked, ToSet(shared.proofs)) /\ Quieted(looked)
  <2>1. looked = Looked(syncMaintenanceNeverSentProofs(tab, shared.proofs, written))
    BY <1>1, <1>2
  <2>2. Looks(Known, tab, looked, ToSet(shared.proofs))
    BY <1>4, <1>5, <1>10, <2>1, LookFollows
  <2>3. QED
    BY <2>2 DEF Looks
<1>15. tab' \in TabRecords(Known) /\ tab'.never = ToSet(proofs) /\ Follows(looked, tab', ToSet(proofs)) /\ Quieted(tab')
  <2>1. Looks(Known, looked, tab', ToSet(proofs))
    BY <1>8, <1>10, <1>12, <1>14, SyncLooks
  <2>2. QED
    BY <2>1 DEF Looks
<1>16. Follows(tab, tab', ToSet(shared.proofs))
  BY <1>12, <1>14, <1>15, FollowsOn
<1>17. Known' = Known /\ OrderRecords' = OrderRecords /\ SharedRecords' = SharedRecords
  BY <1>6, <1>9 DEF Known, Own, OrderRecords, SharedRecords
<1>18. shared' \in SharedRecords
  <2>1. order.key \in 0..lastKey
    BY <1>5, <1>11
  <2>2. QED
    BY <1>5, <1>6, <1>12, <2>1 DEF SharedRecords
<1>19. AdviceShape'
  <2>1. tab'.never \subseteq 1..lastKey
    BY <1>10, <1>12, <1>15
  <2>2. QED
    BY <1>4, <1>5, <1>6, <1>9, <1>15, <1>17, <1>18, <2>1 DEF AdviceShape
<1>20. OrderSteps'
  BY <1>4, <1>6, <1>7, <1>9, <1>11 DEF OrderSteps
<1>21. Living = everSent /\ Living' = everSent \union {order.key}
  BY <1>6, <1>7, <1>11 DEF Living
<1>22. UnsentIsDead'
  <2>1. ToSet(proofs) \intersect (everSent \union {order.key}) = {}
    BY <1>4, <1>12, <1>21 DEF UnsentIsDead
  <2>2. QED
    BY <1>7, <1>15, <1>21, <2>1 DEF UnsentIsDead
<1>23. UsedUp(tab') \subseteq UsedUp(tab) /\ UsedUp(tab) \subseteq Known
  BY <1>5, <1>10, <1>16, DurableIsKnown DEF Follows
<1>24. UsedIsDead'
  <2>1. UsedUp(tab) \intersect (({shared.pend, told} \ {NoKey}) \union advised) = {}
    BY <1>4 DEF UsedIsDead
  <2>2. UsedUp(tab') \intersect (({order.key, told} \ {NoKey}) \union advised) = {}
    BY <1>6, <1>11, <1>23, <2>1
  <2>3. QED
    BY <1>6, <1>7, <2>2 DEF UsedIsDead
<1>25. Standing' = Standing /\ order.key \notin Standing
  <2>1. ToSet(rows) \subseteq Known
    BY <1>5, ToSets
  <2>2. QED
    BY <1>5, <1>6, <1>7, <1>11, <2>1 DEF Standing
<1>26. StandingIsHeld'
  <2>1. ASSUME NEW k \in Standing' \intersect Living' PROVE k \in HeldBy(tab')
    <3>1. k \in Standing \intersect Living
      BY <1>21, <1>25, <2>1
    <3>2. k \notin ToSet(shared.proofs)
      BY <1>4, <3>1 DEF UnsentIsDead
    <3>3. QED
      BY <1>16, <3>1, <3>2, FollowersHold
  <2>2. QED
    BY <2>1 DEF StandingIsHeld
<1>27. PlanIsInformed'
  <2>1. order.intent # NoKey => order.previous # NoKey /\ advised \intersect everSent \subseteq order.seen
    <3>1. NoKey \notin Living
      BY <1>4, LivingAreIssued
    <3>2. QED
      BY <1>4, <1>6, <1>21, <3>1 DEF PlanIsInformed
  <2>2. order.intent = NoKey => advised \intersect everSent = {}
    <3>1. order.intent = NoKey => Looked(t).memory.key = NoKey
      BY <1>2, <1>6
    <3>2. order.intent = NoKey => Standing \intersect Living = {}
      BY <1>6, <1>13, <3>1, StandingIsAnswered
    <3>3. QED
      BY <1>21, <3>2 DEF Standing
  <2>3. QED
    BY <1>6, <1>7, <1>9, <2>1, <2>2 DEF PlanIsInformed
<1>28. Quieted(tab)' /\ AcknowledgedWasShown'
  BY <1>4, <1>6, <1>15 DEF Quieted, AcknowledgedWasShown
<1>29. QED
  BY <1>19, <1>20, <1>22, <1>24, <1>26, <1>27, <1>28 DEF AdviceInv

LEMMA DispatchesSafely ==
  ASSUME AdviceInv, NEW written \in BOOLEAN, Dispatch(written)
  PROVE  AdviceInv'
<1>1. PICK t : t = syncMaintenanceNeverSentProofs(tab, shared.proofs, written)
  OBVIOUS
<1>2. PICK fresh : fresh = tab'.consumed \ t.consumed
  OBVIOUS
<1>3. /\ told = NoKey /\ order.step = "saved" /\ shared.pend = order.key
      /\ shared' = [shared EXCEPT !.sent = TRUE] /\ everSent' = everSent \union {order.key}
      /\ tab' = consumeMaintenanceRecoveryIntent(t, order.intent, written)
      /\ settledFor' = settledFor \union fresh /\ advised' = advised \ fresh
      /\ blind' = (blind \/ ~((fresh \cap advised \cap everSent) \subseteq order.seen))
      /\ rash' = (rash \/ (order.intent = NoKey /\ advised \cap everSent # {}))
      /\ order' = [order EXCEPT !.step = "sent"]
      /\ UNCHANGED <<lastKey, mood, rows, told, troubles>>
  BY <1>1, <1>2 DEF Dispatch, Acknowledge, Settle
<1>4. AdviceShape /\ OrderSteps /\ UsedIsDead /\ UnsentIsDead /\ StandingIsHeld /\ PlanIsInformed /\ Quieted(tab) /\ AcknowledgedWasShown
  BY DEF AdviceInv
<1>5. /\ lastKey \in Nat /\ shared \in SharedRecords /\ tab \in TabRecords(Known) /\ rows \in Seq(Known)
      /\ everSent \subseteq 1..lastKey /\ advised \subseteq ToSet(rows) /\ order \in OrderRecords
  BY <1>4 DEF AdviceShape
<1>6. Numbered(Known) /\ shared.proofs \in Seq(Nat) /\ ToSet(shared.proofs) \subseteq 1..lastKey
  BY <1>4, KnownAreNumbered
<1>7. /\ shared'.pend = shared.pend /\ shared'.sent = TRUE /\ shared'.proofs = shared.proofs
      /\ shared'.open = shared.open /\ shared' \in SharedRecords
  BY <1>3, <1>5 DEF SharedRecords
<1>8. /\ order'.step = "sent" /\ order'.key = order.key /\ order' \in OrderRecords
  BY <1>3, <1>5 DEF OrderRecords
<1>9. /\ order.key \in 1..lastKey /\ order.key # NoKey /\ order.key \notin Known
  <2>1. order.key \in 0..lastKey /\ order.key # NoKey
    BY <1>3, <1>4, LivingAreIssued DEF OrderSteps
  <2>2. QED
    BY <1>3, <1>5, <2>1 DEF NoKey, Known, Own
<1>10. Known' = Known /\ OrderRecords' = OrderRecords /\ SharedRecords' = SharedRecords
  BY <1>3, <1>8 DEF Known, Own, OrderRecords, SharedRecords
<1>11. /\ t \in TabRecords(Known) /\ t.never = ToSet(shared.proofs) /\ Follows(tab, t, ToSet(shared.proofs)) /\ Quieted(t)
  <2>1. Looks(Known, tab, t, ToSet(shared.proofs))
    BY <1>1, <1>4, <1>5, <1>6, SyncLooks
  <2>2. QED
    BY <2>1 DEF Looks
<1>12. tab' \in TabRecords(Known) /\ (Turns(t, tab', {}) \/ Forgets(t, tab'))
  BY <1>3, <1>6, <1>11, ConsumeIs
<1>13. tab'.never = ToSet(shared.proofs)
  BY <1>11, <1>12 DEF Turns, Forgets
<1>14. /\ Durable(t) = Durable(tab) /\ UsedUp(t) \subseteq UsedUp(tab) /\ t.consumed \subseteq UsedUp(t)
       /\ Durable(t) \subseteq UsedUp(t) /\ NoKey \notin Durable(t) /\ UsedUp(tab') \subseteq Known
  BY <1>6, <1>11, <1>12, DurableIsKnown DEF Follows
<1>15. UsedUp(tab) \intersect (({shared.pend, told} \ {NoKey}) \union advised) = {}
  BY <1>4 DEF UsedIsDead
<1>16. UsedUp(tab') \subseteq UsedUp(tab) \union fresh
  <2>1. CASE Turns(t, tab', {})
    BY <1>14, <2>1 DEF Turns, UsedUp
  <2>2. CASE Forgets(t, tab')
    <3>1. UsedUp(tab') = tab'.consumed
      BY <2>2 DEF Forgets, UsedUp
    <3>2. QED
      BY <1>2, <1>14, <3>1
  <2>3. QED
    BY <1>12, <2>1, <2>2
<1>17. AdviceShape'
  <2>1. tab'.never \subseteq 1..lastKey
    BY <1>6, <1>13
  <2>2. everSent' \subseteq 1..lastKey /\ advised' \subseteq ToSet(rows)
    BY <1>3, <1>5, <1>9
  <2>3. QED
    BY <1>3, <1>4, <1>5, <1>7, <1>8, <1>10, <1>12, <2>1, <2>2 DEF AdviceShape
<1>18. OrderSteps'
  BY <1>3, <1>4, <1>7, <1>8, <1>9 DEF OrderSteps
<1>19. Living' = Living /\ Living = everSent \union {order.key} /\ NoKey \notin Living
  BY <1>3, <1>4, <1>7, <1>9, LivingAreIssued DEF Living
<1>20. UnsentIsDead'
  BY <1>4, <1>7, <1>13, <1>19 DEF UnsentIsDead
<1>21. UsedIsDead'
  <2>1. order.key \notin UsedUp(tab')
    BY <1>9, <1>14
  <2>2. UsedUp(tab') \intersect (({order.key, told} \ {NoKey}) \union advised') = {}
    BY <1>3, <1>15, <1>16, <2>1
  <2>3. QED
    BY <1>3, <1>7, <2>2 DEF UsedIsDead
<1>22. StandingIsHeld'
  <2>1. Standing' \subseteq (Standing \ fresh) \union {NoKey}
    BY <1>3, <1>7 DEF Standing
  <2>2. ASSUME NEW k \in Standing' \intersect Living' PROVE k \in HeldBy(tab')
    <3>1. k \in Standing \intersect Living /\ k \notin fresh /\ k # NoKey
      BY <1>19, <2>1, <2>2
    <3>2. k \notin ToSet(shared.proofs) /\ k \notin UsedUp(tab)
      BY <1>3, <1>4, <1>15, <3>1 DEF UnsentIsDead, Standing
    <3>3. k \in HeldBy(t) /\ k \notin UsedUp(t)
      BY <1>11, <1>14, <3>1, <3>2, FollowersHold
    <3>4. CASE Turns(t, tab', {})
      BY <1>11, <3>2, <3>3, <3>4 DEF Turns
    <3>5. CASE Forgets(t, tab')
      <4>1. k \in tab'.consumed
        BY <1>11, <3>2, <3>3, <3>5 DEF Forgets
      <4>2. k \in t.consumed
        BY <1>2, <3>1, <4>1
      <4>3. QED
        BY <1>14, <3>3, <4>2
    <3>6. QED
      BY <1>12, <3>4, <3>5
  <2>3. QED
    BY <2>2 DEF StandingIsHeld
<1>23. PlanIsInformed'
  BY <1>8 DEF PlanIsInformed
<1>24. Quieted(tab)'
  <2>1. /\ settledFor \subseteq Durable(t)
        /\ t.memory.key \in settledFor => t.memory.key \in t.consumed
        /\ settledFor \intersect ToSet(rows) \subseteq t.consumed
    BY <1>11 DEF Quieted
  <2>2. CASE Turns(t, tab', {})
    <3>1. /\ Durable(tab') = Durable(t) /\ tab'.consumed \in {t.consumed, Durable(t)}
          /\ tab'.memory.key \in {t.memory.key, NoKey} \/ tab'.memory.key \notin Durable(t)
      BY <2>2 DEF Turns
    <3>2. settledFor' \subseteq Durable(tab')
      BY <1>2, <1>3, <2>1, <3>1
    <3>3. CASE tab'.consumed = Durable(t)
      BY <1>3, <3>1, <3>2, <3>3 DEF Quieted
    <3>4. CASE tab'.consumed = t.consumed
      <4>1. settledFor' = settledFor
        BY <1>2, <1>3, <3>4
      <4>2. tab'.memory.key \in settledFor => tab'.memory.key \in t.consumed
        BY <1>14, <2>1, <3>1
      <4>3. QED
        BY <1>3, <2>1, <3>2, <3>4, <4>1, <4>2 DEF Quieted
    <3>5. QED
      BY <3>1, <3>3, <3>4
  <2>3. CASE Forgets(t, tab')
    <3>1. tab'.consumed = Durable(tab') /\ Durable(t) \subseteq tab'.consumed /\ fresh \subseteq tab'.consumed
      BY <1>2, <2>3 DEF Forgets
    <3>2. settledFor' \subseteq tab'.consumed
      BY <1>3, <2>1, <3>1
    <3>3. QED
      BY <3>1, <3>2 DEF Quieted
  <2>4. QED
    BY <1>12, <2>2, <2>3
<1>25. AcknowledgedWasShown'
  <2>1. /\ order.intent # NoKey => advised \intersect everSent \subseteq order.seen
        /\ order.intent = NoKey => advised \intersect everSent = {}
    BY <1>3, <1>4 DEF PlanIsInformed
  <2>2. fresh \cap advised \cap everSent \subseteq order.seen
    BY <2>1
  <2>3. ~blind' /\ ~rash'
    BY <1>3, <1>4, <2>1, <2>2 DEF AcknowledgedWasShown
  <2>4. QED
    BY <2>3 DEF AcknowledgedWasShown
<1>26. QED
  BY <1>17, <1>18, <1>20, <1>21, <1>22, <1>23, <1>24, <1>25 DEF AdviceInv

LEMMA ReloadsSafely ==
  ASSUME AdviceInv, NEW written \in BOOLEAN, LoadRows(TRUE, written)
  PROVE  AdviceInv'
<1>1. PICK t : t = Fresh(tab.entry, {})
  OBVIOUS
<1>2. /\ troubles < MaxTroubles /\ troubles' = troubles + 1
      /\ tab' = restoreMessageMaintenanceAdvice(t, written)
      /\ told' = NoKey /\ order' = NoOrder
      /\ settledFor' = (IF mood = "denied" THEN {} ELSE settledFor \ tab.volatile)
      /\ advised' = (IF shared.open THEN advised \union ((ToSet(rows) \cap tab.volatile) \ tab.entry.used) ELSE {})
      /\ UNCHANGED <<shared, lastKey, mood, rows, everSent, blind, rash>>
  <2>1. t = FreshTab(tab.entry)
    BY <1>1 DEF Fresh, FreshTab
  <2>2. QED
    BY <2>1 DEF LoadRows
<1>3. AdviceShape /\ OrderSteps /\ UsedIsDead /\ UnsentIsDead /\ StandingIsHeld /\ Quieted(tab) /\ AcknowledgedWasShown
  BY DEF AdviceInv
<1>4. /\ lastKey \in Nat /\ tab \in TabRecords(Known) /\ rows \in Seq(Known) /\ troubles \in 0..MaxTroubles
      /\ everSent \subseteq 1..lastKey /\ advised \subseteq ToSet(rows) /\ shared \in SharedRecords
  BY <1>3 DEF AdviceShape
<1>5. Numbered(Known) /\ shared.proofs \in Seq(Nat) /\ ToSet(shared.proofs) \subseteq 1..lastKey
  BY <1>3, KnownAreNumbered
<1>6. PICK used : used = tab.entry.used
  OBVIOUS
<1>7. tab.entry \in EntryRecords(Known) /\ used \subseteq UsedUp(tab) /\ Durable(tab) = used \union tab.volatile /\ NoKey \notin used
  BY <1>4, <1>5, <1>6, DurableIsKnown DEF TabRecords, UsedUp, Durable
<1>8. /\ t \in TabRecords(Known) /\ t.memory.key = NoKey /\ t.consumed = {} /\ t.never = {}
      /\ Durable(t) = used /\ UsedUp(t) = used
  <2>1. {} \in SUBSET Nat
    OBVIOUS
  <2>2. QED
    BY <1>1, <1>6, <1>7, <2>1, FreshIs
<1>9. settledFor' \subseteq used
  BY <1>2, <1>3, <1>7 DEF Quieted
<1>10. /\ tab' \in TabRecords(Known) /\ tab'.never \subseteq ToSet(shared.proofs) /\ UsedUp(tab') \subseteq used
       /\ \A k \in ToSet(rows) : k \in tab'.never \union used \union HeldBy(tab')
       /\ Quieted(tab)'
  <2>1. CASE rows = <<>>
    <3>1. tab' = t
      BY <1>2, <2>1 DEF restoreMessageMaintenanceAdvice
    <3>2. ToSet(rows) = {}
      BY <2>1, ToSets
    <3>3. Quieted(tab)'
      BY <1>2, <1>7, <1>8, <1>9, <3>1, <3>2 DEF Quieted
    <3>4. QED
      BY <1>8, <3>1, <3>2, <3>3
  <2>2. CASE rows # <<>>
    <3>1. PICK p : p = Proven(t, shared.proofs)
      OBVIOUS
    <3>2. /\ p.never = ToSet(shared.proofs) /\ p.memory = t.memory /\ p.consumed = t.consumed
          /\ Durable(p) = Durable(t) /\ UsedUp(p) = UsedUp(t)
      BY <1>5, <1>8, <3>1, ProvenIs
    <3>3. PICK more : more = ToSet(rows) \ (t.consumed \intersect Durable(t))
      OBVIOUS
    <3>4. /\ tab' \in TabRecords(Known) /\ Turns(p, tab', more)
          /\ \A k \in ToSet(rows) : k \in tab'.never \union UsedUp(t) \union HeldBy(tab')
          /\ tab'.consumed = Durable(t) \/ mood = "denied" \/ Unwritten(p)
      BY <1>2, <1>4, <1>5, <1>8, <2>2, <3>1, <3>3, RestoreIs
    <3>5. ~Unwritten(p)
      BY <1>8, <3>2 DEF Unwritten
    <3>6. /\ tab'.never = p.never /\ Durable(tab') = Durable(t) /\ UsedUp(tab') \subseteq UsedUp(t)
      BY <3>2, <3>4 DEF Turns, UsedUp
    <3>7. Quieted(tab)'
      <4>1. CASE mood = "denied"
        BY <1>2, <4>1 DEF Quieted
      <4>2. CASE mood # "denied"
        BY <1>8, <1>9, <3>4, <3>5, <3>6, <4>2 DEF Quieted
      <4>3. QED
        BY <4>1, <4>2
    <3>8. QED
      BY <1>8, <3>2, <3>4, <3>6, <3>7
  <2>3. QED
    BY <2>1, <2>2
<1>11. Known \subseteq Known' /\ SharedRecords' = SharedRecords
  BY <1>2 DEF Known, Own, NoOrder, SharedRecords
<1>12. advised' \subseteq ToSet(rows) /\ advised' \intersect used = {}
  BY <1>2, <1>3, <1>4, <1>6, <1>7 DEF UsedIsDead
<1>13. AdviceShape'
  <2>1. tab' \in TabRecords(Known') /\ rows \in Seq(Known')
    BY <1>4, <1>10, <1>11, RecordsGrow
  <2>2. order' \in OrderRecords'
    BY <1>2, <1>4 DEF OrderRecords, NoOrder, NoKey
  <2>3. troubles' \in 0..MaxTroubles
    BY <1>2, <1>4, AdviceAssumption
  <2>4. tab'.never \subseteq 1..lastKey
    BY <1>5, <1>10
  <2>5. QED
    BY <1>2, <1>3, <1>4, <1>11, <1>12, <2>1, <2>2, <2>3, <2>4 DEF AdviceShape
<1>14. order'.step = "none" /\ order'.key = NoKey
  BY <1>2 DEF NoOrder
<1>15. OrderSteps' /\ PlanIsInformed'
  BY <1>2, <1>3, <1>14 DEF OrderSteps, PlanIsInformed
<1>16. Living' = Living /\ NoKey \notin Living
  BY <1>2, <1>3, LivingAreIssued DEF Living
<1>17. UnsentIsDead'
  BY <1>2, <1>3, <1>10, <1>16 DEF UnsentIsDead
<1>18. UsedIsDead'
  <2>1. UsedUp(tab) \intersect (({shared.pend, told} \ {NoKey}) \union advised) = {}
    BY <1>3 DEF UsedIsDead
  <2>2. UsedUp(tab') \intersect (({shared.pend, told'} \ {NoKey}) \union advised') = {}
    BY <1>2, <1>7, <1>10, <1>12, <2>1
  <2>3. QED
    BY <1>2, <2>2 DEF UsedIsDead
<1>19. StandingIsHeld'
  <2>1. Standing' \subseteq advised' \union {NoKey}
    BY <1>2 DEF Standing
  <2>2. ASSUME NEW k \in Standing' \intersect Living' PROVE k \in HeldBy(tab')
    <3>1. k \in advised' /\ k \in Living
      BY <1>16, <2>1, <2>2
    <3>2. k \in ToSet(rows) /\ k \notin used /\ k \notin ToSet(shared.proofs)
      BY <1>3, <1>12, <3>1 DEF UnsentIsDead
    <3>3. QED
      BY <1>10, <3>2
  <2>3. QED
    BY <2>2 DEF StandingIsHeld
<1>20. AcknowledgedWasShown'
  BY <1>2, <1>3 DEF AcknowledgedWasShown
<1>21. QED
  BY <1>10, <1>13, <1>15, <1>17, <1>18, <1>19, <1>20 DEF AdviceInv

LEMMA RestoresSafely ==
  ASSUME AdviceInv, NEW written \in BOOLEAN, LoadRows(FALSE, written)
  PROVE  AdviceInv'
<1>1. /\ troubles < MaxTroubles /\ troubles' = troubles + 1
      /\ tab' = restoreMessageMaintenanceAdvice(tab, written)
      /\ UNCHANGED <<told, order, settledFor, advised, shared, lastKey, mood, rows, everSent, blind, rash>>
  BY DEF LoadRows
<1>2. AdviceShape /\ OrderSteps /\ UsedIsDead /\ UnsentIsDead /\ StandingIsHeld /\ PlanIsInformed /\ Quieted(tab) /\ AcknowledgedWasShown
  BY DEF AdviceInv
<1>3. /\ lastKey \in Nat /\ tab \in TabRecords(Known) /\ rows \in Seq(Known) /\ troubles \in 0..MaxTroubles
      /\ tab.never \subseteq 1..lastKey
  BY <1>2 DEF AdviceShape
<1>4. Numbered(Known) /\ shared.proofs \in Seq(Nat) /\ ToSet(shared.proofs) \subseteq 1..lastKey
  BY <1>2, KnownAreNumbered
<1>5. /\ tab' \in TabRecords(Known) /\ tab'.never \subseteq tab.never \union ToSet(shared.proofs)
      /\ Follows(tab, tab', ToSet(shared.proofs)) /\ Quieted(tab')
  <2>1. CASE rows = <<>>
    <3>1. tab' = tab
      BY <1>1, <2>1 DEF restoreMessageMaintenanceAdvice
    <3>2. QED
      BY <1>2, <1>3, <3>1 DEF Follows
  <2>2. CASE rows # <<>>
    <3>1. PICK p : p = Proven(tab, shared.proofs)
      OBVIOUS
    <3>2. /\ p \in TabRecords(Known) /\ p.never = ToSet(shared.proofs) /\ p.memory = tab.memory
          /\ p.consumed = tab.consumed /\ Durable(p) = Durable(tab) /\ HeldBy(p) = HeldBy(tab) /\ UsedUp(p) = UsedUp(tab)
      BY <1>3, <1>4, <3>1, ProvenIs
    <3>3. PICK more : more = ToSet(rows) \ (tab.consumed \intersect Durable(tab))
      OBVIOUS
    <3>4. tab' \in TabRecords(Known) /\ Turns(p, tab', more)
      BY <1>1, <1>3, <1>4, <2>2, <3>1, <3>3, RestoreIs
    <3>5. more \intersect settledFor \subseteq p.consumed /\ NoKey \notin Durable(p)
      BY <1>2, <3>2, <3>3, <1>4, DurableIsKnown DEF Quieted
    <3>6. Quieted(p)
      BY <1>2, <3>2 DEF Quieted
    <3>7. Quieted(tab')
      BY <3>4, <3>5, <3>6, TurnsKeepQuiet
    <3>8. Follows(p, tab', p.never) /\ tab'.never = p.never
      BY <3>4, TurnsFollow
    <3>9. QED
      BY <3>2, <3>4, <3>7, <3>8 DEF Follows
  <2>3. QED
    BY <2>1, <2>2
<1>6. Known' = Known /\ OrderRecords' = OrderRecords /\ SharedRecords' = SharedRecords /\ Living' = Living /\ Standing' = Standing
  BY <1>1 DEF Known, Own, OrderRecords, SharedRecords, Living, Standing
<1>7. AdviceShape'
  <2>1. troubles' \in 0..MaxTroubles /\ tab'.never \subseteq 1..lastKey
    BY <1>1, <1>3, <1>4, <1>5, AdviceAssumption
  <2>2. QED
    BY <1>1, <1>2, <1>5, <1>6, <2>1 DEF AdviceShape
<1>8. OrderSteps'
  BY <1>1, <1>2 DEF OrderSteps
<1>9. PlanIsInformed'
  BY <1>1, <1>2, <1>6 DEF PlanIsInformed
<1>10. UnsentIsDead'
  BY <1>1, <1>2, <1>5, <1>6 DEF UnsentIsDead
<1>11. UsedIsDead'
  BY <1>1, <1>2, <1>5 DEF UsedIsDead, Follows
<1>12. StandingIsHeld'
  <2>1. ASSUME NEW k \in Standing \intersect Living PROVE k \in HeldBy(tab')
    <3>1. k \notin ToSet(shared.proofs)
      BY <1>2 DEF UnsentIsDead
    <3>2. QED
      BY <1>5, <3>1, FollowersHold
  <2>2. QED
    BY <1>6, <2>1 DEF StandingIsHeld
<1>13. Quieted(tab)' /\ AcknowledgedWasShown'
  BY <1>1, <1>2, <1>5 DEF Quieted, AcknowledgedWasShown
<1>14. QED
  BY <1>7, <1>8, <1>9, <1>10, <1>11, <1>12, <1>13 DEF AdviceInv

LEMMA AdviceMoves ==
  ASSUME AdviceInv, AdviceNext
  PROVE  AdviceInv'
<1>1. CASE \/ ElsewhereSaves \/ ElsewhereSends \/ Settles \/ RecordLost \/ LeaseRetired \/ MoodChanges
  BY <1>1, SavesElsewhereSafely, SendsElsewhereSafely, SettlesSafely, LosesTheRecordSafely, RetiresTheLeaseSafely,
     ChangesMoodSafely
<1>2. Writes \subseteq BOOLEAN
  BY DEF Writes
<1>3. CASE \E written \in Writes : \E k \in AdviceKeys : Advise(k, written)
  BY <1>2, <1>3, AdvisesSafely
<1>4. CASE \E written \in Writes : Discards(written)
  BY <1>2, <1>4, DiscardsSafely
<1>5. CASE \E written \in Writes : \E stopped \in BOOLEAN : AdviceRecorded(written, stopped)
  BY <1>2, <1>5, RecordsAdviceSafely
<1>6. CASE \E written \in Writes : Prepare(written)
  BY <1>2, <1>6, PreparesSafely
<1>7. CASE \E written \in Writes : Dispatch(written)
  BY <1>2, <1>7, DispatchesSafely
<1>8. CASE \E written \in Writes : \E deliberate \in BOOLEAN : PlanNew(deliberate, written)
  BY <1>2, <1>8, PlansAdviceSafely
<1>9. CASE \E written \in Writes : \E reload \in BOOLEAN : LoadRows(reload, written)
  <2>1. PICK written \in Writes, reload \in BOOLEAN : LoadRows(reload, written)
    BY <1>9
  <2>2. CASE reload = TRUE
    BY <1>2, <2>1, <2>2, ReloadsSafely
  <2>3. CASE reload = FALSE
    BY <1>2, <2>1, <2>3, RestoresSafely
  <2>4. QED
    BY <2>2, <2>3
<1>10. QED
  BY <1>1, <1>3, <1>4, <1>5, <1>6, <1>7, <1>8, <1>9 DEF AdviceNext

\* The types the run checks follow: what the tab holds are known commands.
LEMMA AdviceTyped ==
  ASSUME AdviceInv
  PROVE  AdviceTypeOK
<1>1. AdviceShape /\ OrderSteps
  BY DEF AdviceInv
<1>2. Numbered(Known) /\ ToSet(shared.proofs) \subseteq 1..lastKey /\ Known \subseteq 1..lastKey /\ lastKey \in Nat
  BY <1>1, KnownAreNumbered DEF Known, AdviceShape
<1>3. /\ tab \in TabRecords(Known) /\ tab.never \subseteq 1..lastKey
      /\ rows \in Seq(Known) /\ told \in Known \union {NoKey}
  BY <1>1 DEF AdviceShape
<1>4. /\ tab.memory \in MemoryRecords(Known) /\ tab.entry \in EntryRecords(Known)
      /\ tab.consumed \subseteq Known /\ tab.volatile \subseteq Known /\ tab.observed \in Seq(Known)
  BY <1>3 DEF TabRecords
<1>5. tab.memory.key \in Known \union {NoKey} /\ tab.entry.active \in Known \union {NoKey}
  BY <1>4 DEF MemoryRecords, EntryRecords
<1>6. ToSet(tab.observed) \subseteq Known /\ ToSet(rows) \subseteq Known
  BY <1>3, <1>4, ToSets
<1>7. Known \union {NoKey} \subseteq 0..lastKey
  BY <1>2 DEF NoKey
<1>8. shared.pend \in 0..lastKey /\ shared.receipt \in 0..lastKey
  BY <1>1 DEF AdviceShape, SharedRecords
<1>9. mood \in {"works", "full", "denied"} /\ troubles \in 0..MaxTroubles
      /\ order.step \in {"none", "planned", "saved", "sent"}
  BY <1>1 DEF AdviceShape, OrderRecords
<1>10. tab.memory.key \in 0..lastKey /\ tab.entry.active \in 0..lastKey /\ told \in 0..lastKey
  BY <1>3, <1>5, <1>7
<1>11. tab.consumed \union tab.volatile \union tab.never \union ToSet(tab.observed) \union ToSet(rows) \subseteq 1..lastKey
  BY <1>2, <1>3, <1>4, <1>6
<1>12. QED
  BY <1>2, <1>8, <1>9, <1>10, <1>11 DEF AdviceTypeOK

\* A step that is none.
LEMMA AdviceRests ==
  ASSUME AdviceInv, UNCHANGED adviceVars
  PROVE  AdviceInv'
<1>1. /\ shared' = shared /\ lastKey' = lastKey /\ tab' = tab /\ mood' = mood /\ rows' = rows /\ told' = told
      /\ order' = order /\ troubles' = troubles /\ everSent' = everSent /\ advised' = advised
      /\ settledFor' = settledFor /\ blind' = blind /\ rash' = rash
  BY DEF adviceVars
<1>2. Known' = Known /\ SharedRecords' = SharedRecords /\ OrderRecords' = OrderRecords
      /\ Living' = Living /\ Standing' = Standing
  BY <1>1 DEF Known, Own, SharedRecords, OrderRecords, Living, Standing
<1>3. AdviceShape' /\ OrderSteps'
  BY <1>1, <1>2 DEF AdviceInv, AdviceShape, OrderSteps
<1>4. UnsentIsDead' /\ UsedIsDead' /\ StandingIsHeld' /\ PlanIsInformed'
  BY <1>1, <1>2 DEF AdviceInv, UnsentIsDead, UsedIsDead, StandingIsHeld, PlanIsInformed
<1>5. Quieted(tab)' /\ AcknowledgedWasShown'
  BY <1>1 DEF AdviceInv, Quieted, AcknowledgedWasShown
<1>6. QED
  BY <1>3, <1>4, <1>5 DEF AdviceInv

LEMMA AdviceStepsSafely ==
  ASSUME AdviceInv, [AdviceNext]_adviceVars
  PROVE  AdviceInv'
BY AdviceMoves, AdviceRests

\* Advice about a command that was sent keeps its tab from planning the next one until it is
\* acknowledged, what was acknowledged does not come back, and nothing is acknowledged that
\* the plan has not shown (retireUnsent..., consume... and restoreMessageMaintenanceAdvice of
\* ai/toolExecutor/maintenanceRecoveryIntent.ts), for any number of commands, reloads and
\* failures of the storage.
THEOREM AdviceHeeded == AdviceSpec => [](AdviceStands /\ AcknowledgedIsQuiet /\ AcknowledgedWasShown)
<1>1. AdviceInit => AdviceInv
  BY AdviceBegins
<1>2. AdviceInv /\ [AdviceNext]_adviceVars => AdviceInv'
  BY AdviceStepsSafely
<1>3. AdviceInv => AdviceStands /\ AcknowledgedIsQuiet /\ AcknowledgedWasShown
  BY AdviceAnswers
<1>4. QED
  BY <1>1, <1>2, <1>3, PTL DEF AdviceSpec

-----------------------------------------------------------------------------
(* Side by side *)

\* Of the components that are put side by side only the chosen one moves.
LEMMA ChosenMoves ==
  ASSUME [RecordsNext]_recordsVars
  PROVE  /\ part' = part
         /\ [Next]_vars
         /\ part = "legacy" => [LegacyNext]_legacyVars
         /\ part = "advice" => [AdviceNext]_adviceVars
         /\ part = "transcripts" => [TranscriptNext]_transcriptVars
         /\ part # "transcripts" => UNCHANGED transcriptVars
<1>1. ProtocolActs => part = "protocol" /\ part' = part /\ UNCHANGED transcriptVars
  BY DEF ProtocolActs, ProtocolPart, ProtocolAlone
<1>2. LegacyActs => part = "legacy" /\ part' = part /\ UNCHANGED <<vars, transcriptVars>>
  BY DEF LegacyActs, LegacyPart, LegacyAlone
<1>3. AdviceActs => part = "advice" /\ part' = part /\ UNCHANGED <<vars, transcriptVars>>
  BY DEF AdviceActs, AdvicePart, AdviceAlone
<1>4. TranscriptActs => part = "transcripts" /\ part' = part /\ UNCHANGED vars
  BY DEF TranscriptActs, TranscriptsPart, TranscriptsAlone
<1>5. LegacyActs => LegacyNext
  BY DEF LegacyActs, LegacyNext
<1>6. TranscriptActs => TranscriptNext
  BY DEF TranscriptActs, TranscriptNext
<1>7. ProtocolActs => Next
  BY DEF ProtocolActs, Next
<1>8. AdviceActs => AdviceNext
  <2>1. ASSUME NEW written \in IF part = "advice" THEN Writes ELSE {}
        PROVE  written \in Writes
    BY <2>1
  <2>2. QED
    BY <2>1 DEF AdviceActs, AdviceNext
<1>9. CASE UNCHANGED recordsVars
  BY <1>9 DEF recordsVars
<1>10. CASE RecordsNext
  BY <1>1, <1>2, <1>3, <1>4, <1>5, <1>6, <1>7, <1>8, <1>10 DEF RecordsNext
<1>11. QED
  BY <1>9, <1>10

\* The commands move as they do alone, also while another part has the behaviour.
LEMMA CommandsHoldBeside == RecordsSpec => [](CommandInv /\ CacheInv)
<1>1. RecordsInit => CommandInv /\ CacheInv
  BY CommandInit, CacheInit DEF RecordsInit
<1>2. CommandInv /\ CacheInv /\ [RecordsNext]_recordsVars => CommandInv' /\ CacheInv'
  BY ChosenMoves, CommandNext, CacheNext
<1>3. QED
  BY <1>1, <1>2, PTL DEF RecordsSpec

\* UnsettledHasItsHandle, RecordsAreTrue and ResultsHaveRoom, as the run of the records checks
\* them.
THEOREM CommandsHoldAside == RecordsSpec => [](UnsettledHasItsHandle /\ RecordsAreTrue /\ ResultsHaveRoom)
<1>1. QED
  BY CommandsAnswer, CacheAnswers, CommandsHoldBeside, PTL

\* AnswersAreTrue, as the run of the records checks it: with pages that die at any await of a
\* command, and the records excused that such a death leaves unmarked.
THEOREM AnswersHoldAside == RecordsSpec => []AnswersAreTrue
<1> DEFINE Inv == part = "legacy" => LegacyInv
<1>1. RecordsInit => Inv
  BY LegacyStartsSafely DEF RecordsInit
<1>2. Inv /\ [RecordsNext]_recordsVars => Inv'
  BY ChosenMoves, LegacyStepsSafely
<1>3. Inv => AnswersAreTrue
  BY LegacyAnswers DEF AnswersAreTrue
<1>4. QED
  BY <1>1, <1>2, <1>3, PTL DEF RecordsSpec

LEMMA AdviceHoldsAside == RecordsSpec => [](part = "advice" => AdviceInv)
<1> DEFINE Inv == part = "advice" => AdviceInv
<1>1. RecordsInit => Inv
  BY AdviceBegins DEF RecordsInit
<1>2. Inv /\ [RecordsNext]_recordsVars => Inv'
  BY ChosenMoves, AdviceStepsSafely
<1>3. QED
  BY <1>1, <1>2, PTL DEF RecordsSpec

\* AdviceIsHeeded, as the run of the records checks it.
THEOREM AdviceHeededAside == RecordsSpec => []AdviceIsHeeded
<1>1. (part = "advice" => AdviceInv) => AdviceIsHeeded
  BY AdviceAnswers DEF AdviceIsHeeded
<1>2. QED
  BY <1>1, AdviceHoldsAside, PTL

LEMMA TranscriptsHoldAside == RecordsSpec => [](part = "transcripts" => TranscriptInv)
<1> DEFINE Inv == part = "transcripts" => TranscriptInv
<1>1. RecordsInit => Inv
  BY TranscriptsStartSafely DEF RecordsInit
<1>2. Inv /\ [RecordsNext]_recordsVars => Inv'
  BY ChosenMoves, TranscriptsStepSafely
<1>3. QED
  BY <1>1, <1>2, PTL DEF RecordsSpec

\* RowsAreOwn, as the run of the records checks it.
THEOREM RowsStayOwnAside == RecordsSpec => []RowsAreOwn
<1>1. (part = "transcripts" => TranscriptInv) => RowsAreOwn
  BY TranscriptsOwned DEF RowsAreOwn
<1>2. QED
  BY <1>1, TranscriptsHoldAside, PTL

\* RowsAreOnDisk, as the run of the records checks it.
THEOREM CopiesAgreeAside == RecordsSpec => []RowsAreOnDisk
<1>1. (part = "transcripts" => TranscriptInv) => RowsAreOnDisk
  BY TranscriptsOnDisk DEF RowsAreOnDisk
<1>2. QED
  BY <1>1, TranscriptsHoldAside, PTL

\* NewerBuildsStand, as the run of the records checks it.
THEOREM NewerBuildsStayAside == RecordsSpec => NewerBuildsStand
<1> DEFINE Counted == part = "transcripts" => clears \in Nat
<1>1. RecordsInit => Counted
  BY DEF RecordsInit, TranscriptInit
<1>2. Counted /\ [RecordsNext]_recordsVars => Counted' /\ (part = "transcripts" => KeepsNewerBuilds)
  BY ChosenMoves, NewerStays
<1>3. QED
  BY <1>1, <1>2, PTL DEF RecordsSpec, NewerBuildsStand

\* RecordsTypeOK, as the run of the records checks it: the types of every part, by the
\* invariant of that part.
THEOREM RecordsStayTyped == RecordsSpec => []RecordsTypeOK
<1> DEFINE LegacyKept == part = "legacy" => LegacyInv
           AdviceKept == part = "advice" => AdviceInv
           RowsKept == part = "transcripts" => TranscriptInv
<1>1. RecordsSpec => []LegacyKept
  <2>1. RecordsInit => LegacyKept
    BY LegacyStartsSafely DEF RecordsInit
  <2>2. LegacyKept /\ [RecordsNext]_recordsVars => LegacyKept'
    BY ChosenMoves, LegacyStepsSafely
  <2>3. QED
    BY <2>1, <2>2, PTL DEF RecordsSpec
<1>2. CommandInv => TypeOK
  BY CommandsTyped
<1>3. LegacyKept => (part = "legacy" => LegacyTypeOK)
  BY LegacyTyped
<1>4. AdviceKept => (part = "advice" => AdviceTypeOK)
  BY AdviceTyped
<1>5. RowsKept => (part = "transcripts" => TranscriptTypeOK)
  BY TranscriptsTyped
<1>6. CommandInv /\ LegacyKept /\ AdviceKept /\ RowsKept => RecordsTypeOK
  BY <1>2, <1>3, <1>4, <1>5 DEF RecordsTypeOK
<1>7. QED
  BY <1>1, <1>6, CommandsHoldBeside, AdviceHoldsAside, TranscriptsHoldAside, PTL
=============================================================================
