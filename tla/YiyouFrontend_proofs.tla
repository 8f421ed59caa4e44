------------------------- MODULE YiyouFrontend_proofs -------------------------
(***************************************************************************)
(* Proofs about the terminal tool and its backend for every set of         *)
(* positions and drives, however often either process is interrupted,      *)
(* killed or without power: the zero records tell the truth, and homing    *)
(* relies on them only where they do.                                      *)
(***************************************************************************)
EXTENDS YiyouFrontend, TLAPS

\* Where the two processes are, and what they tell each other.
FePlaces == {"off", "ready", "loop", "act", "keys", "remove", "removed", "zero", "persist",
             "persisted", "leaving", "cleanup", "exit", "term"}
BePlaces == {"off", "starting", "serving", "begin", "moving", "saving", "saved", "stopping", "ending"}
Commands == [name : {"quit", "hold", "home", "step", "zero"}, s : Slaves \cup {All}]
Replies == {"ready", "done", "rejected", "zero done"}
Events == {"error"} \cup Replies
Records == [Slaves -> Drives \cup {NoDrive}]

FrontendType ==
    [at : FePlaces, mode : {"jog", "home"}, asked : SUBSET Slaves, known : SUBSET Slaves,
     busy : BOOLEAN, was : BOOLEAN, key : Keys, s : Slaves \cup {All}]

BackendType == [at : BePlaces, cmd : Commands, end : {"orderly", "failed", "killed"}]

ToolTypeOK ==
    /\ fe \in FrontendType /\ be \in BackendType
    /\ line \in Seq(Commands) /\ events \in Seq(Events)
    /\ file \in Records /\ synced \in Records
    /\ drive \in [Slaves -> Drives]
    /\ zeroed \in SUBSET Drives /\ begun \in [Drives -> SUBSET Slaves]

\* A command is on its way to the backend, is carried out, or its reply is on its
\* way back; quit has none.  The start of the backend counts as one.
Sent(i) == i \in DOMAIN line /\ line[i].name # "quit"
Working == be.at \in {"begin", "moving", "saving", "saved"}
CarriedOut == be.at = "starting" \/ (Working /\ be.cmd.name # "quit")
Replied(i) == i \in DOMAIN events /\ events[i] \in Replies

\* At most one command is outstanding at a time ...
OneOutstanding ==
    /\ \A i, j \in Nat : Sent(i) /\ Sent(j) => i = j
    /\ \A i, j \in Nat : Replied(i) /\ Replied(j) => i = j
    /\ \A i, j \in Nat : ~ (Sent(i) /\ Replied(j))
    /\ CarriedOut => \A i \in Nat : ~ Sent(i) /\ ~ Replied(i)

\* ... and none where the frontend may send one or has just got the reply.
NoneOutstanding == ~ CarriedOut /\ \A i \in Nat : ~ Sent(i) /\ ~ Replied(i)
Choosing == {"keys", "remove", "removed", "zero"}
QuietFirst ==
    /\ fe.at \in {"persist", "persisted"} \cup Choosing => NoneOutstanding
    /\ fe.at \in {"loop", "act"} /\ ~ fe.busy => NoneOutstanding
    /\ fe.at = "act" /\ ~ fe.was => ~ fe.busy
    /\ fe.at \in Choosing => fe.mode = "jog"

\* A position whose zero was commanded has no record until the drive has it ...
Cleared(s) == s \in Slaves /\ file[s] = NoDrive /\ synced[s] = NoDrive
Concerns(s) == fe.at # "off" => fe.s = s /\ fe.mode = "jog"
ZeroCommanded ==
    /\ \A i \in DOMAIN line :
          line[i].name = "zero" => Cleared(line[i].s) /\ Concerns(line[i].s)
    /\ Working /\ be.cmd.name = "zero" =>
          /\ Cleared(be.cmd.s) /\ Concerns(be.cmd.s)
          /\ be.at = "saved" => drive[be.cmd.s] \in zeroed
    /\ Working => /\ be.at \in {"saving", "saved"} => be.cmd.name = "zero"
                  /\ be.at = "moving" => be.cmd.name # "quit"

\* ... which the frontend learns from the reply.
Recording == {"persist", "persisted"}
ZeroDone == fe.at # "off" /\ \E i \in DOMAIN events : events[i] = "zero done"
ZeroKnown ==
    /\ fe.at \in {"remove", "removed", "zero"} => fe.s \in Slaves
    /\ fe.at = "removed" => file[fe.s] = NoDrive
    /\ fe.at = "zero" => Cleared(fe.s)
    /\ fe.at \in Recording \/ ZeroDone => fe.s \in Slaves /\ drive[fe.s] \in zeroed

\* Homing is asked for by a tool that has verified every record, and verified
\* drives keep their zero.
HomeAsked ==
    \/ \E i \in DOMAIN line : line[i].name = "home"
    \/ Working /\ be.cmd.name = "home"
HomeCovered ==
    fe.at # "off" =>
        /\ HomeAsked => fe.mode = "home" /\ HomeVerified
        /\ fe.mode = "home" => \A s \in fe.known : Vouched(drive[s], s)

ToolInv ==
    /\ ToolTypeOK /\ OneOutstanding /\ QuietFirst
    /\ ZeroCommanded /\ ZeroKnown /\ HomeCovered /\ RecordTruthful

------------------------------------------------------------------------------
(* Lemmas about steps of one kind *)

LEMMA Appended ==
  ASSUME NEW S, NEW q \in Seq(S), NEW x \in S
  PROVE  /\ Append(q, x) \in Seq(S)
         /\ \A i \in DOMAIN Append(q, x) :
               \/ i \in DOMAIN q /\ Append(q, x)[i] = q[i]
               \/ i = Len(q) + 1 /\ Append(q, x)[i] = x
  OBVIOUS

LEMMA Empty ==
  ASSUME NEW S, NEW q, q = <<>>
  PROVE  q \in Seq(S) /\ \A i \in DOMAIN q : FALSE
  <1>1. q \in Seq(S) /\ Len(q) = 0
    OBVIOUS
  <1> QED
    BY <1>1

\* Without a reply no zero is done.
LEMMA NoReply ==
  ASSUME NEW q \in Seq(Events), \A i \in Nat : ~ (i \in DOMAIN q /\ q[i] \in Replies)
  PROVE  ~ \E i \in DOMAIN q : q[i] = "zero done"
  <1>1. \A i \in DOMAIN q : i \in Nat
    OBVIOUS
  <1> QED
    BY <1>1 DEF Replies

LEMMA ToolInitHolds == Init => ToolInv
  <1> SUFFICES ASSUME Init PROVE ToolInv
    OBVIOUS
  <1> USE DEF Init, Off, Ended, NoCommand, Command
  <1>1. fe \in FrontendType /\ be \in BackendType
    BY DEF FrontendType, BackendType, FePlaces, BePlaces, Commands, Keys
  <1>2. line \in Seq(Commands) /\ events \in Seq(Events)
    OBVIOUS
  <1>3. file \in Records /\ synced \in Records /\ zeroed \in SUBSET Drives
    BY DEF Records
  <1>4. drive \in [Slaves -> Drives] /\ begun \in [Drives -> SUBSET Slaves]
    BY DEF Mounted
  <1>5. fe.at = "off" /\ be.at = "off" /\ line = <<>> /\ events = <<>>
    OBVIOUS
  <1>6. \A s \in Slaves : file[s] = NoDrive /\ synced[s] = NoDrive
    OBVIOUS
  <1> HIDE DEF Init, Off, Ended, NoCommand, Command
  <1>7. OneOutstanding
    BY <1>5 DEF OneOutstanding, Sent, Replied, CarriedOut, Working
  <1>8. RecordTruthful
    BY <1>6 DEF Vouched, RecordTruthful
  <1> QED
    BY <1>1, <1>2, <1>3, <1>4, <1>5, <1>7, <1>8 DEF ToolInv, ToolTypeOK, QuietFirst,
       Choosing, ZeroCommanded, ZeroKnown, ZeroDone, Recording, HomeCovered, Working

\* The fields of the frontend that belong to its whole run.
Kept == fe'.s = fe.s /\ fe'.mode = fe.mode /\ fe'.asked = fe.asked /\ fe'.known = fe.known

LEMMA FeAtKeeps ==
  ASSUME ToolInv, NEW at \in FePlaces, FeAt(at)
  PROVE  /\ fe' \in FrontendType /\ fe'.at = at /\ Kept
         /\ at \notin Ending => fe'.busy = fe.busy
         /\ at \in InRound => fe'.was = fe.was
  <1>1. fe' = [fe EXCEPT !.at = at, !.key = IF at \in InRound THEN fe.key ELSE "none",
                        !.was = fe.was /\ at \in InRound, !.busy = fe.busy /\ at \notin Ending]
    BY DEF FeAt, ToolInv, ToolTypeOK, FrontendType
  <1>2. /\ (IF at \in InRound THEN fe.key ELSE "none") \in Keys
        /\ (fe.was /\ at \in InRound) \in BOOLEAN /\ (fe.busy /\ at \notin Ending) \in BOOLEAN
    BY DEF ToolInv, ToolTypeOK, FrontendType, Keys
  <1>3. fe' \in FrontendType /\ fe'.at = at /\ Kept
    BY <1>1, <1>2 DEF ToolInv, ToolTypeOK, FrontendType, Kept
  <1>4. fe'.busy = (fe.busy /\ at \notin Ending) /\ fe'.was = (fe.was /\ at \in InRound)
    BY <1>1 DEF ToolInv, ToolTypeOK, FrontendType
  <1>5. fe.busy \in BOOLEAN /\ fe.was \in BOOLEAN
    BY DEF ToolInv, ToolTypeOK, FrontendType
  <1> QED
    BY <1>3, <1>4, <1>5

\* The frontend goes on without a word to the backend or to the file.
LEMMA MoveKeeps ==
  ASSUME ToolInv, fe.at # "off", fe' \in FrontendType, Kept,
         UNCHANGED <<be, line, events, file, synced, drive, zeroed, begun>>,
         QuietFirst', ZeroKnown'
  PROVE  ToolInv'
  <1> USE DEF ToolInv
  <1>1. ToolTypeOK' /\ RecordTruthful'
    BY DEF ToolTypeOK, Vouched, RecordTruthful, Records
  <1>2. OneOutstanding'
    BY DEF OneOutstanding, Sent, Replied, CarriedOut, Working
  <1>3. ZeroCommanded'
    BY DEF ZeroCommanded, Cleared, Concerns, Working, Kept
  <1>4. HomeCovered'
    BY DEF HomeCovered, HomeAsked, HomeVerified, Vouched, Working, Kept
  <1> QED
    BY <1>1, <1>2, <1>3, <1>4

\* The frontend goes where it neither sends nor records.
Resting == {"loop", "act", "leaving", "cleanup", "exit", "term"}
LEMMA RestKeeps ==
  ASSUME ToolInv, fe.at # "off", fe' \in FrontendType, Kept,
         UNCHANGED <<be, line, events, file, synced, drive, zeroed, begun>>,
         fe'.at \in Resting, fe'.at \in {"loop", "act"} => QuietFirst'
  PROVE  ToolInv'
  <1> USE DEF ToolInv, Resting
  <1>1. QuietFirst'
    BY DEF QuietFirst, Choosing
  <1>2. ZeroKnown'
    BY DEF ZeroKnown, ZeroDone, Recording, Kept
  <1> QED
    BY <1>1, <1>2, MoveKeeps

\* The frontend is gone.
LEMMA GoneKeeps ==
  ASSUME ToolInv, Gone, UNCHANGED <<be, line, file, synced, drive, zeroed, begun>>
  PROVE  ToolInv'
  <1> USE DEF ToolInv
  <1>1. fe' \in FrontendType /\ fe'.at = "off" /\ events' = <<>>
    BY DEF Gone, Off, FrontendType, FePlaces, Keys
  <1>2. ToolTypeOK' /\ RecordTruthful'
    BY <1>1 DEF ToolTypeOK, Vouched, RecordTruthful, Records
  <1>3. OneOutstanding'
    BY <1>1 DEF OneOutstanding, Sent, Replied, CarriedOut, Working
  <1>4. ZeroCommanded'
    BY <1>1 DEF ZeroCommanded, Cleared, Concerns, Working
  <1> QED
    BY <1>1, <1>2, <1>3, <1>4 DEF QuietFirst, Choosing, ZeroKnown, ZeroDone, Recording, HomeCovered

\* A command that is sent while none is outstanding.
LEMMA SendKeeps ==
  ASSUME ToolInv, ~ CarriedOut, \A i \in Nat : ~ Sent(i) /\ ~ Replied(i)', fe.at # "off",
         NEW name \in {"hold", "home", "step", "zero"}, NEW s \in Slaves \cup {All},
         Send(name, s),
         name = "zero" => Cleared(s) /\ fe.s = s /\ fe.mode = "jog",
         name = "home" => fe.mode = "home" /\ HomeVerified,
         events' \in Seq(Events),
         UNCHANGED <<be, file, synced, drive, zeroed, begun>>
  PROVE  ToolInv'
  <1> USE DEF ToolInv
  <1>1. /\ fe' \in FrontendType /\ Kept
        /\ \/ fe'.at = "cleanup" /\ line' = line
           \/ fe'.at = "loop" /\ fe'.busy /\ line' = Append(line, Command(name, s))
    <2>1. CASE FeAt("cleanup") /\ line' = line
      BY <2>1, FeAtKeeps DEF FePlaces
    <2>2. CASE /\ line' = Append(line, Command(name, s))
               /\ fe' = [fe EXCEPT !.at = "loop", !.busy = TRUE, !.key = "none",
                                    !.was = FALSE]
      BY <2>2 DEF ToolTypeOK, FrontendType, FePlaces, Keys, Kept
    <2> QED
      BY <2>1, <2>2 DEF Send
  <1> DEFINE c == Command(name, s)
  <1>2. c \in Commands /\ c.name = name /\ c.s = s
    BY DEF Command, Commands
  <1> HIDE DEF c
  <1>3. line \in Seq(Commands)
    BY DEF ToolTypeOK
  <1>4. /\ line' \in Seq(Commands)
        /\ \A i \in DOMAIN line' :
              \/ i \in DOMAIN line /\ line'[i] = line[i]
              \/ i = Len(line) + 1 /\ line'[i] = c
    <2>1. CASE line' = line
      BY <1>3, <2>1
    <2>2. CASE line' = Append(line, c)
      BY <1>2, <1>3, <2>2, Appended
    <2> QED
      BY <1>1, <2>1, <2>2 DEF c
  <1>5. ToolTypeOK' /\ RecordTruthful'
    BY <1>1, <1>4 DEF ToolTypeOK, Vouched, RecordTruthful, Records
  <1>7. \A i \in Nat : Sent(i)' => i = Len(line) + 1
    BY <1>4 DEF Sent
  <1>8. OneOutstanding'
    BY <1>3, <1>7 DEF OneOutstanding, CarriedOut, Working
  <1>9. QuietFirst'
    BY <1>1 DEF QuietFirst, Choosing
  <1>10. ~ ZeroDone'
    BY NoReply DEF ZeroDone, Replied
  <1>11. ZeroKnown'
    BY <1>1, <1>10 DEF ZeroKnown, Recording
  <1>12. ZeroCommanded'
    BY <1>1, <1>2, <1>4 DEF ZeroCommanded, Cleared, Concerns, Working, Kept
  <1>13. HomeCovered'
    BY <1>1, <1>2, <1>4 DEF HomeCovered, HomeAsked, HomeVerified, Vouched, Working, Kept
  <1> QED
    BY <1>5, <1>8, <1>9, <1>11, <1>12, <1>13

\* Another command leaves the frontend: quit, which ends its run.
LEMMA QuitKeeps ==
  ASSUME ToolInv, fe.at # "off", line' = Append(line, Command("quit", All)), FeAt("leaving"),
         UNCHANGED <<be, events, file, synced, drive, zeroed, begun>>
  PROVE  ToolInv'
  <1> USE DEF ToolInv
  <1>1. fe' \in FrontendType /\ fe'.at = "leaving" /\ Kept
    BY FeAtKeeps DEF FePlaces
  <1> DEFINE c == Command("quit", All)
  <1>2. c \in Commands /\ c.name = "quit"
    BY DEF Command, Commands
  <1>3. line \in Seq(Commands) /\ line' = Append(line, c)
    BY DEF ToolTypeOK
  <1> HIDE DEF c
  <1>4. /\ line' \in Seq(Commands)
        /\ \A i \in DOMAIN line : i \in DOMAIN line' /\ line'[i] = line[i]
        /\ \A i \in DOMAIN line' : (i \in DOMAIN line /\ line'[i] = line[i]) \/ line'[i] = c
    BY <1>2, <1>3, Appended
  <1>5. ToolTypeOK' /\ RecordTruthful'
    BY <1>1, <1>4 DEF ToolTypeOK, Vouched, RecordTruthful, Records
  <1>6. \A i \in Nat : (Sent(i)' => Sent(i)) /\ Replied(i)' = Replied(i)
    BY <1>2, <1>4 DEF Sent, Replied
  <1>7. OneOutstanding'
    BY <1>6 DEF OneOutstanding, CarriedOut, Working
  <1>8. QuietFirst' /\ ZeroKnown'
    BY <1>1 DEF QuietFirst, Choosing, ZeroKnown, ZeroDone, Recording, Kept
  <1>9. ZeroCommanded'
    BY <1>1, <1>2, <1>4 DEF ZeroCommanded, Cleared, Concerns, Working, Kept
  <1>10. HomeCovered'
    BY <1>1, <1>2, <1>4 DEF HomeCovered, HomeAsked, HomeVerified, Vouched, Working, Kept
  <1> QED
    BY <1>5, <1>7, <1>8, <1>9, <1>10

\* The backend leaves a command, perhaps with an event: a reply only to a command
\* it carried out, and that a zero is done only when it is.
LEMMA TellKeeps ==
  ASSUME ToolInv, UNCHANGED <<fe, file, synced, drive, zeroed, begun>>,
         line' = line \/ line' = <<>>,
         be' \in BackendType,
         be'.at \in {"off", "serving", "stopping", "ending"},
         NEW e \in Events,
         events' = events \/ events' = Append(events, e),
         e \in Replies => CarriedOut,
         e = "zero done" => be.cmd.name = "zero" /\ be.at = "saved"
  PROVE  ToolInv'
  <1> USE DEF ToolInv
  <1>0. events \in Seq(Events)
    BY DEF ToolTypeOK
  <1>1. /\ line' \in Seq(Commands)
        /\ \A i \in DOMAIN line' : i \in DOMAIN line /\ line'[i] = line[i]
    <2>1. CASE line' = line
      BY <2>1 DEF ToolTypeOK
    <2>2. CASE line' = <<>>
      BY <2>2, Empty
    <2> QED
      BY <2>1, <2>2
  <1>2. /\ events' \in Seq(Events)
        /\ \A i \in DOMAIN events' :
              \/ i \in DOMAIN events /\ events'[i] = events[i]
              \/ i = Len(events) + 1 /\ events'[i] = e
    <2>1. CASE events' = events
      BY <1>0, <2>1
    <2>2. CASE events' = Append(events, e)
      BY <1>0, <2>2, Appended
    <2> QED
      BY <2>1, <2>2
  <1>3. ToolTypeOK' /\ RecordTruthful'
    BY <1>1, <1>2 DEF ToolTypeOK, Vouched, RecordTruthful, Records
  <1>4. ~ Working' /\ ~ CarriedOut'
    BY DEF CarriedOut, Working
  <1>5. \A i \in Nat : Sent(i)' => Sent(i)
    BY <1>1 DEF Sent
  <1>6. \A i \in Nat : Replied(i)' => Replied(i) \/ (i = Len(events) + 1 /\ CarriedOut)
    BY <1>2 DEF Replied
  <1>7. OneOutstanding'
    BY <1>0, <1>4, <1>5, <1>6 DEF OneOutstanding
  <1>8. QuietFirst'
    BY <1>4, <1>5, <1>6 DEF QuietFirst, NoneOutstanding, Choosing
  <1>9. ZeroCommanded'
    BY <1>1, <1>4 DEF ZeroCommanded, Cleared, Concerns
  <1>10. ZeroKnown'
    <2>1. ZeroDone' => ZeroDone \/ (fe.at # "off" /\ e = "zero done")
      BY <1>2 DEF ZeroDone
    <2>2. fe.at # "off" /\ e = "zero done" => fe.s \in Slaves /\ drive[fe.s] \in zeroed
      BY DEF ZeroCommanded, Cleared, Concerns, Working
    <2> QED
      BY <2>1, <2>2 DEF ZeroKnown, Recording, Cleared
  <1>11. HomeCovered'
    BY <1>1, <1>4 DEF HomeCovered, HomeAsked, HomeVerified, Vouched
  <1> QED
    BY <1>3, <1>7, <1>8, <1>9, <1>10, <1>11

LEMMA BeAtKeeps ==
  ASSUME ToolInv, NEW at \in BePlaces, BeAt(at)
  PROVE  /\ be' \in BackendType /\ be'.at = at
         /\ at \in {"moving", "saving", "saved"} => be'.cmd = be.cmd
  BY DEF BeAt, ToolInv, ToolTypeOK, BackendType, NoCommand, Command, Commands

LEMMA TellStep ==
  ASSUME ToolInv, UNCHANGED <<fe, line, file, synced, drive, zeroed, begun>>,
         NEW e \in Events, NEW at \in {"serving", "stopping"},
         Tell(e, at),
         e \in Replies => CarriedOut,
         e = "zero done" => be.cmd.name = "zero" /\ be.at = "saved"
  PROVE  ToolInv'
  <1>1. /\ be' \in BackendType /\ be'.at \in {"serving", "stopping"}
        /\ events' = events \/ events' = Append(events, e)
    BY BeAtKeeps DEF Tell, BePlaces
  <1> QED
    BY <1>1, TellKeeps

------------------------------------------------------------------------------
(* The steps of the frontend *)

LEMMA FeStartsPreserves == ToolInv /\ FeStarts => ToolInv'
  <1> SUFFICES ASSUME ToolInv, FeStarts PROVE ToolInv'
    OBVIOUS
  <1> USE DEF ToolInv
  <1>1. PICK mode \in {"jog", "home"}, asked \in SUBSET Slaves \ {{}} :
           /\ mode = "home" => \A s \in asked : file[s] # NoDrive
           /\ fe' = [Off EXCEPT !.at = "ready", !.mode = mode, !.asked = asked,
                                !.known = {s \in asked : mode = "home" /\ file[s] = drive[s]}]
    BY DEF FeStarts
  <1> DEFINE known == {s \in asked : mode = "home" /\ file[s] = drive[s]}
  <1>2. fe' = [at |-> "ready", mode |-> mode, asked |-> asked, known |-> known, busy |-> FALSE,
               was |-> FALSE, key |-> "none", s |-> All]
    BY <1>1 DEF Off
  <1>3. known \in SUBSET Slaves /\ asked \in SUBSET Slaves
    BY <1>1
  <1>4. mode = "home" => \A s \in known : Vouched(drive[s], s)
    <2> SUFFICES ASSUME mode = "home", NEW s \in known PROVE Vouched(drive[s], s)
      OBVIOUS
    <2>1. s \in Slaves /\ file[s] = drive[s] /\ file[s] # NoDrive
      BY <1>1
    <2> QED
      BY <2>1 DEF RecordTruthful
  <1> HIDE DEF known
  <1>5. /\ fe' \in FrontendType /\ fe'.at = "ready" /\ fe'.mode = mode /\ fe'.known = known
    BY <1>2, <1>3 DEF FrontendType, FePlaces, Keys
  <1>6. /\ line' = <<>> /\ events' = <<>> /\ be' = [be EXCEPT !.at = "starting", !.end = "orderly"]
        /\ UNCHANGED <<file, synced, drive, zeroed, begun>>
    BY DEF FeStarts, zeroVars
  <1>7. be' \in BackendType /\ be'.at = "starting"
    BY <1>6 DEF ToolTypeOK, BackendType, BePlaces
  <1>8. ToolTypeOK' /\ RecordTruthful'
    BY <1>5, <1>6, <1>7 DEF ToolTypeOK, Vouched, RecordTruthful, Records
  <1>9. OneOutstanding' /\ ~ Working'
    BY <1>6, <1>7 DEF OneOutstanding, Sent, Replied, CarriedOut, Working
  <1>10. QuietFirst' /\ ZeroKnown'
    <2>1. ~ ZeroDone'
      BY <1>6 DEF ZeroDone
    <2> QED
      BY <1>5, <2>1 DEF QuietFirst, Choosing, ZeroKnown, Recording
  <1>12. ZeroCommanded'
    BY <1>6, <1>9 DEF ZeroCommanded
  <1>11. HomeCovered'
    BY <1>4, <1>5, <1>6, <1>9 DEF HomeCovered, HomeAsked, Vouched
  <1> QED
    BY <1>8, <1>9, <1>10, <1>11, <1>12

LEMMA FeReadyPreserves == ToolInv /\ FeReady => ToolInv'
  <1> SUFFICES ASSUME ToolInv, FeReady PROVE ToolInv'
    OBVIOUS
  <1> USE DEF ToolInv
  <1>1. fe.at = "ready" /\ UNCHANGED <<be, file, synced, drive, zeroed, begun>>
    BY DEF FeReady, beVars, zeroVars
  <1>3. CASE FeAt("cleanup") /\ UNCHANGED <<events, line>>
    BY <1>1, <1>3, FeAtKeeps, RestKeeps DEF Resting, FePlaces
  <1>4. CASE events # <<>> /\ Head(events) = "ready" /\ events' = Tail(events)
    <2>1. /\ events' \in Seq(Events)
          /\ \A i \in DOMAIN events' : i + 1 \in DOMAIN events /\ events'[i] = events[i + 1]
      BY <1>4 DEF ToolTypeOK
    <2>7. Replied(1)
      <3>1. events \in Seq(Events)
        BY DEF ToolTypeOK
      <3>2. 1 \in DOMAIN events /\ events[1] = "ready"
        BY <1>4, <3>1
      <3> QED
        BY <3>2 DEF Replied, Replies
    <2>8. ~ CarriedOut /\ \A i \in Nat : ~ Sent(i)
      BY <2>7 DEF OneOutstanding
    <2>9. \A i \in Nat : ~ Replied(i)'
      <3> SUFFICES ASSUME NEW i \in Nat, Replied(i)' PROVE FALSE
        OBVIOUS
      <3>1. Replied(i + 1) /\ i # 0
        BY <2>1 DEF Replied
      <3> QED
        BY <2>7, <3>1 DEF OneOutstanding
    <2>2. ~ CarriedOut /\ \A i \in Nat : ~ Sent(i) /\ ~ Replied(i)'
      BY <2>8, <2>9
    <2>3. CASE Send("hold", All)
      BY <1>1, <2>1, <2>2, <2>3, SendKeeps
    <2>4. CASE fe.mode = "home" /\ HomeVerified /\ Send("home", All)
      BY <1>1, <2>1, <2>2, <2>4, SendKeeps
    <2>5. CASE FeAt("cleanup") /\ UNCHANGED line
      <3>1. fe' \in FrontendType /\ fe'.at = "cleanup" /\ Kept
        BY <2>5, FeAtKeeps DEF FePlaces
      <3>2. \A i \in Nat : Sent(i)' = Sent(i) /\ ~ Replied(i)'
        BY <2>2, <2>5 DEF Sent
      <3>3. ToolTypeOK' /\ RecordTruthful'
        BY <1>1, <2>1, <2>5, <3>1 DEF ToolTypeOK, Vouched, RecordTruthful, Records
      <3>4. OneOutstanding'
        BY <1>1, <2>2, <3>2 DEF OneOutstanding, CarriedOut, Working
      <3>5. ~ ZeroDone'
        BY <2>1, <3>2, NoReply DEF ZeroDone, Replied
      <3>6. QuietFirst' /\ ZeroKnown'
        BY <3>1, <3>5 DEF QuietFirst, Choosing, ZeroKnown, Recording
      <3>7. ZeroCommanded' /\ HomeCovered'
        BY <1>1, <2>5, <3>1 DEF ZeroCommanded, Cleared, Concerns, HomeCovered, HomeAsked,
           HomeVerified, Vouched, Working, Kept
      <3> QED
        BY <3>3, <3>4, <3>6, <3>7
    <2>6. fe.mode \in {"jog", "home"}
      BY DEF ToolTypeOK, FrontendType
    <2> QED
      BY <1>1, <1>4, <2>3, <2>4, <2>5, <2>6 DEF FeReady
  <1> QED
    BY <1>3, <1>4 DEF FeReady

LEMMA FeReadsPreserves == ToolInv /\ FeReads => ToolInv'
  <1> SUFFICES ASSUME ToolInv, FeReads PROVE ToolInv'
    OBVIOUS
  <1>1. fe.at = "loop" /\ UNCHANGED <<be, line, events, file, synced, drive, zeroed, begun>>
    BY DEF FeReads, beVars, zeroVars
  <1>2. PICK key \in Keys : fe' = [fe EXCEPT !.at = "act", !.was = fe.busy, !.key = key]
    BY DEF FeReads
  <1>3. /\ fe' \in FrontendType /\ Kept /\ fe'.at = "act"
        /\ fe'.was = fe.busy /\ fe'.busy = fe.busy
    BY <1>2 DEF ToolInv, ToolTypeOK, FrontendType, FePlaces, Kept
  <1>4. QuietFirst'
    BY <1>1, <1>3 DEF ToolInv, QuietFirst, Choosing, NoneOutstanding, Sent, Replied,
       CarriedOut, Working
  <1> QED
    BY <1>1, <1>3, <1>4, RestKeeps DEF Resting

LEMMA FeQuitsPreserves == ToolInv /\ FeQuits => ToolInv'
  <1> SUFFICES ASSUME ToolInv, FeQuits PROVE ToolInv'
    OBVIOUS
  <1>1. fe.at = "act" /\ UNCHANGED <<be, events, file, synced, drive, zeroed, begun>>
    BY DEF FeQuits, beVars, zeroVars
  <1>2. CASE FeAt("cleanup") /\ UNCHANGED line
    BY <1>1, <1>2, FeAtKeeps, RestKeeps DEF Resting, FePlaces
  <1>3. CASE line' = Append(line, Command("quit", All)) /\ FeAt("leaving")
    BY <1>1, <1>3, QuitKeeps
  <1> QED
    BY <1>2, <1>3 DEF FeQuits

\* The reply that a zero is done leads to its record.
LEMMA FeHandlesPreserves == ToolInv /\ FeHandles => ToolInv'
  <1> SUFFICES ASSUME ToolInv, FeHandles PROVE ToolInv'
    OBVIOUS
  <1> USE DEF ToolInv
  <1> DEFINE e == Head(events)
  <1>1. /\ fe.at = "act" /\ events # <<>> /\ events' = Tail(events)
        /\ UNCHANGED <<be, line, file, synced, drive, zeroed, begun>>
    BY DEF FeHandles, beVars, zeroVars
  <1>2. /\ e \in Events /\ e = events[1] /\ 1 \in DOMAIN events
        /\ events' \in Seq(Events)
        /\ \A i \in DOMAIN events' : i + 1 \in DOMAIN events /\ events'[i] = events[i + 1]
    BY <1>1 DEF ToolTypeOK
  <1>3. /\ e = "error" => FeAt("cleanup")
        /\ e = "zero done" => FeAt("persist")
        /\ e \notin {"error", "zero done"} => fe' = [fe EXCEPT !.busy = FALSE]
    BY DEF FeHandles
  <1> HIDE DEF e
  <1>4. /\ fe' \in FrontendType /\ Kept
        /\ \/ e = "error" /\ fe'.at = "cleanup"
           \/ e = "zero done" /\ fe'.at = "persist"
           \/ e \in {"ready", "done", "rejected"} /\ fe'.at = "act" /\ ~ fe'.busy
    <2>0. fe \in FrontendType
      BY DEF ToolTypeOK
    <2>1. CASE e = "error"
      <3>1. FeAt("cleanup")
        BY <1>3, <2>1
      <3> QED
        BY <2>1, <3>1, FeAtKeeps DEF FePlaces
    <2>2. CASE e = "zero done"
      <3>1. FeAt("persist")
        BY <1>3, <2>2
      <3> QED
        BY <2>2, <3>1, FeAtKeeps DEF FePlaces
    <2>3. CASE e \notin {"error", "zero done"}
      <3>1. fe' = [fe EXCEPT !.busy = FALSE]
        BY <1>3, <2>3
      <3>2. e \in {"ready", "done", "rejected"}
        BY <1>2, <2>3 DEF Events, Replies
      <3> QED
        BY <1>1, <2>0, <3>1, <3>2 DEF FrontendType, FePlaces, Kept
    <2> QED
      BY <2>1, <2>2, <2>3
  <1>5. ToolTypeOK' /\ RecordTruthful'
    BY <1>1, <1>2, <1>4 DEF ToolTypeOK, Vouched, RecordTruthful, Records
  <1>6. \A i \in Nat : Sent(i)' = Sent(i) /\ (Replied(i)' => Replied(i + 1))
    BY <1>1, <1>2 DEF Sent, Replied
  <1>7. CarriedOut' = CarriedOut /\ Working' = Working
    BY <1>1 DEF CarriedOut, Working
  <1>8. OneOutstanding'
    BY <1>6, <1>7 DEF OneOutstanding
  <1>9. e \in Replies => NoneOutstanding'
    <2> SUFFICES ASSUME e \in Replies PROVE NoneOutstanding'
      OBVIOUS
    <2>1. Replied(1)
      BY <1>2 DEF Replied
    <2>2. ~ CarriedOut /\ \A i \in Nat : ~ Sent(i)
      BY <2>1 DEF OneOutstanding
    <2>3. \A i \in Nat : ~ Replied(i)'
      BY <1>2, <1>6, <2>1 DEF OneOutstanding, Replied
    <2> QED
      BY <1>6, <1>7, <2>2, <2>3 DEF NoneOutstanding
  <1>10. QuietFirst'
    BY <1>4, <1>9 DEF QuietFirst, Choosing, Replies
  <1>11. ZeroCommanded' /\ HomeCovered'
    BY <1>1, <1>4 DEF ZeroCommanded, Cleared, Concerns, HomeCovered, HomeAsked,
       HomeVerified, Vouched, Working, Kept
  <1>12. ZeroKnown'
    <2>1. fe'.at \in Recording \/ ZeroDone' => ZeroDone
      BY <1>1, <1>2, <1>4 DEF Recording, ZeroDone
    <2> QED
      BY <1>1, <1>4, <2>1 DEF ZeroKnown, Kept
  <1> QED
    BY <1>5, <1>8, <1>10, <1>11, <1>12

LEMMA FeHandledPreserves == ToolInv /\ FeHandled => ToolInv'
  <1> SUFFICES ASSUME ToolInv, FeHandled PROVE ToolInv'
    OBVIOUS
  <1>1. fe.at = "act" /\ UNCHANGED <<be, line, events, file, synced, drive, zeroed, begun>>
    BY DEF FeHandled, beVars, zeroVars
  <1>2. PICK at \in {"cleanup", "keys", "loop"} : FeAt(at) /\ (at = "keys" => KeysCount)
    BY DEF FeHandled
  <1>3. fe' \in FrontendType /\ fe'.at = at /\ Kept /\ (at = "loop" => fe'.busy = fe.busy)
    BY <1>2, FeAtKeeps DEF FePlaces, Ending
  <1>4. NoneOutstanding' = NoneOutstanding
    BY <1>1 DEF NoneOutstanding, Sent, Replied, CarriedOut, Working
  <1>5. QuietFirst'
    BY <1>1, <1>2, <1>3, <1>4 DEF ToolInv, QuietFirst, Choosing, KeysCount, Kept
  <1>6. ZeroKnown'
    BY <1>1, <1>2, <1>3 DEF ToolInv, ZeroKnown, ZeroDone, Recording, Kept
  <1> QED
    BY <1>1, <1>3, <1>5, <1>6, MoveKeeps

LEMMA FeKeysPreserves == ToolInv /\ FeKeys => ToolInv'
  <1> SUFFICES ASSUME ToolInv, FeKeys PROVE ToolInv'
    OBVIOUS
  <1> USE DEF ToolInv
  <1>1. fe.at = "keys" /\ UNCHANGED <<be, events, file, synced, drive, zeroed, begun>>
    BY DEF FeKeys, beVars, zeroVars
  <1>2. NoneOutstanding /\ fe.mode = "jog"
    BY <1>1 DEF QuietFirst, Choosing
  <1>4. CASE FeAt("loop") /\ UNCHANGED line
    <2>1. NoneOutstanding'
      BY <1>1, <1>2, <1>4 DEF NoneOutstanding, Sent, Replied, CarriedOut, Working
    <2>2. fe' \in FrontendType /\ fe'.at = "loop" /\ Kept
      BY <1>4, FeAtKeeps DEF FePlaces
    <2>3. QuietFirst'
      BY <2>1, <2>2 DEF QuietFirst, Choosing
    <2> QED
      BY <1>1, <1>4, <2>2, <2>3, RestKeeps DEF Resting
  <1>5. CASE line' = Append(line, Command("quit", All)) /\ FeAt("leaving")
    BY <1>1, <1>5, QuitKeeps
  <1>6. CASE FeAt("cleanup") /\ UNCHANGED line
    BY <1>1, <1>6, FeAtKeeps, RestKeeps DEF Resting, FePlaces
  <1>7. CASE \E s \in fe.asked : Send("step", s)
    <2>1. PICK s \in fe.asked : Send("step", s)
      BY <1>7
    <2>2. s \in Slaves \cup {All}
      BY DEF ToolTypeOK, FrontendType
    <2>3. ~ CarriedOut /\ \A i \in Nat : ~ Sent(i) /\ ~ Replied(i)'
      BY <1>1, <1>2 DEF NoneOutstanding, Replied
    <2>4. events' \in Seq(Events)
      BY <1>1 DEF ToolTypeOK
    <2> QED
      BY <1>1, <2>1, <2>2, <2>3, <2>4, SendKeeps
  <1>8. CASE UNCHANGED line /\ \E s \in fe.asked : fe' = [fe EXCEPT !.at = "remove", !.s = s]
    <2>1. PICK s \in fe.asked : fe' = [fe EXCEPT !.at = "remove", !.s = s]
      BY <1>8
    <2>2. /\ fe' \in FrontendType /\ fe'.at = "remove" /\ fe'.s = s /\ s \in Slaves
          /\ fe'.mode = fe.mode /\ fe'.asked = fe.asked /\ fe'.known = fe.known
      BY <2>1 DEF ToolTypeOK, FrontendType, FePlaces
    <2>3. ToolTypeOK' /\ RecordTruthful'
      BY <1>1, <1>8, <2>2 DEF ToolTypeOK, Vouched, RecordTruthful, Records
    <2>4. NoneOutstanding'
      BY <1>1, <1>2, <1>8 DEF NoneOutstanding, Sent, Replied, CarriedOut, Working
    <2>5. OneOutstanding' /\ QuietFirst'
      BY <1>2, <2>2, <2>4 DEF OneOutstanding, NoneOutstanding, QuietFirst, Choosing
    <2>6. ~ ZeroDone'
      BY <2>3, <2>4, NoReply DEF ToolTypeOK, NoneOutstanding, ZeroDone, Replied
    <2>7. ZeroKnown'
      BY <2>2, <2>6 DEF ZeroKnown, Recording
    <2>8. \A i \in DOMAIN line : line[i].name = "quit"
      BY <1>2 DEF NoneOutstanding, Sent, ToolTypeOK
    <2>9. Working => be.cmd.name = "quit"
      BY <1>2 DEF NoneOutstanding, CarriedOut
    <2>10. ZeroCommanded'
      BY <1>1, <1>8, <2>8, <2>9 DEF ZeroCommanded, Working
    <2>11. HomeCovered'
      BY <1>1, <1>2, <1>8, <2>2, <2>8, <2>9 DEF HomeCovered, HomeAsked, Working
    <2> QED
      BY <2>3, <2>5, <2>7, <2>10, <2>11
  <1> QED
    BY <1>4, <1>5, <1>6, <1>7, <1>8 DEF FeKeys

\* The record is gone, in the file and after a power cut, before the zero is commanded.
LEMMA FeRemovesPreserves == ToolInv /\ FeRemoves => ToolInv'
  <1> SUFFICES ASSUME ToolInv, FeRemoves PROVE ToolInv'
    OBVIOUS
  <1> USE DEF ToolInv
  <1>1. /\ UNCHANGED <<be, line, events, drive, zeroed, begun>>
        /\ \/ fe.at = "remove" /\ Replace(NoDrive, "removed")
           \/ fe.at = "removed" /\ Sync("zero")
    BY DEF FeRemoves, beVars, zeroVars
  <1>2. PICK at \in {"removed", "zero"} :
           /\ FeAt(at)
           /\ \/ at = "removed" /\ file' = [file EXCEPT ![fe.s] = NoDrive] /\ synced' = synced
              \/ fe.at = "removed" /\ at = "zero" /\ synced' = file /\ file' = file
    BY <1>1 DEF Replace, Sync
  <1>3. fe' \in FrontendType /\ fe'.at = at /\ Kept /\ fe.s \in Slaves
    BY <1>1, <1>2, FeAtKeeps DEF FePlaces, ZeroKnown
  <1>4. /\ file' \in Records /\ synced' \in Records
        /\ \A s \in Slaves : /\ file'[s] \in {file[s], NoDrive}
                             /\ synced'[s] \in {synced[s], file[s]}
    BY <1>2 DEF ToolTypeOK, Records
  <1>5. file'[fe.s] = NoDrive /\ (at = "zero" => synced'[fe.s] = NoDrive)
    BY <1>2, <1>3 DEF ZeroKnown, ToolTypeOK, Records
  <1>6. ToolTypeOK' /\ RecordTruthful'
    BY <1>1, <1>3, <1>4 DEF ToolTypeOK, Vouched, RecordTruthful
  <1>7. NoneOutstanding /\ NoneOutstanding' = NoneOutstanding
    BY <1>1 DEF NoneOutstanding, Sent, Replied, CarriedOut, Working, QuietFirst, Choosing
  <1>8. OneOutstanding' /\ QuietFirst'
    BY <1>1, <1>2, <1>3, <1>7 DEF OneOutstanding, NoneOutstanding, QuietFirst, Choosing, Kept
  <1>9. ZeroKnown'
    BY <1>1, <1>2, <1>3, <1>5 DEF ZeroKnown, ZeroDone, Recording, Cleared, Kept
  <1>10. ZeroCommanded' /\ HomeCovered'
    BY <1>1, <1>3, <1>4 DEF ZeroCommanded, Cleared, Concerns, HomeCovered, HomeAsked,
       HomeVerified, Vouched, Working, Kept
  <1> QED
    BY <1>6, <1>8, <1>9, <1>10

LEMMA FeZeroesPreserves == ToolInv /\ FeZeroes => ToolInv'
  <1> SUFFICES ASSUME ToolInv, FeZeroes PROVE ToolInv'
    OBVIOUS
  <1>1. fe.at = "zero" /\ Send("zero", fe.s) /\ UNCHANGED <<be, events, file, synced, drive, zeroed, begun>>
    BY DEF FeZeroes, beVars, zeroVars
  <1>2. NoneOutstanding /\ fe.mode = "jog" /\ Cleared(fe.s) /\ fe.s \in Slaves \cup {All}
    BY <1>1 DEF ToolInv, QuietFirst, Choosing, ZeroKnown, Cleared
  <1>3. ~ CarriedOut /\ \A i \in Nat : ~ Sent(i) /\ ~ Replied(i)'
    BY <1>1, <1>2 DEF NoneOutstanding, Replied
  <1>4. events' \in Seq(Events)
    BY <1>1 DEF ToolInv, ToolTypeOK
  <1> QED
    BY <1>1, <1>2, <1>3, <1>4, SendKeeps

\* Only a drive whose zero is completely written is recorded.
LEMMA FePersistsPreserves == ToolInv /\ FePersists => ToolInv'
  <1> SUFFICES ASSUME ToolInv, FePersists PROVE ToolInv'
    OBVIOUS
  <1> USE DEF ToolInv
  <1>1. fe.at \in Recording /\ UNCHANGED <<be, line, events, drive, zeroed, begun>>
    BY DEF FePersists, beVars, zeroVars, Recording
  <1>2. fe.s \in Slaves /\ drive[fe.s] \in zeroed /\ NoneOutstanding
    BY <1>1 DEF ZeroKnown, QuietFirst, Recording
  <1>3. \/ FeAt("persisted") /\ file' = [file EXCEPT ![fe.s] = drive[fe.s]] /\ synced' = synced
        \/ fe' = [fe EXCEPT !.at = "act", !.busy = FALSE] /\ synced' = file /\ file' = file
    BY DEF FePersists, Replace
  <1>4. fe' \in FrontendType /\ Kept /\ fe'.at \in {"persisted", "act"}
    <2>1. CASE FeAt("persisted")
      BY <2>1, FeAtKeeps DEF FePlaces
    <2>2. CASE fe' = [fe EXCEPT !.at = "act", !.busy = FALSE]
      BY <2>2 DEF ToolTypeOK, FrontendType, FePlaces, Kept
    <2> QED
      BY <1>3, <2>1, <2>2
  <1>5. fe'.at = "act" => ~ fe'.busy
    <2>1. CASE FeAt("persisted")
      BY <2>1, FeAtKeeps DEF FePlaces
    <2>2. CASE fe' = [fe EXCEPT !.at = "act", !.busy = FALSE]
      BY <2>2 DEF ToolTypeOK, FrontendType
    <2> QED
      BY <1>3, <2>1, <2>2
  <1>6. /\ file' \in Records /\ synced' \in Records
        /\ \A s \in Slaves : /\ file'[s] = file[s] \/ (s = fe.s /\ file'[s] = drive[s])
                             /\ synced'[s] \in {synced[s], file[s]}
    BY <1>2, <1>3 DEF ToolTypeOK, Records
  <1>7. ToolTypeOK' /\ RecordTruthful'
    BY <1>1, <1>2, <1>4, <1>6 DEF ToolTypeOK, Vouched, RecordTruthful
  <1>8. NoneOutstanding' = NoneOutstanding
    BY <1>1 DEF NoneOutstanding, Sent, Replied, CarriedOut, Working
  <1>9. OneOutstanding' /\ QuietFirst'
    BY <1>2, <1>4, <1>5, <1>8 DEF OneOutstanding, NoneOutstanding, QuietFirst, Choosing
  <1>10. ZeroKnown'
    BY <1>1, <1>2, <1>4 DEF ZeroKnown, Kept
  <1>11. \A i \in DOMAIN line : line[i].name = "quit"
    BY <1>2 DEF NoneOutstanding, Sent, ToolTypeOK
  <1>12. Working => be.cmd.name = "quit"
    BY <1>2 DEF NoneOutstanding, CarriedOut
  <1>13. ZeroCommanded'
    BY <1>1, <1>11, <1>12 DEF ZeroCommanded, Working
  <1>14. HomeCovered'
    BY <1>1, <1>4, <1>11, <1>12 DEF HomeCovered, HomeAsked, HomeVerified, Vouched, Working, Recording, Kept
  <1> QED
    BY <1>7, <1>9, <1>10, <1>13, <1>14

LEMMA FeEndsPreserves ==
  ToolInv /\ (FeCleansUp \/ FeWaitsNoLonger \/ FeInterrupted \/ FeKilled) => ToolInv'
  <1> SUFFICES ASSUME ToolInv, FeCleansUp \/ FeWaitsNoLonger \/ FeInterrupted \/ FeKilled
               PROVE  ToolInv'
    OBVIOUS
  <1>1. fe.at # "off" /\ UNCHANGED <<be, line, file, synced, drive, zeroed, begun>>
    BY DEF FeCleansUp, FeWaitsNoLonger, FeInterrupted, FeKilled, beVars, zeroVars
  <1>2. Gone \/ (UNCHANGED events /\ \E at \in {"cleanup", "exit", "term"} : FeAt(at))
    BY DEF FeCleansUp, FeWaitsNoLonger, FeInterrupted, FeKilled
  <1>3. CASE Gone
    BY <1>1, <1>3, GoneKeeps
  <1>4. CASE UNCHANGED events /\ \E at \in {"cleanup", "exit", "term"} : FeAt(at)
    BY <1>1, <1>4, FeAtKeeps, RestKeeps DEF Resting, FePlaces
  <1> QED
    BY <1>2, <1>3, <1>4

------------------------------------------------------------------------------
(* The steps of the backend *)

LEMMA BeTellsPreserves ==
  ToolInv /\ (BeCancelled \/ BeFails \/ BeStarts \/ BeZeroed) => ToolInv'
  <1> SUFFICES ASSUME ToolInv, BeCancelled \/ BeFails \/ BeStarts \/ BeZeroed PROVE ToolInv'
    OBVIOUS
  <1>1. UNCHANGED <<fe, line, file, synced, drive, zeroed, begun>>
    BY DEF BeCancelled, BeFails, BeStarts, BeZeroed, feVars, zeroVars
  <1>2. CASE Fail
    BY <1>1, <1>2, TellStep DEF Fail, Events, Replies
  <1>3. CASE BeStarts
    BY <1>1, <1>3, TellStep DEF BeStarts, Events, Replies, CarriedOut
  <1>4. CASE BeZeroed
    <2>1. be.at = "saved" /\ be.cmd.name = "zero"
      BY <1>4 DEF BeZeroed, ToolInv, ZeroCommanded, Working
    <2> QED
      BY <1>1, <1>4, <2>1, TellStep DEF BeZeroed, Events, Replies, CarriedOut, Working
  <1> QED
    BY <1>2, <1>3, <1>4 DEF BeCancelled, BeFails

\* The backend that serves takes the oldest command.
LEMMA BeServesPreserves == ToolInv /\ BeServes => ToolInv'
  <1> SUFFICES ASSUME ToolInv, BeServes PROVE ToolInv'
    OBVIOUS
  <1> USE DEF ToolInv
  <1>1. be.at = "serving" /\ UNCHANGED <<fe, events, file, synced, drive, zeroed, begun>>
    BY DEF BeServes, feVars, zeroVars
  <1>2. CASE BeAt("stopping") /\ UNCHANGED line
    <2>1. be' \in BackendType /\ be'.at = "stopping"
      BY <1>2, BeAtKeeps DEF BePlaces
    <2>2. "error" \in Events /\ "error" \notin Replies
      BY DEF Events, Replies
    <2> QED
      BY <1>1, <1>2, <2>1, <2>2, TellKeeps
  <1>3. CASE line # <<>> /\ line' = Tail(line) /\ be' = [be EXCEPT !.at = "begin", !.cmd = Head(line)]
    <2> DEFINE c == Head(line)
    <2>1. /\ c \in Commands /\ c = line[1] /\ 1 \in DOMAIN line
          /\ line' \in Seq(Commands)
          /\ \A i \in DOMAIN line' : i + 1 \in DOMAIN line /\ i # 0 /\ line'[i] = line[i + 1]
      BY <1>3 DEF ToolTypeOK
    <2>2. be' = [be EXCEPT !.at = "begin", !.cmd = c]
      BY <1>3
    <2> HIDE DEF c
    <2>3. be' \in BackendType /\ be'.at = "begin" /\ be'.cmd = c /\ Working'
      BY <2>1, <2>2 DEF ToolTypeOK, BackendType, BePlaces, Working
    <2>4. ToolTypeOK' /\ RecordTruthful'
      BY <1>1, <2>1, <2>3 DEF ToolTypeOK, Vouched, RecordTruthful
    <2>5. CarriedOut' => Sent(1)
      BY <2>1, <2>3 DEF CarriedOut, Sent
    <2>6. \A i \in Nat : (Sent(i)' => Sent(i + 1) /\ i # 0) /\ Replied(i)' = Replied(i)
      BY <1>1, <2>1 DEF Sent, Replied
    <2>7. OneOutstanding'
      <3>1. Sent(1) => \A i \in Nat : ~ Sent(i)' /\ ~ Replied(i)'
        BY <2>6 DEF OneOutstanding
      <3>2. \A i, j \in Nat : Sent(i)' /\ Sent(j)' => i = j
        BY <2>6 DEF OneOutstanding
      <3> QED
        BY <2>5, <2>6, <3>1, <3>2 DEF OneOutstanding
    <2>8. NoneOutstanding => NoneOutstanding'
      BY <2>5, <2>6 DEF NoneOutstanding
    <2>9. QuietFirst' /\ ZeroKnown'
      BY <1>1, <2>8 DEF QuietFirst, ZeroKnown, ZeroDone, Cleared
    <2>10. ZeroCommanded'
      BY <1>1, <2>1, <2>3 DEF ZeroCommanded, Cleared, Concerns
    <2>11. HomeCovered'
      BY <1>1, <2>1, <2>3 DEF HomeCovered, HomeAsked, HomeVerified, Vouched
    <2> QED
      BY <2>4, <2>7, <2>9, <2>10, <2>11
  <1> QED
    BY <1>2, <1>3 DEF BeServes

\* A zero of the drive is begun at the position, or finished, or neither.
Rezeroed(d, s) ==
    \/ UNCHANGED <<zeroed, begun>>
    \/ zeroed' = zeroed \cup {d} /\ begun' = [begun EXCEPT ![d] = {}]
    \/ zeroed' = zeroed \ {d} /\ begun' = [begun EXCEPT ![d] = {s}]

\* No record of another position is deprived of what vouches for it.
LEMMA VouchedStays ==
  ASSUME ToolInv, NEW p \in Slaves, NEW s \in Slaves, NEW d \in Drives, s # p,
         Rezeroed(drive[p], p), Vouched(d, s)
  PROVE  Vouched(d, s)'
  <1>1. drive[p] \in Drives /\ begun \in [Drives -> SUBSET Slaves]
    BY DEF ToolInv, ToolTypeOK
  <1>2. CASE d = drive[p]
    BY <1>1, <1>2 DEF Rezeroed, Vouched
  <1>3. CASE d # drive[p]
    BY <1>1, <1>3 DEF Rezeroed, Vouched
  <1> QED
    BY <1>2, <1>3

\* The command in hand goes on to its next step.
LEMMA GoesOnKeeps ==
  ASSUME ToolInv, Working, NEW at \in {"moving", "saving", "saved"}, BeAt(at),
         be.cmd.name # "quit",
         at # "moving" => be.cmd.name = "zero",
         at = "saved" => drive[be.cmd.s] \in zeroed',
         UNCHANGED <<fe, line, events, file, synced, drive>>,
         IF be.cmd.name = "zero" THEN Rezeroed(drive[be.cmd.s], be.cmd.s)
                                 ELSE UNCHANGED <<zeroed, begun>>
  PROVE  ToolInv'
  <1> USE DEF ToolInv
  <1>1. be' \in BackendType /\ be'.at = at /\ be'.cmd = be.cmd
    BY BeAtKeeps DEF BePlaces
  <1>2. CarriedOut /\ CarriedOut' /\ Working'
    BY <1>1 DEF CarriedOut, Working
  <1>0. be.cmd.name = "zero" => Cleared(be.cmd.s) /\ Concerns(be.cmd.s)
    BY DEF ZeroCommanded
  <1>3. ToolTypeOK'
    <2>1. zeroed' \in SUBSET Drives /\ begun' \in [Drives -> SUBSET Slaves]
      BY <1>0 DEF ToolTypeOK, Rezeroed, Cleared
    <2> QED
      BY <1>1, <2>1 DEF ToolTypeOK
  <1>4. \A i \in Nat : Sent(i)' = Sent(i) /\ Replied(i)' = Replied(i)
    BY DEF Sent, Replied
  <1>5. OneOutstanding'
    BY <1>2, <1>4 DEF OneOutstanding
  <1>6. QuietFirst'
    BY <1>2 DEF QuietFirst, NoneOutstanding
  <1>7. ZeroCommanded'
    BY <1>1 DEF ZeroCommanded, Cleared, Concerns, Working
  <1>8. fe.at \notin Recording /\ ~ ZeroDone
    <2>1. \A i \in Nat : ~ Replied(i)
      BY <1>2 DEF OneOutstanding
    <2> QED
      BY <1>2, <2>1, NoReply DEF QuietFirst, NoneOutstanding, Recording, ZeroDone, Replied,
         ToolTypeOK
  <1>9. ZeroKnown'
    BY <1>8 DEF ZeroKnown, ZeroDone, Cleared
  <1>10. HomeCovered'
    <2>1. be.cmd.name = "zero" /\ fe.at # "off" => fe.mode = "jog"
      BY <1>0 DEF Concerns
    <2>2. HomeAsked' <=> HomeAsked
      BY <1>1 DEF HomeAsked, Working
    <2>3. fe.mode = "home" /\ fe.at # "off" => \A s \in fe.known : Vouched(drive[s], s)'
      BY <2>1 DEF HomeCovered, Vouched
    <2> QED
      BY <2>1, <2>2, <2>3 DEF HomeCovered, HomeVerified, Vouched
  <1>11. RecordTruthful'
    <2> SUFFICES ASSUME NEW s \in Slaves, NEW r \in {file[s], synced[s]}, r # NoDrive
                 PROVE  Vouched(r, s)'
      BY DEF Vouched, RecordTruthful
    <2>1. Vouched(r, s) /\ r \in Drives
      BY DEF RecordTruthful, ToolTypeOK, Records
    <2>2. CASE be.cmd.name = "zero"
      BY <1>0, <2>1, <2>2, VouchedStays DEF Cleared
    <2>3. CASE be.cmd.name # "zero"
      BY <2>1, <2>3 DEF Vouched
    <2> QED
      BY <2>2, <2>3
  <1> QED
    BY <1>3, <1>5, <1>6, <1>7, <1>9, <1>10, <1>11

LEMMA BeBeginsPreserves == ToolInv /\ BeBegins => ToolInv'
  <1> SUFFICES ASSUME ToolInv, BeBegins PROVE ToolInv'
    OBVIOUS
  <1>1. be.at = "begin" /\ UNCHANGED <<fe, line, file, synced, drive, zeroed, begun>>
    BY DEF BeBegins, feVars, zeroVars
  <1>2. CASE BeAt("stopping") /\ UNCHANGED events
    <2>1. be' \in BackendType /\ be'.at = "stopping"
      BY <1>2, BeAtKeeps DEF BePlaces
    <2>2. "error" \in Events /\ "error" \notin Replies
      BY DEF Events, Replies
    <2> QED
      BY <1>1, <1>2, <2>1, <2>2, TellKeeps
  <1>3. CASE be.cmd.name \in {"home", "step"} /\ Tell("rejected", "serving")
    BY <1>1, <1>3, TellStep DEF Events, Replies, CarriedOut, Working
  <1>4. CASE be.cmd.name # "quit" /\ BeAt("moving") /\ UNCHANGED events
    BY <1>1, <1>4, GoesOnKeeps DEF Working, Rezeroed
  <1> QED
    BY <1>2, <1>3, <1>4 DEF BeBegins, Command

\* A zero that is being written is trusted nowhere.
LEMMA BeMovesPreserves == ToolInv /\ BeMoves => ToolInv'
  <1> SUFFICES ASSUME ToolInv, BeMoves PROVE ToolInv'
    OBVIOUS
  <1>1. be.at = "moving" /\ fe.at # "off" /\ UNCHANGED <<fe, line, file, synced, drive>>
    BY DEF BeMoves, feVars, zeroVars
  <1>2. be.cmd.name # "quit"
    BY <1>1 DEF ToolInv, ZeroCommanded, Working
  <1>3. CASE be.cmd.name = "zero"
    <2>1. BeAt("saving") /\ Rezeroed(drive[be.cmd.s], be.cmd.s) /\ UNCHANGED events
      BY <1>3 DEF BeMoves, Rezeroed
    <2> QED
      BY <1>1, <1>2, <1>3, <2>1, GoesOnKeeps DEF Working
  <1>4. CASE be.cmd.name # "zero"
    <2>1. Tell("done", "serving") /\ UNCHANGED <<zeroed, begun>>
      BY <1>4 DEF BeMoves, zeroVars
    <2> QED
      BY <1>1, <1>2, <2>1, TellStep DEF Events, Replies, CarriedOut, Working
  <1> QED
    BY <1>3, <1>4

LEMMA BeSavesPreserves == ToolInv /\ BeSaves => ToolInv'
  <1> SUFFICES ASSUME ToolInv, BeSaves PROVE ToolInv'
    OBVIOUS
  <1>1. /\ be.at = "saving" /\ BeAt("saved") /\ Rezeroed(drive[be.cmd.s], be.cmd.s)
        /\ drive[be.cmd.s] \in zeroed'
        /\ UNCHANGED <<fe, line, events, file, synced, drive>>
    BY DEF BeSaves, Rezeroed, feVars, zeroVars
  <1>2. be.cmd.name = "zero" /\ Working
    BY <1>1 DEF ToolInv, ZeroCommanded, Working
  <1> QED
    BY <1>1, <1>2, GoesOnKeeps

\* The backend stops the motors and ends, or is killed.
LEMMA BeStopsPreserves == ToolInv /\ (BeStops \/ BeEnds \/ BeKilled) => ToolInv'
  <1> SUFFICES ASSUME ToolInv, BeStops \/ BeEnds \/ BeKilled PROVE ToolInv'
    OBVIOUS
  <1>1. /\ UNCHANGED <<fe, events, file, synced, drive, zeroed, begun>>
        /\ line' = line \/ line' = <<>>
    BY DEF BeStops, BeEnds, BeKilled, Exits, feVars, zeroVars
  <1>2. be' \in BackendType /\ be'.at \in {"off", "ending"}
    <2>1. CASE BeStops
      <3>1. PICK end \in {"failed", be.end} : be' = [be EXCEPT !.at = "ending", !.end = end]
        BY <2>1 DEF BeStops
      <3> QED
        BY <3>1 DEF ToolInv, ToolTypeOK, BackendType, BePlaces
    <2>2. CASE BeEnds \/ BeKilled
      <3>1. PICK end \in {"killed", be.end} : be' = Ended(end)
        BY <2>2 DEF BeEnds, BeKilled, Exits
      <3>2. end \in {"orderly", "failed", "killed"}
        BY <3>1 DEF ToolInv, ToolTypeOK, BackendType
      <3> QED
        BY <3>1, <3>2 DEF Ended, NoCommand, Command, BackendType, BePlaces, Commands
    <2> QED
      BY <2>1, <2>2
  <1>3. "error" \in Events /\ "error" \notin Replies
    BY DEF Events, Replies
  <1> QED
    BY <1>1, <1>2, <1>3, TellKeeps

------------------------------------------------------------------------------
(* The power and the drives *)

LEMMA PowerCutPreserves == ToolInv /\ PowerCut => ToolInv'
  <1> SUFFICES ASSUME ToolInv, PowerCut PROVE ToolInv'
    OBVIOUS
  <1> USE DEF ToolInv
  <1>1. /\ fe' = Off /\ be' = Ended("orderly") /\ line' = <<>> /\ events' = <<>>
        /\ file' = synced /\ UNCHANGED <<synced, drive, zeroed, begun>>
    BY DEF PowerCut, Gone, Exits, zeroVars
  <1>2. fe' \in FrontendType /\ fe'.at = "off"
    BY <1>1 DEF Off, FrontendType, FePlaces, Keys
  <1>3. be' \in BackendType /\ be'.at = "off"
    BY <1>1 DEF Ended, NoCommand, Command, BackendType, BePlaces, Commands
  <1>4. ToolTypeOK'
    BY <1>1, <1>2, <1>3 DEF ToolTypeOK
  <1>5. RecordTruthful'
    BY <1>1 DEF Vouched, RecordTruthful
  <1>6. OneOutstanding'
    BY <1>1, <1>3 DEF OneOutstanding, Sent, Replied, CarriedOut, Working
  <1>7. ~ ZeroDone' /\ ~ Working'
    BY <1>2, <1>3 DEF ZeroDone, Working
  <1>8. ZeroCommanded'
    BY <1>1, <1>7 DEF ZeroCommanded
  <1> QED
    BY <1>2, <1>4, <1>5, <1>6, <1>7, <1>8 DEF QuietFirst, Choosing, ZeroKnown, Recording, HomeCovered

LEMMA ExchangePreserves == ToolInv /\ Exchange => ToolInv'
  <1> SUFFICES ASSUME ToolInv, Exchange PROVE ToolInv'
    OBVIOUS
  <1> USE DEF ToolInv
  <1>1. /\ fe.at = "off" /\ be.at = "off"
        /\ UNCHANGED <<fe, be, line, events, file, synced, zeroed, begun>>
    BY DEF Exchange, feVars, beVars, zeroVars
  <1>4. drive' \in [Slaves -> Drives]
    BY DEF Exchange, Mounted
  <1>5. ToolTypeOK' /\ RecordTruthful'
    BY <1>1, <1>4 DEF ToolTypeOK, Vouched, RecordTruthful
  <1>6. OneOutstanding' /\ ~ Working'
    BY <1>1 DEF OneOutstanding, Sent, Replied, CarriedOut, Working
  <1>7. ZeroCommanded'
    BY <1>1, <1>6 DEF ZeroCommanded, Cleared, Concerns
  <1> QED
    BY <1>1, <1>5, <1>6, <1>7 DEF QuietFirst, Choosing, ZeroKnown, ZeroDone, Recording, HomeCovered

------------------------------------------------------------------------------
LEMMA StutterKeeps == ToolInv /\ UNCHANGED vars => ToolInv'
  <1> SUFFICES ASSUME ToolInv, UNCHANGED vars PROVE ToolInv'
    OBVIOUS
  <1>1. /\ fe' = fe /\ be' = be /\ line' = line /\ events' = events
        /\ file' = file /\ synced' = synced /\ drive' = drive /\ zeroed' = zeroed
        /\ begun' = begun
    BY DEF vars
  <1>2. ToolTypeOK' /\ RecordTruthful'
    BY <1>1 DEF ToolInv, ToolTypeOK, Vouched, RecordTruthful
  <1>3. /\ \A i : (Sent(i))' <=> Sent(i)
        /\ \A i : (Replied(i))' <=> Replied(i)
        /\ CarriedOut' <=> CarriedOut
    BY <1>1 DEF Sent, Replied, CarriedOut, Working
  <1>4. OneOutstanding'
    BY <1>3 DEF ToolInv, OneOutstanding
  <1>5. NoneOutstanding' <=> NoneOutstanding
    BY <1>3 DEF NoneOutstanding
  <1>6. QuietFirst'
    BY <1>1, <1>5 DEF ToolInv, QuietFirst, Choosing
  <1>7. ZeroCommanded'
    BY <1>1 DEF ToolInv, ZeroCommanded, Cleared, Concerns, Working
  <1>8. ZeroKnown'
    BY <1>1 DEF ToolInv, ZeroKnown, ZeroDone, Recording, Cleared
  <1>9. HomeCovered'
    BY <1>1 DEF ToolInv, HomeCovered, HomeAsked, HomeVerified, Vouched, Working
  <1> QED
    BY <1>2, <1>4, <1>6, <1>7, <1>8, <1>9 DEF ToolInv

LEMMA ToolNextPreserves == ToolInv /\ [Next]_vars => ToolInv'
  <1> SUFFICES ASSUME ToolInv, [Next]_vars PROVE ToolInv'
    OBVIOUS
  <1>1. CASE UNCHANGED vars
    BY <1>1, StutterKeeps
  <1>2. CASE FeStarts
    BY <1>2, FeStartsPreserves
  <1>3. CASE Frontend
    BY <1>3, FeReadyPreserves, FeReadsPreserves, FeQuitsPreserves, FeHandlesPreserves,
       FeHandledPreserves, FeKeysPreserves, FeRemovesPreserves, FeZeroesPreserves,
       FePersistsPreserves, FeEndsPreserves DEF Frontend
  <1>4. CASE FeInterrupted \/ FeKilled
    BY <1>4, FeEndsPreserves
  <1>5. CASE Backend \/ BeFails \/ BeKilled
    BY <1>5, BeTellsPreserves, BeServesPreserves, BeBeginsPreserves, BeMovesPreserves,
       BeSavesPreserves, BeStopsPreserves DEF Backend
  <1>6. CASE PowerCut \/ Exchange
    BY <1>6, PowerCutPreserves, ExchangePreserves
  <1> QED
    BY <1>1, <1>2, <1>3, <1>4, <1>5, <1>6 DEF Next

\* What the two processes, the file and the drives know of each other is
\* inductive: of all commands at most one is outstanding, and a drive loses its
\* zero only while no record names it.
THEOREM ToolInvariance == Spec => []ToolInv
  <1> QED
    BY ToolInitHolds, ToolNextPreserves, PTL DEF Spec

\* For any positions and drives, wherever they are mounted: a record of the file,
\* also one that a power cut brings back, names a drive whose zero was completely
\* written, unless another was begun since at another position.
\* (yiyou_control.py, remove_record_before_zero, persist_record)
THEOREM RecordAlwaysTruthful == Spec => []RecordTruthful
  <1>1. ToolInv => RecordTruthful
    BY DEF ToolInv
  <1> QED
    BY <1>1, ToolInvariance, PTL

\* For any positions and drives: the motors are homed only when each selected
\* drive, as it is mounted, has a zero of its own, with the same exception, and
\* never the fourth axis.
\* (yiyou_control.py, verify_home_records)
THEOREM HomeAlwaysTrusted == Spec => []HomeIsTrusted
  <1>1. ToolInv => HomeIsTrusted
    <2> SUFFICES ASSUME ToolInv, be.at = "moving", be.cmd.name = "home", fe.at # "off",
                        NEW s \in fe.asked
                 PROVE  Vouched(drive[s], s) /\ s # Fourth
      BY DEF HomeIsTrusted
    <2>1. fe.mode = "home" /\ Fourth \notin fe.asked /\ fe.asked = fe.known
      BY DEF ToolInv, HomeCovered, HomeAsked, Working, HomeVerified
    <2> QED
      BY <2>1 DEF ToolInv, HomeCovered
  <1> QED
    BY <1>1, ToolInvariance, PTL
==============================================================================
