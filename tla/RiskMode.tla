------------------------------- MODULE RiskMode -------------------------------
(***************************************************************************)
(* The risk mode of shared_data/state_bus.json (RiskModeStore), the manager *)
(* that turns losses and failures into SAFE mode (RiskModeManager), the     *)
(* profile each process caches (RiskProfileManager) and the operator's      *)
(* telegram commands. The user interface, the telegram listener and the     *)
(* healer are processes of their own that share the file: every update      *)
(* reads the whole file, and writes it back through one temporary file,     *)
(* state_bus.tmp, that all of them and StateBus.save_state use.             *)
(*                                                                         *)
(* A process handles one event at a time as a list of calls of the store.   *)
(* Equity is in percent of the 10000 the manager takes for the day's        *)
(* opening equity.                                                          *)
(***************************************************************************)
EXTENDS Integers, Sequences, FiniteSets

CONSTANTS Process,
          Settings,    \* the pairs of platform and return policy: posix?, AUTO?
          Equity,      \* current_equity of a fill, in percent of 10000
          LossTrigger, \* CONSECUTIVE_LOSS_TRIGGER
          Drawdown, HardCutoff, \* INTRADAY_DRAWDOWN_.., HARD_CUTOFF_.., in percent
          Recovery,    \* SAFE_MODE_RECOVERY_PNL_PCT
          MaxEvents,   \* bound: events handled in all
          MaxMissed    \* bound: kinds of access that have failed when no more may

ASSUME RiskAssumption ==
  /\ Settings \subseteq BOOLEAN \X BOOLEAN
  /\ Equity \subseteq Nat
  /\ LossTrigger \in Nat \ {0} /\ Drawdown \in Nat \ {0} /\ HardCutoff \in Nat \ {0}
  /\ Recovery \in Nat /\ MaxEvents \in Nat /\ MaxMissed \in Nat

VARIABLES posix, auto, \* the platform, and whether the return policy is AUTO
          file, temp,  \* state_bus.json and state_bus.tmp
          event,       \* what each process is handling
          calls,       \* the calls of the store it has still to make
          at,          \* how far the first of them is
          seen, base,  \* the numbers the call read, and what update_risk_state read
          handle,      \* where the file it opened as state_bus.tmp is now
          profile,     \* _current_profile
          events,      \* events begun (bounded by MaxEvents)
          streak,      \* history: losing fills since the last winning one
          alone,       \* history: no two events overlapped and none was cut short
          missed       \* history: the accesses of the file that have failed

riskVars == <<posix, auto, file, temp, event, calls, at, seen, base, handle,
          profile, events, streak, alone, missed>>

(* The risk section; or no file, a file that is truncated or two documents   *)
(* over each other, or StateBus's own, incompatible risk section.            *)
Default == [kind |-> "section", mode |-> "AGGRESSIVE", losses |-> 0, pnl |-> 0,
            opened |-> FALSE]
NoFile  == [Default EXCEPT !.kind = "none"]
Torn    == [Default EXCEPT !.kind = "torn"]
Foreign == [Default EXCEPT !.kind = "foreign"]

Event == {"none", "fill", "heal", "resume", "recover", "set", "midnight", "start", "bus"}

RiskInit ==
  /\ \E s \in Settings : posix = s[1] /\ auto = s[2]
  /\ file = Default /\ temp = NoFile
  /\ event = [p \in Process |-> "none"]
  /\ calls = [p \in Process |-> <<>>]
  /\ at = [p \in Process |-> "idle"]
  /\ seen = [p \in Process |-> Default]
  /\ base = [p \in Process |-> Default]
  /\ handle = [p \in Process |-> "closed"]
  /\ profile = [p \in Process |-> "none"]
  /\ events = 0 /\ streak = 0 /\ alone = TRUE /\ missed = {}

(* get_risk_state: anything it cannot read as its own section is a default. *)
View(content) == IF content.kind = "section" THEN content ELSE Default

Idle(p) == event[p] = "none"
Others(p) == Process \ {p}
Call(do) == <<[do |-> do, equity |-> 100]>>

(* Most calls ask for the mode or the numbers first; a win, and the store's  *)
(* own start, begin with the read of the update, and StateBus reads nothing. *)
First(c) ==
  IF c.do = "bus" THEN "open"
  ELSE IF c.do \in {"win", "ensure"} THEN "updates"
  ELSE IF c.do \in {"loss", "pnl", "reset"} THEN "counts"
  ELSE "asks"

Begin(p, e, list) ==
  /\ Idle(p) /\ events < MaxEvents
  /\ events' = events + 1
  /\ event' = [event EXCEPT ![p] = e]
  /\ calls' = [calls EXCEPT ![p] = list]
  /\ at' = [at EXCEPT ![p] = First(Head(list))]
  /\ alone' = (alone /\ \A q \in Others(p) : Idle(q))
  /\ UNCHANGED <<posix, auto, file, temp, seen, base, handle, profile, streak, missed>>

OnTradeFill(p, won, equity) ==
  Begin(p, "fill", Call(IF won THEN "win" ELSE "loss") \o <<[do |-> "pnl", equity |-> equity]>>)
OnAutoHealEvent(p) == Begin(p, "heal", Call("trigger"))
ResumeAggressive(p) == ~auto /\ Begin(p, "resume", Call("resume"))
CheckAutoRecovery(p) == auto /\ Begin(p, "recover", Call("recover"))
CmdSetMode(p, mode) == Begin(p, "set", Call(mode))
CheckMidnightReset(p) == Begin(p, "midnight", Call("reset"))
SaveState(p) == Begin(p, "bus", Call("bus"))

(* What a call sets, from the numbers v it has read. The percentage of a  *)
(* day that was never opened is 0; the first reset opens it.                 *)
ToSafe == {"trigger", "SAFE"}
ToAggressive == {"resume", "recover", "AGGRESSIVE"}
Target(c) == IF c.do \in ToSafe THEN "SAFE" ELSE "AGGRESSIVE"
ModeAfter(c, mode) ==
  IF c.do \in ToSafe THEN "SAFE" ELSE IF c.do \in ToAggressive THEN "AGGRESSIVE" ELSE mode
LossesAfter(c, v, losses) ==
  IF c.do = "win" THEN 0 ELSE IF c.do = "loss" THEN v.losses + 1 ELSE losses
PnlOfDay(c, v) == IF v.opened THEN c.equity - 100 ELSE 0
PnlAfter(c, v, pnl) ==
  IF c.do = "pnl" THEN PnlOfDay(c, v) ELSE IF c.do = "reset" THEN 0 ELSE pnl

(* Mutated: the day starts in the default mode again.                        *)
Merged_NewDayNewMode(c, v, section) ==
  [section EXCEPT !.mode = IF c.do = "reset" THEN "AGGRESSIVE" ELSE ModeAfter(c, @),
                  !.losses = LossesAfter(c, v, @), !.pnl = PnlAfter(c, v, @),
                  !.opened = @ \/ c.do = "reset"]

(* Mutated: a new day starts with a new streak of losses.                    *)
Merged_NewDayNewStreak(c, v, section) ==
  [section EXCEPT !.mode = ModeAfter(c, @),
                  !.losses = IF c.do = "reset" THEN 0 ELSE LossesAfter(c, v, @),
                  !.pnl = PnlAfter(c, v, @), !.opened = @ \/ c.do = "reset"]

(* update_risk_state sets those fields, and no other, in what it reads.      *)
Merged(c, v, section) ==
  [section EXCEPT !.mode = ModeAfter(c, @), !.losses = LossesAfter(c, v, @),
                  !.pnl = PnlAfter(c, v, @), !.opened = @ \/ c.do = "reset"]

(* Mutated: the streak must exceed the trigger to be one.                     *)
Followup_Exceeds(c, v) ==
  IF c.do = "loss" /\ v.losses >= LossTrigger THEN Call("trigger")
  ELSE IF c.do # "pnl" \/ PnlOfDay(c, v) > -Drawdown THEN <<>>
  ELSE IF PnlOfDay(c, v) > -HardCutoff THEN Call("trigger")
  ELSE Call("trigger") \o Call("trigger")

(* on_trade_fill looks at the returned numbers whether or not they could be  *)
(* written: each threshold that is reached is a trigger of its own.          *)
Followup(c, v) ==
  LET drawdown == c.do = "pnl" /\ PnlOfDay(c, v) <= -Drawdown
      cutoff   == c.do = "pnl" /\ PnlOfDay(c, v) <= -HardCutoff
  IN  IF c.do = "loss" /\ v.losses + 1 >= LossTrigger THEN Call("trigger")
      ELSE IF drawdown /\ cutoff THEN Call("trigger") \o Call("trigger")
      ELSE IF drawdown \/ cutoff THEN Call("trigger")
      ELSE <<>>

(* An access fails.                                                          *)
Misses(what) ==
  /\ Cardinality(missed) < MaxMissed
  /\ missed' = missed \cup {what}

Remaining(p, list) ==
  /\ calls' = [calls EXCEPT ![p] = list]
  /\ event' = [event EXCEPT ![p] = IF list = <<>> THEN "none" ELSE @]
  /\ at' = [at EXCEPT ![p] = IF list = <<>> THEN "idle" ELSE First(Head(list))]

(* Mutated: only a mode an operator chose brings its profile.                *)
Return_OperatorOnly(p, ok) ==
  LET c == Head(calls[p]) IN
  /\ Remaining(p, Followup(c, seen[p]) \o Tail(calls[p]))
  /\ seen' = [seen EXCEPT ![p] = Default]
  /\ base' = [base EXCEPT ![p] = Default]
  /\ profile' = [profile EXCEPT ![p] =
                   IF ok /\ c.do \in {"SAFE", "AGGRESSIVE"} THEN c.do ELSE @]
  /\ streak' = IF c.do = "win" THEN 0 ELSE IF c.do = "loss" THEN streak + 1 ELSE streak
  /\ UNCHANGED <<posix, auto, events>>

(* update_risk_state has answered: a switch that worked applies its profile.  *)
Return(p, ok) ==
  LET c == Head(calls[p]) IN
  /\ Remaining(p, Followup(c, seen[p]) \o Tail(calls[p]))
  /\ seen' = [seen EXCEPT ![p] = Default]
  /\ base' = [base EXCEPT ![p] = Default]
  /\ profile' = [profile EXCEPT ![p] = IF ok THEN ModeAfter(c, @) ELSE @]
  /\ streak' = IF c.do = "win" THEN 0 ELSE IF c.do = "loss" THEN streak + 1 ELSE streak
  /\ UNCHANGED <<posix, auto, events>>

-----------------------------------------------------------------------------
(* The reads of a call, each of which may find another file.                 *)

(* _atomic_read answers {} for a file it cannot read, as it does for none.   *)
Reads(p, content) ==
  \/ content = file /\ UNCHANGED missed
  \/ content = NoFile /\ Misses(at[p])

GoesOn(p, where) ==
  /\ at' = [at EXCEPT ![p] = where]
  /\ UNCHANGED <<event, calls>>

(* is_safe_mode or get_mode: in the mode already, there is nothing to do.    *)
(* resume_aggressive asks what the recovery had asked before.                *)
AskMode(p) ==
  /\ at[p] \in {"asks", "resumes"}
  /\ \E content \in {file, NoFile} :
       LET c == Head(calls[p])
           same == View(content).mode = Target(c)
       IN /\ Reads(p, content)
          /\ \/ same /\ Remaining(p, Tail(calls[p]))
             \/ ~same /\ GoesOn(p, IF at[p] = "asks" /\ c.do = "recover" THEN "judges"
                                   ELSE "switches")
  /\ UNCHANGED <<posix, auto, file, temp, seen, base, handle, profile, events, streak, alone>>

(* The hours since the switch may not be over, or unknown.                   *)
JudgeRecovery(p) ==
  /\ at[p] = "judges"
  /\ \E content \in {file, NoFile} :
       /\ Reads(p, content)
       /\ \/ Remaining(p, Tail(calls[p]))
          \/ content.kind = "section" /\ content.pnl >= Recovery /\ GoesOn(p, "resumes")
  /\ UNCHANGED <<posix, auto, file, temp, seen, base, handle, profile, events, streak, alone>>

(* switch_mode reads for itself: where it finds the mode, it answers True     *)
(* without writing.                                                          *)
SwitchMode(p) ==
  /\ at[p] = "switches"
  /\ \E content \in {file, NoFile} :
       LET same == View(content).mode = Target(Head(calls[p]))
       IN /\ Reads(p, content)
          /\ \/ same /\ Return(p, TRUE)
             \/ ~same /\ GoesOn(p, "updates")
                      /\ UNCHANGED <<posix, auto, seen, base, profile, events, streak>>
  /\ UNCHANGED <<file, temp, handle, alone>>

(* The numbers an update starts from; of the midnight check the time of the  *)
(* last update, which may be recent, or unknown. (It reads the day's opening *)
(* equity once more; whatever it finds, the day opens with 10000.)           *)
Count(p) ==
  /\ at[p] = "counts"
  /\ \E content \in {file, NoFile} :
       LET reset == Head(calls[p]).do = "reset"
       IN /\ Reads(p, content)
          /\ \/ /\ reset => content.kind = "section"
                /\ seen' = [seen EXCEPT ![p] = IF reset THEN @ ELSE View(content)]
                /\ GoesOn(p, "updates")
             \/ /\ reset
                /\ Remaining(p, Tail(calls[p]))
                /\ UNCHANGED seen
  /\ UNCHANGED <<posix, auto, file, temp, base, handle, profile, events, streak, alone>>

(* update_risk_state reads the file it merges the fields into. A store that  *)
(* starts writes only where it finds no section.                             *)
Read(p) ==
  /\ at[p] = "updates"
  /\ \E content \in {file, NoFile} :
       LET there == Head(calls[p]).do = "ensure" /\ content.kind \in {"section", "foreign"}
       IN /\ Reads(p, content)
          /\ \/ there /\ Remaining(p, Tail(calls[p])) /\ UNCHANGED base
             \/ ~there /\ GoesOn(p, "open") /\ base' = [base EXCEPT ![p] = content]
  /\ UNCHANGED <<posix, auto, file, temp, seen, handle, profile, events, streak, alone>>

-----------------------------------------------------------------------------
(* open(state_bus.tmp, 'w') truncates whatever another process put there.    *)
Open(p) ==
  /\ at[p] = "open"
  /\ temp' = Torn
  /\ handle' = [handle EXCEPT ![p] = "temp"]
  /\ at' = [at EXCEPT ![p] = "put"]
  /\ UNCHANGED <<posix, auto, file, event, calls, seen, base, profile, events,
                 streak, alone, missed>>

(* StateBus writes a section of its own, which has none of the fields that    *)
(* an update sets; a missing section is created first.                       *)
Content(p) ==
  IF Head(calls[p]).do = "bus" \/ base[p] = Foreign THEN Foreign
  ELSE Merged(Head(calls[p]), seen[p], View(base[p]))

(* Mutated: the temporary file stays open during the rename.                 *)
Put_LeavesOpen(p) ==
  /\ at[p] = "put"
  /\ temp' = IF handle[p] = "temp" THEN Content(p) ELSE temp
  /\ file' = IF handle[p] = "file" THEN Content(p) ELSE file
  /\ at' = [at EXCEPT ![p] = "rename"]
  /\ UNCHANGED <<posix, auto, event, calls, seen, base, handle, profile, events,
                 streak, alone, missed>>

(* The document goes to the file that was opened, wherever that file is now; *)
(* over another document the longer one's end stays.                         *)
Put(p) ==
  /\ at[p] = "put"
  /\ \E text \in {Content(p), Torn} :
       /\ handle[p] = "temp" /\ text = Torn => temp # Torn
       /\ handle[p] = "file" /\ text = Torn => file # Torn
       /\ temp' = IF handle[p] = "temp" THEN text ELSE temp
       /\ file' = IF handle[p] = "file" THEN text ELSE file
  /\ handle' = [handle EXCEPT ![p] = "closed"]
  /\ at' = [at EXCEPT ![p] = "rename"]
  /\ UNCHANGED <<posix, auto, event, calls, seen, base, profile, events, streak, alone, missed>>

(* temp_file.replace(state_file): POSIX moves the file under the feet of     *)
(* whoever has it open.                                                      *)
Rename(p) ==
  /\ at[p] = "rename" /\ temp # NoFile
  /\ posix \/ \A q \in Process : handle[q] # "temp"
  /\ file' = temp
  /\ temp' = NoFile
  /\ handle' = [q \in Process |-> IF handle[q] = "temp" THEN "file"
                                  ELSE IF handle[q] = "file" THEN "gone" ELSE handle[q]]
  /\ alone' = (alone /\ Head(calls[p]).do # "bus")
  /\ Return(p, TRUE)
  /\ UNCHANGED missed

(* The disk fails the write, wherever it is; or another process has moved    *)
(* the temporary file away, or Windows refuses because one has it, or         *)
(* state_bus.json, open.  The call answers False, and what was written of    *)
(* the document stays.                                                       *)
WriteFails(p) ==
  /\ at[p] \in {"open", "put", "rename"}
  /\ temp' \in IF handle[p] = "temp" THEN {temp, Torn, Content(p)} ELSE {temp}
  /\ file' \in IF handle[p] = "file" THEN {file, Torn, Content(p)} ELSE {file}
  /\ handle' = [handle EXCEPT ![p] = "closed"]
  /\ Misses("write")
  /\ Return(p, FALSE)
  /\ UNCHANGED alone

(* get_status and the alerts load the profile of a process that has none.    *)
GetCurrentProfile(p) ==
  /\ Idle(p) /\ profile[p] = "none"
  /\ \E content \in {file, NoFile} :
       profile' = [profile EXCEPT ![p] = View(content).mode]
  /\ UNCHANGED <<posix, auto, file, temp, event, calls, at, seen, base, handle,
                 events, streak, alone, missed>>

(* A process is killed and started again: RiskModeStore.__init__ first makes *)
(* sure that the section exists.                                             *)
Restart(p) ==
  /\ events < MaxEvents
  /\ events' = events + 1
  /\ event' = [event EXCEPT ![p] = "start"]
  /\ calls' = [calls EXCEPT ![p] = Call("ensure")]
  /\ at' = [at EXCEPT ![p] = "updates"]
  /\ seen' = [seen EXCEPT ![p] = Default]
  /\ base' = [base EXCEPT ![p] = Default]
  /\ handle' = [handle EXCEPT ![p] = "closed"]
  /\ profile' = [profile EXCEPT ![p] = "none"]
  /\ alone' = FALSE
  /\ UNCHANGED <<posix, auto, file, temp, streak, missed>>

Handle(p) ==
  \/ AskMode(p) \/ JudgeRecovery(p) \/ SwitchMode(p) \/ Count(p) \/ Read(p)
  \/ Open(p) \/ Put(p) \/ Rename(p) \/ WriteFails(p)
  \/ GetCurrentProfile(p)

Arrive(p) ==
  \/ \E won \in BOOLEAN, e \in Equity : OnTradeFill(p, won, e)
  \/ OnAutoHealEvent(p) \/ ResumeAggressive(p) \/ CheckAutoRecovery(p)
  \/ \E mode \in {"SAFE", "AGGRESSIVE"} : CmdSetMode(p, mode)
  \/ CheckMidnightReset(p) \/ SaveState(p) \/ Restart(p)

RiskNext == \E p \in Process : Handle(p) \/ Arrive(p)

RiskSpec == RiskInit /\ [][RiskNext]_riskVars

-----------------------------------------------------------------------------
Section == [kind : {"section"}, mode : {"SAFE", "AGGRESSIVE"}, losses : Nat, pnl : Int,
            opened : BOOLEAN]
Document == Section \cup {NoFile, Torn, Foreign}

Do == {"win", "loss", "pnl", "trigger", "resume", "recover", "SAFE", "AGGRESSIVE",
       "reset", "ensure", "bus"}
CallType == [do : Do, equity : Nat]

Looks == {"asks", "judges", "resumes", "switches", "counts", "updates"}

(* Every variable of the store, the manager and the profiles has its type; a *)
(* call is under way only in an event, and state_bus.tmp is there while some *)
(* process has it open.                                                      *)
RiskTypeOK ==
  /\ posix \in BOOLEAN /\ auto \in BOOLEAN /\ alone \in BOOLEAN
  /\ file \in Document /\ temp \in Document
  /\ event \in [Process -> Event]
  /\ calls \in [Process -> Seq(CallType)]
  /\ at \in [Process -> {"idle"} \cup Looks \cup {"open", "put", "rename"}]
  /\ seen \in [Process -> Section] /\ base \in [Process -> Document]
  /\ handle \in [Process -> {"closed", "temp", "file", "gone"}]
  /\ profile \in [Process -> {"none", "SAFE", "AGGRESSIVE"}]
  /\ events \in Nat /\ streak \in Nat
  /\ missed \subseteq Looks \cup {"write"}
  /\ \A p \in Process :
       /\ Idle(p) <=> calls[p] = <<>>
       /\ Idle(p) <=> at[p] = "idle"
       /\ handle[p] # "closed" => at[p] = "put"
       /\ handle[p] = "temp" => temp # NoFile

Safe(content) == View(content).mode = "SAFE"

(* What can be wrong with a file about to be put in place: it was asked for; *)
(* its process found no file where it wanted the section; another process    *)
(* wrote the file in between; what is there is not what the process put.     *)
Asked(p) == Head(calls[p]).do \in ToAggressive \cup {"bus"}
Unread(p) == base[p] = NoFile
Overtaken(p) == base[p] \notin {file, NoFile}
Displaced(p) == temp # Content(p)

(* SAFE mode survives every handler, reset and restart: the step that takes  *)
(* it out of the file is the rename of a process that was told to leave it   *)
(* (or is StateBus), could not read it, or was overlapped by another; or a   *)
(* write that reaches the file through the name it had before.               *)
SafeLeavesForAReason ==
  [][Safe(file) /\ ~Safe(file') =>
       \E p \in Process :
         /\ at'[p] # at[p]
         /\ \/ /\ at[p] = "rename"
               /\ Asked(p) \/ Unread(p) \/ Overtaken(p) \/ Displaced(p)
            \/ at[p] = "put" /\ handle[p] = "file"]_riskVars

(* Accesses whose failure costs numbers: the rest of the file is as it was   *)
(* whatever the questions for the mode found.                                *)
Numbers == {"counts", "updates", "write"}

(* When on_trade_fill returns and no other event came between, a day below   *)
(* the drawdown has put SAFE in the file, whatever reads failed, as long as  *)
(* every write could be made; so has a streak of LossTrigger losses while    *)
(* the numbers could be read, too.                                           *)
HandledLossesMeanSafe ==
  [][\A p \in Process :
       event[p] = "fill" /\ event'[p] = "none" /\ alone' =>
         /\ "write" \notin missed' /\ View(file').pnl <= -Drawdown => Safe(file')
         /\ Numbers \cap missed' = {} /\ streak' >= LossTrigger => Safe(file')]_riskVars

(* While events do not overlap and the numbers can be read and written, the  *)
(* streak in the file is the number of losing fills since the last winning   *)
(* one: resets and switches keep it, and failed questions for the mode.      *)
StreakExact == alone /\ Numbers \cap missed = {} => View(file).losses = streak

(* While events do not overlap, SAFE in the file means that the process that *)
(* switched runs with the SAFE profile, unless switch_mode could not read:   *)
(* it takes a file it cannot read for AGGRESSIVE, and answers that it is.    *)
SomeProfileFollows ==
  alone /\ "switches" \notin missed /\ (\A p \in Process : Idle(p)) /\ Safe(file)
    => \E p \in Process : profile[p] = "SAFE"

(* The calls an event makes of the store.                                    *)
CallsOf ==
  [none |-> {}, fill |-> {"win", "loss", "pnl", "trigger"}, heal |-> {"trigger"},
   resume |-> {"resume"}, recover |-> {"recover"}, set |-> {"SAFE", "AGGRESSIVE"},
   midnight |-> {"reset"}, start |-> {"ensure"}, bus |-> {"bus"}]

CallsFit == \A p \in Process : \A i \in DOMAIN calls[p] : calls[p][i].do \in CallsOf[event[p]]

(* While events do not overlap, one process at most is in a call: nothing    *)
(* moves between its reads and its rename.                                   *)
OneAtATime ==
  alone =>
    /\ file \in Section
    /\ \A p, q \in Process : ~Idle(p) /\ ~Idle(q) => p = q
    /\ \A p \in Process : event[p] # "start" /\ handle[p] \in {"closed", "temp"}

(* What the call has read is the file, or a read has failed.                 *)
CallInOrder ==
  alone => \A p \in Process :
    /\ at[p] \in {"asks", "switches"} => Head(calls[p]).do \in ToSafe \cup ToAggressive
    /\ at[p] \in {"judges", "resumes"} => Head(calls[p]).do = "recover"
    /\ at[p] \in {"updates", "open", "put", "rename"} /\ Head(calls[p]).do \in {"loss", "pnl"}
         => seen[p] = file \/ "counts" \in missed
    /\ at[p] \in {"open", "put", "rename"} /\ Head(calls[p]).do # "bus"
         => base[p] = file \/ (base[p] = NoFile /\ "updates" \in missed)
    /\ at[p] = "put" => handle[p] = "temp" /\ temp = Torn
    /\ at[p] = "rename" => temp = Content(p)

ProfileFollows ==
  alone /\ "switches" \notin missed /\ Safe(file) => \E p \in Process : profile[p] = "SAFE"

(* What a fill still has to do when its losses ask for SAFE mode.            *)
Pending(p, which) == \E i \in DOMAIN calls[p] : calls[p][i].do \in which
FillInOrder ==
  alone /\ ~Safe(file) => \A p \in Process : event[p] = "fill" =>
    /\ Numbers \cap missed = {} /\ streak >= LossTrigger => Pending(p, {"win", "loss", "trigger"})
    /\ "write" \notin missed /\ file.pnl <= -Drawdown => Pending(p, {"pnl", "trigger"})

(* The inductive invariant behind the five properties above.                 *)
RiskInv ==
  /\ RiskTypeOK /\ CallsFit /\ OneAtATime /\ CallInOrder
  /\ StreakExact /\ ProfileFollows /\ FillInOrder
=============================================================================
