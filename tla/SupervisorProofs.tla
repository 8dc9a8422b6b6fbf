--------------------------- MODULE SupervisorProofs ---------------------------
(***************************************************************************)
(* Theorems about the parts that watch over trading: RiskMode and AutoHeal.*)
(***************************************************************************)
EXTENDS RiskMode, AutoHeal, SequenceTheorems, TLAPS

-----------------------------------------------------------------------------
(* Lists of calls.                                                         *)

(* One call is a list of one call.                                         *)
LEMMA CallList ==
  ASSUME NEW do \in Do
  PROVE  /\ Call(do) \in Seq(CallType) /\ Len(Call(do)) = 1
         /\ Call(do)[1].do = do
BY DEF Call, CallType

(* r is what is left of the list s when its head is replaced by the calls t. *)
Spliced(r, t, s, S) ==
  /\ r \in Seq(S)
  /\ \A i \in DOMAIN r : \/ i \in DOMAIN t /\ r[i] = t[i]
                        \/ \E j \in DOMAIN s : j >= 2 /\ r[i] = s[j]
  /\ \A i \in DOMAIN t : i \in DOMAIN r /\ r[i] = t[i]
  /\ \A j \in DOMAIN s : j >= 2 => \E i \in DOMAIN r : r[i] = s[j]
  /\ t # <<>> => r # <<>>

(* What a call that is done leaves in the list, its successors first.       *)
LEMMA HeadReplaced ==
  ASSUME NEW S, NEW s \in Seq(S), s # <<>>, NEW t \in Seq(S)
  PROVE  Spliced(t \o Tail(s), t, s, S)
<1> DEFINE u == Tail(s)
<1>1. u \in Seq(S) /\ Len(u) = Len(s) - 1 /\ \A i \in 1 .. Len(u) : u[i] = s[i + 1]
  OBVIOUS
<1> HIDE DEF u
<1>2. t \o u \in Seq(S) /\ Len(t \o u) = Len(t) + Len(u)
  BY <1>1, ConcatProperties
<1>3. \A i \in 1 .. Len(t) + Len(u) : (t \o u)[i] = IF i <= Len(t) THEN t[i] ELSE u[i - Len(t)]
  BY <1>1
<1>4. DOMAIN (t \o u) = 1 .. Len(t) + Len(u) /\ DOMAIN s = 1 .. Len(s) /\ DOMAIN t = 1 .. Len(t)
  BY <1>2
<1>5. Len(s) \in Nat /\ Len(t) \in Nat
  OBVIOUS
<1>6. ASSUME NEW i \in DOMAIN (t \o u)
      PROVE  \/ i \in DOMAIN t /\ (t \o u)[i] = t[i]
             \/ \E j \in DOMAIN s : j >= 2 /\ (t \o u)[i] = s[j]
  <2>1. CASE i <= Len(t)  BY <2>1, <1>3, <1>4, <1>5
  <2>2. CASE i > Len(t)
    <3>1. i - Len(t) \in 1 .. Len(u) /\ i - Len(t) + 1 \in DOMAIN s
      BY <2>2, <1>1, <1>4, <1>5
    <3>2. (t \o u)[i] = s[i - Len(t) + 1]
      BY <3>1, <2>2, <1>1, <1>3, <1>4, <1>5
    <3> QED BY <3>1, <3>2, <2>2, <1>5, <1>4
  <2> QED BY <2>1, <2>2, <1>4, <1>5, <1>1
<1>7. \A i \in DOMAIN t : i \in DOMAIN (t \o u) /\ (t \o u)[i] = t[i]
  BY <1>3, <1>4, <1>5, <1>1
<1>8. ASSUME NEW j \in DOMAIN s, j >= 2
      PROVE  Len(t) + j - 1 \in DOMAIN (t \o u) /\ (t \o u)[Len(t) + j - 1] = s[j]
  <2>1. j - 1 \in 1 .. Len(u) /\ Len(t) + j - 1 \in 1 .. Len(t) + Len(u) /\ ~(Len(t) + j - 1 <= Len(t))
    BY <1>8, <1>1, <1>4, <1>5
  <2>2. (t \o u)[Len(t) + j - 1] = u[j - 1]
    BY <2>1, <1>3, <1>5
  <2> QED BY <2>1, <2>2, <1>1, <1>4, <1>5
<1>9. t # <<>> => t \o u # <<>>
  BY <1>2, <1>5, <1>1
<1>10. \A j \in DOMAIN s : j >= 2 => \E i \in DOMAIN (t \o u) : (t \o u)[i] = s[j]
  BY <1>8
<1> QED BY <1>2, <1>6, <1>7, <1>9, <1>10 DEF u, Spliced

-----------------------------------------------------------------------------
(* The documents.                                                          *)

(* The risk section a process sees is one.                                 *)
LEMMA ViewType ==
  ASSUME NEW content \in Document
  PROVE  View(content) \in Section /\ (content \in Section => View(content) = content)
BY DEF View, Document, Section, Default, NoFile, Torn, Foreign

(* A switch keeps the mode one of the two.                                 *)
LEMMA ModeAfterType ==
  ASSUME NEW c \in CallType, NEW mode \in {"SAFE", "AGGRESSIVE"}
  PROVE  ModeAfter(c, mode) \in {"SAFE", "AGGRESSIVE"}
BY DEF ModeAfter

(* Setting the fields of a call gives a section, with the values it names. *)
LEMMA MergedType ==
  ASSUME NEW c \in CallType, NEW v \in Section, NEW section \in Section
  PROVE  /\ Merged(c, v, section) \in Section
         /\ Merged(c, v, section).mode = ModeAfter(c, section.mode)
         /\ Merged(c, v, section).losses = LossesAfter(c, v, section.losses)
         /\ Merged(c, v, section).pnl = PnlAfter(c, v, section.pnl)
<1> DEFINE m == ModeAfter(c, section.mode)
           l == LossesAfter(c, v, section.losses)
           n == PnlAfter(c, v, section.pnl)
           o == (section.opened \/ c.do = "reset")
<1>1. section.mode \in {"SAFE", "AGGRESSIVE"} /\ section.losses \in Nat /\ section.pnl \in Int
  BY DEF Section
<1>2. m \in {"SAFE", "AGGRESSIVE"}
  BY <1>1, ModeAfterType
<1>3. l \in Nat
  BY <1>1 DEF LossesAfter, Section
<1>4. n \in Int
  BY <1>1 DEF PnlAfter, PnlOfDay, CallType, Section
<1>5. o \in BOOLEAN
  OBVIOUS
<1>6. Merged(c, v, section) = [section EXCEPT !.mode = m, !.losses = l, !.pnl = n, !.opened = o]
  BY DEF Merged
<1> HIDE DEF m, l, n, o
<1>7. [section EXCEPT !.mode = m, !.losses = l, !.pnl = n, !.opened = o] \in Section
  BY <1>2, <1>3, <1>4, <1>5 DEF Section
<1>8. section.mode = section["mode"]
  OBVIOUS
<1> QED BY <1>6, <1>7 DEF Section, m, l, n

(* What a process would write is a section, or StateBus's document.        *)
LEMMA ContentType ==
  ASSUME RiskTypeOK, NEW p \in Process, at[p] # "idle"
  PROVE  /\ calls[p] # <<>> /\ Head(calls[p]) \in CallType
         /\ Content(p) \in Section \cup {Foreign}
         /\ Content(p) # Torn
<1>1. calls[p] # <<>> /\ calls[p] \in Seq(CallType)
  BY DEF RiskTypeOK
<1>2. Head(calls[p]) \in CallType
  BY <1>1
<1>3. seen[p] \in Section /\ View(base[p]) \in Section
  BY ViewType DEF RiskTypeOK
<1>4. Content(p) \in Section \cup {Foreign}
  BY <1>2, <1>3, MergedType DEF Content
<1> QED BY <1>1, <1>2, <1>4 DEF Section, Foreign, Torn, Default

(* The calls a fill makes because of the numbers it got.                   *)
LEMMA FollowupFacts ==
  ASSUME NEW c \in CallType, NEW v \in Section
  PROVE  /\ Followup(c, v) \in Seq(CallType)
         /\ \A i \in DOMAIN Followup(c, v) : Followup(c, v)[i].do = "trigger"
         /\ Followup(c, v) # <<>> => c.do \in {"loss", "pnl"}
         /\ c.do = "loss" /\ v.losses + 1 >= LossTrigger => 1 \in DOMAIN Followup(c, v)
         /\ c.do = "pnl" /\ PnlOfDay(c, v) <= -Drawdown => 1 \in DOMAIN Followup(c, v)
<1> DEFINE one == Call("trigger")
           two == one \o one
<1>1. one \in Seq(CallType) /\ Len(one) = 1 /\ one[1].do = "trigger"
  BY CallList DEF Do
<1> HIDE DEF one
<1>2. two \in Seq(CallType) /\ Len(two) = 2 /\ two[1].do = "trigger" /\ two[2].do = "trigger"
  <2>1. one \in Seq(CallType) /\ Len(one) = 1
    BY <1>1
  <2>2. /\ one \o one \in Seq(CallType)
        /\ Len(one \o one) = Len(one) + Len(one)
        /\ \A i \in 1 .. Len(one) + Len(one) :
             (one \o one)[i] = IF i <= Len(one) THEN one[i] ELSE one[i - Len(one)]
    BY <2>1, ConcatProperties, Zenon
  <2>3. (one \o one)[1] = one[1] /\ (one \o one)[2] = one[1] /\ Len(one \o one) = 2
    BY <2>1, <2>2
  <2> QED BY <2>2, <2>3, <1>1
<1> HIDE DEF two
<1>3. ASSUME NEW s \in Seq(CallType), NEW n \in Nat \ {0}, Len(s) = n
      PROVE  1 \in DOMAIN s /\ s # <<>> /\ DOMAIN s = 1 .. n
  BY <1>3
<1>3a. 1 \in DOMAIN one /\ one # <<>> /\ DOMAIN one = 1 .. 1
  BY <1>1, <1>3
<1>3b. 1 \in DOMAIN two /\ two # <<>> /\ DOMAIN two = 1 .. 2
  BY <1>2, <1>3
<1>4. <<>> \in Seq(CallType) /\ DOMAIN <<>> = {}
  OBVIOUS
<1>5. Followup(c, v) \in {<<>>, one, two}
  BY DEF Followup, one, two
<1>6. Followup(c, v) # <<>> => c.do \in {"loss", "pnl"}
  BY DEF Followup
<1>7. c.do = "loss" /\ v.losses + 1 >= LossTrigger => Followup(c, v) = one
  BY DEF Followup, one
<1>8. c.do = "pnl" /\ PnlOfDay(c, v) <= -Drawdown => Followup(c, v) \in {one, two}
  BY DEF Followup, one, two
<1>9. Followup(c, v) \in Seq(CallType)
  BY <1>1, <1>2, <1>4, <1>5
<1>10. ASSUME NEW i \in DOMAIN Followup(c, v)
       PROVE  Followup(c, v)[i].do = "trigger"
  <2>1. CASE Followup(c, v) = <<>>  BY <2>1, <1>4, <1>10
  <2>2. CASE Followup(c, v) = one  BY <2>2, <1>3a, <1>1, <1>10
  <2>3. CASE Followup(c, v) = two
    <3>1. i \in {1, 2}  BY <2>3, <1>3b, <1>10
    <3> QED BY <3>1, <2>3, <1>2
  <2> QED BY <2>1, <2>2, <2>3, <1>5
<1> QED BY <1>3a, <1>3b, <1>6, <1>7, <1>8, <1>9, <1>10

(* Every event that is no restart begins with calls of its own; a fill with *)
(* the streak and then the percentage of the day.                          *)
Opening(e, list) ==
  /\ e \in Event \ {"none", "start"} /\ list \in Seq(CallType) /\ list # <<>>
  /\ \A i \in DOMAIN list : list[i].do \in CallsOf[e]
  /\ e = "fill" => /\ 1 \in DOMAIN list /\ list[1].do \in {"win", "loss"}
                   /\ 2 \in DOMAIN list /\ list[2].do = "pnl"

(* What every new event changes, and what it leaves alone.                  *)
LEMMA ArriveBegins ==
  ASSUME NEW p \in Process, Arrive(p)
  PROVE  Restart(p) \/ \E e, list : Opening(e, list) /\ Begin(p, e, list)
<1>1. ASSUME NEW won \in BOOLEAN, NEW e \in Equity, OnTradeFill(p, won, e)
      PROVE  \E ev, list : Opening(ev, list) /\ Begin(p, ev, list)
  <2> DEFINE s == Call(IF won THEN "win" ELSE "loss")
             t == <<[do |-> "pnl", equity |-> e]>>
  <2>1. s \in Seq(CallType) /\ Len(s) = 1 /\ s[1].do \in {"win", "loss"}
    BY CallList DEF Do
  <2>2. t \in Seq(CallType) /\ Len(t) = 1 /\ t[1].do = "pnl"
    BY RiskAssumption DEF CallType, Do
  <2>3. Begin(p, "fill", s \o t)
    BY <1>1 DEF OnTradeFill
  <2> HIDE DEF s, t
  <2>4. s \o t \in Seq(CallType) /\ Len(s \o t) = 2
    BY <2>1, <2>2, ConcatProperties
  <2>5. (s \o t)[1] = s[1] /\ (s \o t)[2] = t[1]
    BY <2>1, <2>2, ConcatProperties
  <2>6. Opening("fill", s \o t)
    BY <2>1, <2>2, <2>4, <2>5 DEF Opening, Event, CallsOf
  <2> QED BY <2>3, <2>6
<1>2. ASSUME NEW do \in Do, NEW e \in Event \ {"none", "start", "fill"}, do \in CallsOf[e]
      PROVE  Opening(e, Call(do))
  BY <1>2, CallList DEF Opening
<1>3. CASE OnAutoHealEvent(p)
  <2>1. Opening("heal", Call("trigger"))  BY <1>2 DEF CallsOf, Event, Do
  <2> QED BY <1>3, <2>1 DEF OnAutoHealEvent
<1>4. CASE ResumeAggressive(p)
  <2>1. Opening("resume", Call("resume"))  BY <1>2 DEF CallsOf, Event, Do
  <2> QED BY <1>4, <2>1 DEF ResumeAggressive
<1>5. CASE CheckAutoRecovery(p)
  <2>1. Opening("recover", Call("recover"))  BY <1>2 DEF CallsOf, Event, Do
  <2> QED BY <1>5, <2>1 DEF CheckAutoRecovery
<1>6. ASSUME NEW mode \in {"SAFE", "AGGRESSIVE"}, CmdSetMode(p, mode)
      PROVE  \E ev, list : Opening(ev, list) /\ Begin(p, ev, list)
  <2>1. Opening("set", Call(mode))  BY <1>2 DEF CallsOf, Event, Do
  <2> QED BY <1>6, <2>1 DEF CmdSetMode
<1>7. CASE CheckMidnightReset(p)
  <2>1. Opening("midnight", Call("reset"))  BY <1>2 DEF CallsOf, Event, Do
  <2> QED BY <1>7, <2>1 DEF CheckMidnightReset
<1>8. CASE SaveState(p)
  <2>1. Opening("bus", Call("bus"))  BY <1>2 DEF CallsOf, Event, Do
  <2> QED BY <1>8, <2>1 DEF SaveState
<1> QED BY <1>1, <1>3, <1>4, <1>5, <1>6, <1>7, <1>8 DEF Arrive

(* Where a call begins.                                                     *)
LEMMA FirstFacts ==
  ASSUME NEW c \in CallType
  PROVE  /\ First(c) \in {"open", "updates", "counts", "asks"}
         /\ First(c) = "open" => c.do = "bus"
         /\ First(c) = "updates" => c.do \in {"win", "ensure"}
         /\ First(c) = "asks" => c.do \in ToSafe \cup ToAggressive
BY DEF First, CallType, Do, ToSafe, ToAggressive

-----------------------------------------------------------------------------
(* RiskMode: types.                                                        *)

(* The types hold at first.                                                 *)
LEMMA RiskTypeInit == RiskInit => RiskTypeOK
<1> SUFFICES ASSUME RiskInit PROVE RiskTypeOK
  OBVIOUS
<1>1. posix \in BOOLEAN /\ auto \in BOOLEAN
  BY RiskAssumption DEF RiskInit
<1>2. Default \in Section /\ Default \in Document /\ NoFile \in Document
  BY DEF Default, Section, Document
<1>3. \A p \in Process : Idle(p) /\ calls[p] = <<>> /\ at[p] = "idle" /\ handle[p] = "closed"
  BY DEF RiskInit, Idle
<1> QED BY <1>1, <1>2, <1>3 DEF RiskInit, RiskTypeOK, Event

(* What a step of process p leaves of the three variables that say how far   *)
(* the processes are.                                                        *)
Progress(p) ==
  /\ event' \in [Process -> Event]
  /\ calls' \in [Process -> Seq(CallType)]
  /\ at' \in [Process -> {"idle"} \cup Looks \cup {"open", "put", "rename"}]
  /\ \A q \in Process : /\ (event'[q] = "none") <=> (calls'[q] = <<>>)
                        /\ (event'[q] = "none") <=> (at'[q] = "idle")
  /\ \A q \in Process : q # p => /\ event'[q] = event[q] /\ calls'[q] = calls[q]
                                 /\ at'[q] = at[q]

(* A call that is done makes way for the next one.                          *)
LEMMA RemainingTypes ==
  ASSUME RiskTypeOK, NEW p \in Process, ~Idle(p), NEW list \in Seq(CallType), Remaining(p, list)
  PROVE  /\ Progress(p)
         /\ calls'[p] = list
         /\ event'[p] \in {event[p], "none"}
         /\ at'[p] \in {"idle", "open", "updates", "counts", "asks"}
         /\ at'[p] # "idle" => list # <<>> /\ at'[p] = First(Head(list)) /\ Head(list) \in CallType
<1> DEFINE a == IF list = <<>> THEN "idle" ELSE First(Head(list))
           e == IF list = <<>> THEN "none" ELSE event[p]
<1>1. list # <<>> => Head(list) \in CallType
  OBVIOUS
<1>2. a \in {"idle", "open", "updates", "counts", "asks"} /\ (a = "idle" <=> list = <<>>)
  BY <1>1, FirstFacts
<1>3. e \in Event /\ (e = "none" <=> list = <<>>) /\ e \in {event[p], "none"}
  BY DEF RiskTypeOK, Idle, Event
<1>4. /\ event' = [event EXCEPT ![p] = e] /\ calls' = [calls EXCEPT ![p] = list]
      /\ at' = [at EXCEPT ![p] = a]
  BY DEF Remaining
<1>5. a # "idle" => list # <<>> /\ a = First(Head(list)) /\ Head(list) \in CallType
  BY <1>1
<1> HIDE DEF a, e
<1>6. at' \in [Process -> {"idle"} \cup Looks \cup {"open", "put", "rename"}]
  BY <1>2, <1>4 DEF RiskTypeOK, Looks
<1>7. event' \in [Process -> Event] /\ calls' \in [Process -> Seq(CallType)]
  BY <1>3, <1>4 DEF RiskTypeOK
<1>8. /\ event'[p] = e /\ calls'[p] = list /\ at'[p] = a
      /\ \A q \in Process : q # p => event'[q] = event[q] /\ calls'[q] = calls[q] /\ at'[q] = at[q]
  BY <1>4 DEF RiskTypeOK
<1>9. \A q \in Process : /\ (event'[q] = "none") <=> (calls'[q] = <<>>)
                         /\ (event'[q] = "none") <=> (at'[q] = "idle")
  BY <1>2, <1>3, <1>8 DEF RiskTypeOK, Idle
<1>10. Progress(p)
  BY <1>6, <1>7, <1>8, <1>9 DEF Progress
<1> QED BY <1>2, <1>3, <1>5, <1>8, <1>10

(* A call that goes on stays the one it is.                                 *)
LEMMA GoesOnTypes ==
  ASSUME RiskTypeOK, NEW p \in Process, ~Idle(p),
         NEW where \in Looks \cup {"open", "put", "rename"},
         at' = [at EXCEPT ![p] = where], UNCHANGED <<event, calls>>
  PROVE  Progress(p) /\ at'[p] = where
<1>1. where # "idle"
  BY DEF Looks
<1> QED BY <1>1 DEF RiskTypeOK, Idle, Progress

(* The list that is left after the head of p's.                              *)
LEMMA TailType ==
  ASSUME RiskTypeOK, NEW p \in Process, ~Idle(p)
  PROVE  /\ calls[p] # <<>> /\ calls[p] \in Seq(CallType)
         /\ Head(calls[p]) \in CallType /\ Tail(calls[p]) \in Seq(CallType)
BY DEF RiskTypeOK

(* Where p is, when it is not idle.                                          *)
LEMMA AtMeansBusy ==
  ASSUME RiskTypeOK, NEW p \in Process, at[p] # "idle"
  PROVE  ~Idle(p)
BY DEF RiskTypeOK

(* What an update's end changes.                                             *)
LEMMA ReturnTypes ==
  ASSUME RiskTypeOK, NEW p \in Process, NEW ok \in BOOLEAN, ~Idle(p), Return(p, ok)
  PROVE  /\ Progress(p) /\ at'[p] \in {"idle", "open", "updates", "counts", "asks"}
         /\ posix' \in BOOLEAN /\ auto' \in BOOLEAN /\ events' \in Nat /\ streak' \in Nat
         /\ seen' \in [Process -> Section] /\ base' \in [Process -> Document]
         /\ profile' \in [Process -> {"none", "SAFE", "AGGRESSIVE"}]
<1> DEFINE c == Head(calls[p])
           list == Followup(c, seen[p]) \o Tail(calls[p])
<1>1. calls[p] # <<>> /\ calls[p] \in Seq(CallType) /\ c \in CallType /\ seen[p] \in Section
  BY TailType DEF RiskTypeOK
<1>2. list \in Seq(CallType)
  BY <1>1, FollowupFacts, HeadReplaced DEF Spliced
<1>3. Remaining(p, list)
  BY DEF Return
<1>4. \A m \in {"none", "SAFE", "AGGRESSIVE"} : ModeAfter(c, m) \in {"none", "SAFE", "AGGRESSIVE"}
  BY DEF ModeAfter
<1>5. Default \in Section /\ Default \in Document
  BY DEF Default, Section, Document
<1> HIDE DEF c, list
<1>6. profile' \in [Process -> {"none", "SAFE", "AGGRESSIVE"}]
  BY <1>4 DEF Return, c, RiskTypeOK
<1>7. streak' \in Nat
  BY DEF Return, RiskTypeOK
<1>8. posix' \in BOOLEAN /\ auto' \in BOOLEAN /\ events' \in Nat
  BY DEF Return, RiskTypeOK
<1>9. seen' \in [Process -> Section] /\ base' \in [Process -> Document]
  BY <1>5 DEF Return, RiskTypeOK
<1>10. Progress(p) /\ at'[p] \in {"idle", "open", "updates", "counts", "asks"}
  BY <1>2, <1>3, RemainingTypes
<1> QED BY <1>6, <1>7, <1>8, <1>9, <1>10

(* A failed access is one of the kinds there are.                            *)
LEMMA ReadsTypes ==
  ASSUME RiskTypeOK, NEW p \in Process, at[p] \in Looks, NEW content, Reads(p, content)
  PROVE  missed' \subseteq Looks \cup {"write"} /\ content \in {file, NoFile} /\ ~Idle(p)
BY DEF Reads, Misses, RiskTypeOK, Looks

(* Every step keeps the types.                                              *)
LEMMA RiskTypeStep == RiskTypeOK /\ [RiskNext]_riskVars => RiskTypeOK'
<1> SUFFICES ASSUME RiskTypeOK, [RiskNext]_riskVars PROVE RiskTypeOK'
  OBVIOUS
<1>0. /\ Default \in Section /\ Default \in Document /\ Torn # NoFile
      /\ Torn \in Document /\ NoFile \in Document /\ Foreign \in Document /\ Foreign # NoFile
      /\ \A s \in Section : s # NoFile /\ s \in Document
  BY DEF Default, Section, Document, Torn, NoFile, Foreign
<1>a. /\ posix \in BOOLEAN /\ auto \in BOOLEAN /\ alone \in BOOLEAN
      /\ file \in Document /\ temp \in Document
      /\ seen \in [Process -> Section] /\ base \in [Process -> Document]
      /\ handle \in [Process -> {"closed", "temp", "file", "gone"}]
      /\ profile \in [Process -> {"none", "SAFE", "AGGRESSIVE"}]
      /\ events \in Nat /\ streak \in Nat
      /\ missed \subseteq Looks \cup {"write"}
      /\ event \in [Process -> Event] /\ calls \in [Process -> Seq(CallType)]
      /\ at \in [Process -> {"idle"} \cup Looks \cup {"open", "put", "rename"}]
      /\ \A q \in Process : /\ (event[q] = "none") <=> (calls[q] = <<>>)
                            /\ (event[q] = "none") <=> (at[q] = "idle")
                            /\ handle[q] # "closed" => at[q] = "put"
                            /\ handle[q] = "temp" => temp # NoFile
  BY DEF RiskTypeOK, Idle
<1>b. ASSUME NEW p \in Process, Progress(p),
             posix' \in BOOLEAN, auto' \in BOOLEAN, alone' \in BOOLEAN,
             file' \in Document, temp' \in Document,
             seen' \in [Process -> Section], base' \in [Process -> Document],
             handle' \in [Process -> {"closed", "temp", "file", "gone"}],
             profile' \in [Process -> {"none", "SAFE", "AGGRESSIVE"}],
             events' \in Nat, streak' \in Nat, missed' \subseteq Looks \cup {"write"},
             \A q \in Process : /\ handle'[q] # "closed" => at'[q] = "put"
                                /\ handle'[q] = "temp" => temp' # NoFile
      PROVE  RiskTypeOK'
  BY <1>b DEF RiskTypeOK, Progress, Idle
<1>c. ASSUME NEW p \in Process, Progress(p), at[p] \in Looks, UNCHANGED <<temp, handle>>
      PROVE  \A q \in Process : /\ handle'[q] # "closed" => at'[q] = "put"
                                /\ handle'[q] = "temp" => temp' # NoFile
  <2>1. handle[p] = "closed"
    BY <1>a, <1>c DEF Looks
  <2> QED BY <1>a, <1>c, <2>1 DEF Progress
<1>1. CASE UNCHANGED riskVars
  BY <1>1 DEF riskVars, RiskTypeOK, Idle
<1>2. ASSUME NEW p \in Process, NEW e, NEW list, Opening(e, list), Begin(p, e, list)
      PROVE  RiskTypeOK'
  <2>1. e \in Event /\ e # "none" /\ list \in Seq(CallType) /\ list # <<>>
    BY <1>2 DEF Opening
  <2>2. Head(list) \in CallType
    BY <2>1
  <2>3. First(Head(list)) \in {"open", "updates", "counts", "asks"}
    BY <2>2, FirstFacts
  <2>4. /\ UNCHANGED <<posix, auto, file, temp, seen, base, handle, profile, streak, missed>>
        /\ events' = events + 1
        /\ event' = [event EXCEPT ![p] = e] /\ calls' = [calls EXCEPT ![p] = list]
        /\ at' = [at EXCEPT ![p] = First(Head(list))]
        /\ event[p] = "none"
    BY <1>2 DEF Begin, Idle
  <2>5. alone' \in BOOLEAN
    BY <1>2 DEF Begin
  <2>6. at' \in [Process -> {"idle"} \cup Looks \cup {"open", "put", "rename"}]
    BY <1>a, <2>3, <2>4 DEF Looks
  <2>7. Progress(p)
    BY <1>a, <2>1, <2>3, <2>4, <2>6 DEF Progress
  <2>8. \A q \in Process : /\ handle'[q] # "closed" => at'[q] = "put"
                           /\ handle'[q] = "temp" => temp' # NoFile
    BY <1>a, <2>4 DEF Progress
  <2>9. posix' \in BOOLEAN /\ auto' \in BOOLEAN
    BY <1>a, <2>4, Zenon
  <2>10. /\ file' \in Document /\ temp' \in Document
         /\ seen' \in [Process -> Section] /\ base' \in [Process -> Document]
         /\ handle' \in [Process -> {"closed", "temp", "file", "gone"}]
         /\ profile' \in [Process -> {"none", "SAFE", "AGGRESSIVE"}]
         /\ streak' \in Nat /\ missed' \subseteq Looks \cup {"write"}
    BY <1>a, <2>4, Zenon
  <2>11. events' \in Nat
    BY <1>a, <2>4
  <2> QED BY <1>b, <2>5, <2>7, <2>8, <2>9, <2>10, <2>11, Zenon
<1>3. ASSUME NEW p \in Process, Restart(p) PROVE RiskTypeOK'
  <2>1. Call("ensure") \in Seq(CallType) /\ Call("ensure") # <<>>
    BY CallList DEF Do
  <2>2. /\ event' = [event EXCEPT ![p] = "start"] /\ calls' = [calls EXCEPT ![p] = Call("ensure")]
        /\ at' = [at EXCEPT ![p] = "updates"] /\ handle' = [handle EXCEPT ![p] = "closed"]
        /\ UNCHANGED <<posix, auto, file, temp, streak, missed>> /\ alone' = FALSE
        /\ events' = events + 1
    BY <1>3 DEF Restart
  <2>3. /\ seen' \in [Process -> Section] /\ base' \in [Process -> Document]
        /\ profile' \in [Process -> {"none", "SAFE", "AGGRESSIVE"}]
    BY <1>0, <1>3, <1>a DEF Restart
  <2>4. "start" \in Event /\ "start" # "none" /\ "updates" \in Looks /\ "updates" # "idle"
    BY DEF Event, Looks
  <2>5. Progress(p)
    BY <1>a, <2>1, <2>2, <2>4 DEF Progress
  <2>6. \A q \in Process : /\ handle'[q] # "closed" => at'[q] = "put"
                           /\ handle'[q] = "temp" => temp' # NoFile
    BY <1>a, <2>2
  <2>7. handle' \in [Process -> {"closed", "temp", "file", "gone"}]
    BY <1>a, <2>2
  <2>8. posix' \in BOOLEAN /\ auto' \in BOOLEAN /\ alone' \in BOOLEAN
    BY <1>a, <2>2, Zenon
  <2>9. /\ file' \in Document /\ temp' \in Document
        /\ streak' \in Nat /\ missed' \subseteq Looks \cup {"write"}
    BY <1>a, <2>2, Zenon
  <2>10. events' \in Nat
    BY <1>a, <2>2
  <2> QED BY <1>b, <2>3, <2>5, <2>6, <2>7, <2>8, <2>9, <2>10, Zenon
<1>4. ASSUME NEW p \in Process, at[p] \in Looks, ~Idle(p),
             Remaining(p, Tail(calls[p])) \/ \E where \in Looks \cup {"open"} : GoesOn(p, where),
             missed' \subseteq Looks \cup {"write"},
             UNCHANGED <<posix, auto, file, temp, handle, profile, events, streak, alone>>,
             seen' \in [Process -> Section], base' \in [Process -> Document]
      PROVE  RiskTypeOK'
  <2>1. Progress(p)
    <3>1. CASE Remaining(p, Tail(calls[p]))
      BY <1>4, <3>1, TailType, RemainingTypes
    <3>2. CASE \E where \in Looks \cup {"open"} : GoesOn(p, where)
      BY <1>4, <3>2, GoesOnTypes DEF GoesOn
    <3> QED BY <1>4, <3>1, <3>2
  <2> QED BY <1>a, <1>b, <1>c, <1>4, <2>1
<1>5. ASSUME NEW p \in Process, AskMode(p) \/ JudgeRecovery(p) PROVE RiskTypeOK'
  <2>1. at[p] \in Looks /\ \E content : Reads(p, content)
    BY <1>5 DEF AskMode, JudgeRecovery, Looks
  <2>2. missed' \subseteq Looks \cup {"write"} /\ ~Idle(p)
    BY <2>1, ReadsTypes
  <2>3. Remaining(p, Tail(calls[p])) \/ \E where \in Looks \cup {"open"} : GoesOn(p, where)
    BY <1>5 DEF AskMode, JudgeRecovery, Looks
  <2>4. UNCHANGED <<posix, auto, file, temp, handle, profile, events, streak, alone, seen, base>>
    BY <1>5 DEF AskMode, JudgeRecovery
  <2> QED BY <1>a, <1>4, <2>1, <2>2, <2>3, <2>4
<1>6. ASSUME NEW p \in Process, SwitchMode(p) PROVE RiskTypeOK'
  <2>1. at[p] \in Looks /\ \E content : Reads(p, content)
    BY <1>6 DEF SwitchMode, Looks
  <2>2. missed' \subseteq Looks \cup {"write"} /\ ~Idle(p)
    BY <2>1, ReadsTypes
  <2>3. UNCHANGED <<file, temp, handle, alone>>
    BY <1>6 DEF SwitchMode
  <2>4. CASE Return(p, TRUE)
    BY <1>a, <1>b, <1>c, <2>1, <2>2, <2>3, <2>4, ReturnTypes
  <2>5. CASE GoesOn(p, "updates") /\ UNCHANGED <<posix, auto, seen, base, profile, events, streak>>
    BY <1>a, <1>4, <2>1, <2>2, <2>3, <2>5 DEF Looks
  <2> QED BY <1>6, <2>4, <2>5 DEF SwitchMode
<1>7. ASSUME NEW p \in Process, Count(p) PROVE RiskTypeOK'
  <2>1. at[p] \in Looks /\ \E content : Reads(p, content)
    BY <1>7 DEF Count, Looks
  <2>2. missed' \subseteq Looks \cup {"write"} /\ ~Idle(p)
    BY <2>1, ReadsTypes
  <2>3. View(file) \in Section /\ View(NoFile) \in Section
    BY <1>0, <1>a, ViewType
  <2>4. UNCHANGED <<posix, auto, file, temp, handle, profile, events, streak, alone, base>>
    BY <1>7 DEF Count
  <2>6. \/ \E content \in {file, NoFile} : seen' = [seen EXCEPT ![p] = View(content)]
        \/ seen' = [seen EXCEPT ![p] = seen[p]]
        \/ seen' = seen
    BY <1>7 DEF Count
  <2>7. seen \in [Process -> Section]
    BY <1>a
  <2>8. seen' \in [Process -> Section]
    BY <2>3, <2>6, <2>7
  <2>9. base' \in [Process -> Document]
    BY <1>a, <2>4
  <2>5. Remaining(p, Tail(calls[p])) \/ \E where \in Looks \cup {"open"} : GoesOn(p, where)
    BY <1>7 DEF Count, Looks
  <2> QED BY <1>4, <2>1, <2>2, <2>4, <2>5, <2>8, <2>9
<1>8. ASSUME NEW p \in Process, Read(p) PROVE RiskTypeOK'
  <2>1. at[p] \in Looks /\ \E content : Reads(p, content)
    BY <1>8 DEF Read, Looks
  <2>2. missed' \subseteq Looks \cup {"write"} /\ ~Idle(p)
    BY <2>1, ReadsTypes
  <2>3. UNCHANGED <<posix, auto, file, temp, handle, profile, events, streak, alone, seen>>
    BY <1>8 DEF Read
  <2>5. PICK content \in {file, NoFile} : base' = base \/ base' = [base EXCEPT ![p] = content]
    BY <1>8 DEF Read
  <2>a. content \in Document /\ base \in [Process -> Document]
    BY <1>0, <1>a
  <2>6. base' \in [Process -> Document]
    BY <2>5, <2>a
  <2>7. seen' \in [Process -> Section]
    BY <1>a, <2>3
  <2>4. Remaining(p, Tail(calls[p])) \/ \E where \in Looks \cup {"open"} : GoesOn(p, where)
    BY <1>8 DEF Read
  <2> QED BY <1>4, <2>1, <2>2, <2>3, <2>4, <2>6, <2>7
<1>9. ASSUME NEW p \in Process, Open(p) PROVE RiskTypeOK'
  <2>1. /\ at' = [at EXCEPT ![p] = "put"] /\ handle' = [handle EXCEPT ![p] = "temp"]
        /\ temp' = Torn /\ ~Idle(p)
        /\ UNCHANGED <<posix, auto, file, event, calls, seen, base, profile, events,
                       streak, alone, missed>>
    BY <1>9, AtMeansBusy DEF Open
  <2>2. Progress(p) /\ at'[p] = "put"
    BY <2>1, GoesOnTypes
  <2>3. handle' \in [Process -> {"closed", "temp", "file", "gone"}]
    BY <1>a, <2>1
  <2>4. \A q \in Process : /\ handle'[q] # "closed" => at'[q] = "put"
                           /\ handle'[q] = "temp" => temp' # NoFile
    BY <1>0, <1>a, <2>1, <2>2 DEF Progress
  <2> QED BY <1>0, <1>a, <1>b, <2>1, <2>2, <2>3, <2>4
<1>10. ASSUME NEW p \in Process, Put(p) PROVE RiskTypeOK'
  <2>0. ~Idle(p)
    BY <1>10, AtMeansBusy DEF Put
  <2>1. Content(p) \in Document /\ Content(p) # NoFile
    BY <1>0, <1>10, ContentType DEF Put
  <2>2. PICK text \in {Content(p), Torn} : /\ temp' = IF handle[p] = "temp" THEN text ELSE temp
                                           /\ file' = IF handle[p] = "file" THEN text ELSE file
    BY <1>10 DEF Put
  <2>3. text \in Document /\ text # NoFile
    BY <1>0, <2>1
  <2>4. /\ handle' = [handle EXCEPT ![p] = "closed"] /\ at' = [at EXCEPT ![p] = "rename"]
        /\ UNCHANGED <<posix, auto, event, calls, seen, base, profile, events, streak, alone, missed>>
    BY <1>10 DEF Put
  <2>5. Progress(p)
    BY <2>0, <2>4, GoesOnTypes
  <2>6. handle' \in [Process -> {"closed", "temp", "file", "gone"}]
    BY <1>a, <2>4
  <2>7. \A q \in Process : /\ handle'[q] # "closed" => at'[q] = "put"
                           /\ handle'[q] = "temp" => temp' # NoFile
    BY <1>a, <2>2, <2>3, <2>4
  <2>8. posix' \in BOOLEAN /\ auto' \in BOOLEAN /\ alone' \in BOOLEAN
    BY <1>a, <2>4, Zenon
  <2>9. /\ seen' \in [Process -> Section] /\ base' \in [Process -> Document]
        /\ profile' \in [Process -> {"none", "SAFE", "AGGRESSIVE"}]
        /\ events' \in Nat /\ streak' \in Nat /\ missed' \subseteq Looks \cup {"write"}
    BY <1>a, <2>4, Zenon
  <2>a. file \in Document /\ temp \in Document
    BY <1>a
  <2>10. file' \in Document /\ temp' \in Document
    BY <2>2, <2>3, <2>a
  <2> QED BY <1>b, <2>5, <2>6, <2>7, <2>8, <2>9, <2>10, Zenon
<1>11. ASSUME NEW p \in Process, Rename(p) PROVE RiskTypeOK'
  <2>a. handle \in [Process -> {"closed", "temp", "file", "gone"}]
    BY <1>a
  <2>1. handle' \in [Process -> {"closed", "temp", "file", "gone"}]
    BY <1>11, <2>a DEF Rename
  <2>2. /\ at[p] = "rename" /\ Return(p, TRUE) /\ file' = temp /\ temp' = NoFile
        /\ alone' \in BOOLEAN /\ missed' = missed /\ ~Idle(p)
    BY <1>11, AtMeansBusy DEF Rename
  <2>3. Progress(p)
    BY <2>2, ReturnTypes
  <2>4. \A q \in Process : handle'[q] # "temp" /\ (handle'[q] # "closed" => handle[q] # "closed")
    BY <1>11, <1>a DEF Rename
  <2>5. \A q \in Process : handle'[q] # "closed" => at'[q] = "put"
    BY <1>a, <2>2, <2>3, <2>4 DEF Progress
  <2> QED BY <1>0, <1>a, <1>b, <2>1, <2>2, <2>3, <2>4, <2>5, ReturnTypes
<1>12. ASSUME NEW p \in Process, WriteFails(p) PROVE RiskTypeOK'
  <2>1. /\ at[p] \in {"open", "put", "rename"} /\ Return(p, FALSE) /\ alone' = alone
        /\ handle' = [handle EXCEPT ![p] = "closed"] /\ ~Idle(p)
    BY <1>12, AtMeansBusy DEF WriteFails
  <2>2. Content(p) \in Document /\ Content(p) # NoFile
    BY <1>0, <2>1, ContentType
  <2>3. /\ temp' \in Document /\ file' \in Document
        /\ temp # NoFile => temp' # NoFile
    BY <1>0, <1>12, <1>a, <2>2 DEF WriteFails
  <2>4. missed' \subseteq Looks \cup {"write"}
    BY <1>12, <1>a DEF WriteFails, Misses
  <2>5. Progress(p)
    BY <2>1, ReturnTypes
  <2>6. handle' \in [Process -> {"closed", "temp", "file", "gone"}]
    BY <1>a, <2>1
  <2>7. \A q \in Process : /\ handle'[q] # "closed" => at'[q] = "put"
                           /\ handle'[q] = "temp" => temp' # NoFile
    BY <1>a, <2>1, <2>3, <2>5 DEF Progress
  <2> QED BY <1>a, <1>b, <2>1, <2>3, <2>4, <2>5, <2>6, <2>7, ReturnTypes
<1>13. ASSUME NEW p \in Process, GetCurrentProfile(p) PROVE RiskTypeOK'
  <2>1. View(file).mode \in {"SAFE", "AGGRESSIVE"} /\ View(NoFile).mode \in {"SAFE", "AGGRESSIVE"}
    BY <1>0, <1>a, ViewType DEF Section
  <2>2. UNCHANGED <<posix, auto, file, temp, event, calls, at, seen, base, handle,
                    events, streak, alone, missed>>
    BY <1>13 DEF GetCurrentProfile
  <2>3. profile' \in [Process -> {"none", "SAFE", "AGGRESSIVE"}]
    BY <1>13, <1>a, <2>1 DEF GetCurrentProfile
  <2> QED BY <1>a, <2>2, <2>3 DEF RiskTypeOK, Idle
<1> QED BY <1>1, <1>2, <1>3, <1>5, <1>6, <1>7, <1>8, <1>9, <1>10, <1>11, <1>12, <1>13,
           ArriveBegins DEF RiskNext, Handle

(* RiskTypeOK for every process set, policy and threshold.                 *)
THEOREM RiskTypesHold == RiskSpec => []RiskTypeOK
BY RiskTypeInit, RiskTypeStep, PTL DEF RiskSpec


-----------------------------------------------------------------------------
(* RiskMode: which calls an event makes.                                   *)

(* What a call tells about the event that makes it.                        *)
LEMMA CallTellsEvent ==
  ASSUME NEW e \in Event, NEW do \in CallsOf[e]
  PROVE  /\ do \in {"win", "loss", "pnl"} => e = "fill"
         /\ do = "ensure" => e = "start"
         /\ do = "bus" => e = "bus"
         /\ e = "fill" => do \in {"win", "loss", "pnl", "trigger"}
BY DEF Event, CallsOf

(* The head of a process's list is one of its event's calls.               *)
LEMMA HeadFits ==
  ASSUME RiskTypeOK, CallsFit, NEW p \in Process, ~Idle(p)
  PROVE  /\ calls[p] # <<>> /\ calls[p] \in Seq(CallType)
         /\ Head(calls[p]) = calls[p][1] /\ Head(calls[p]) \in CallType
         /\ Head(calls[p]).do \in CallsOf[event[p]]
<1>1. calls[p] # <<>> /\ calls[p] \in Seq(CallType)
  BY DEF RiskTypeOK
<1>2. 1 \in DOMAIN calls[p] /\ Head(calls[p]) = calls[p][1] /\ Head(calls[p]) \in CallType
  BY <1>1
<1> QED BY <1>1, <1>2 DEF CallsFit

(* An idle process only loads its profile.                                  *)
LEMMA IdleLoads ==
  ASSUME RiskTypeOK, NEW p \in Process, Handle(p), Idle(p)
  PROVE  GetCurrentProfile(p)
<1>1. at[p] = "idle"
  BY DEF RiskTypeOK
<1> QED BY <1>1 DEF Handle, AskMode, JudgeRecovery, SwitchMode, Count, Read, Open, Put,
                     Rename, WriteFails

(* The calls of a process after a step of its own: as they were, without the *)
(* first, or with what that one's numbers ask for in its place.              *)
LEMMA HandleMoves ==
  ASSUME RiskTypeOK, NEW p \in Process, Handle(p), ~GetCurrentProfile(p)
  PROVE  /\ ~Idle(p)
         /\ \/ UNCHANGED <<calls, event>>
            \/ Remaining(p, Tail(calls[p]))
            \/ Return(p, TRUE) \/ Return(p, FALSE)
<1>1. ~Idle(p)
  BY IdleLoads
<1>2. CASE AskMode(p) \/ JudgeRecovery(p)
  BY <1>1, <1>2 DEF AskMode, JudgeRecovery, GoesOn
<1>3. CASE SwitchMode(p)
  BY <1>1, <1>3 DEF SwitchMode, GoesOn
<1>4. CASE Count(p) \/ Read(p)
  BY <1>1, <1>4 DEF Count, Read, GoesOn
<1>5. CASE Open(p) \/ Put(p)
  BY <1>1, <1>5 DEF Open, Put
<1>6. CASE Rename(p) \/ WriteFails(p)
  BY <1>1, <1>6 DEF Rename, WriteFails
<1> QED BY <1>2, <1>3, <1>4, <1>5, <1>6 DEF Handle

(* An event makes its own calls only.                                       *)
LEMMA CallsFitStep == RiskTypeOK /\ CallsFit /\ [RiskNext]_riskVars => CallsFit'
<1> SUFFICES ASSUME RiskTypeOK, CallsFit, [RiskNext]_riskVars PROVE CallsFit'
  OBVIOUS
<1>0. event \in [Process -> Event] /\ calls \in [Process -> Seq(CallType)]
  BY DEF RiskTypeOK
<1>1. CASE UNCHANGED <<calls, event>>
  BY <1>1 DEF CallsFit
<1>2. ASSUME NEW p \in Process, NEW e, NEW list, Opening(e, list), Begin(p, e, list)
      PROVE  CallsFit'
  BY <1>0, <1>2 DEF Opening, Begin, CallsFit
<1>3. ASSUME NEW p \in Process, Restart(p) PROVE CallsFit'
  <2>1. \A i \in DOMAIN Call("ensure") : Call("ensure")[i].do \in CallsOf["start"]
    <3>1. Call("ensure") \in Seq(CallType) /\ Len(Call("ensure")) = 1 /\ Call("ensure")[1].do = "ensure"
      BY CallList DEF Do
    <3> QED BY <3>1 DEF CallsOf
  <2> QED BY <1>0, <1>3, <2>1 DEF Restart, CallsFit
<1>4. ASSUME NEW p \in Process, ~Idle(p), NEW list \in Seq(CallType), Remaining(p, list),
             \A i \in DOMAIN list : list[i].do \in CallsOf[event[p]]
      PROVE  CallsFit'
  <2>1. \A i \in DOMAIN list : list # <<>>
    OBVIOUS
  <2> QED BY <1>0, <1>4, <2>1 DEF Remaining, CallsFit
<1>5. ASSUME NEW p \in Process, ~Idle(p), Remaining(p, Tail(calls[p])) PROVE CallsFit'
  <2>1. calls[p] \in Seq(CallType) /\ calls[p] # <<>>
    BY <1>5, HeadFits
  <2>2. Tail(calls[p]) \in Seq(CallType)
        /\ \A i \in DOMAIN Tail(calls[p]) : i + 1 \in DOMAIN calls[p]
                                         /\ Tail(calls[p])[i] = calls[p][i + 1]
    BY <2>1
  <2> QED BY <1>4, <1>5, <2>2 DEF CallsFit
<1>6. ASSUME NEW p \in Process, NEW ok, ~Idle(p), Return(p, ok) PROVE CallsFit'
  <2> DEFINE t == Followup(Head(calls[p]), seen[p])
  <2>1. Remaining(p, t \o Tail(calls[p])) /\ seen[p] \in Section
    BY <1>6 DEF RiskTypeOK, Return
  <2>2. /\ calls[p] # <<>> /\ calls[p] \in Seq(CallType) /\ Head(calls[p]) \in CallType
        /\ Head(calls[p]).do \in CallsOf[event[p]]
    BY <1>6, HeadFits
  <2>3. /\ t \in Seq(CallType)
        /\ \A i \in DOMAIN t : t[i].do = "trigger"
        /\ t # <<>> => Head(calls[p]).do \in {"loss", "pnl"}
    BY <2>1, <2>2, FollowupFacts
  <2>4. t # <<>> => event[p] = "fill"
    BY <1>0, <2>2, <2>3, CallTellsEvent
  <2>5. \A i \in DOMAIN t : t[i].do \in CallsOf[event[p]]
    BY <2>3, <2>4 DEF CallsOf
  <2> HIDE DEF t
  <2>6. /\ t \o Tail(calls[p]) \in Seq(CallType)
        /\ \A i \in DOMAIN (t \o Tail(calls[p])) :
             \/ i \in DOMAIN t /\ (t \o Tail(calls[p]))[i] = t[i]
             \/ \E j \in DOMAIN calls[p] : j >= 2 /\ (t \o Tail(calls[p]))[i] = calls[p][j]
    <3>1. Spliced(t \o Tail(calls[p]), t, calls[p], CallType)
      BY <2>2, <2>3, HeadReplaced
    <3> QED BY <3>1 DEF Spliced
  <2>7. \A i \in DOMAIN (t \o Tail(calls[p])) : (t \o Tail(calls[p]))[i].do \in CallsOf[event[p]]
    BY <2>5, <2>6 DEF CallsFit
  <2> QED BY <1>4, <1>6, <2>1, <2>6, <2>7
<1>7. CASE UNCHANGED riskVars
  BY <1>1, <1>7 DEF riskVars
<1>8. ASSUME NEW p \in Process, Handle(p) PROVE CallsFit'
  <2>1. CASE GetCurrentProfile(p)
    BY <1>1, <2>1 DEF GetCurrentProfile
  <2> QED BY <1>1, <1>5, <1>6, <1>8, <2>1, HandleMoves
<1> QED BY <1>2, <1>3, <1>7, <1>8, ArriveBegins DEF RiskNext

-----------------------------------------------------------------------------
(* RiskMode: what holds while events do not overlap.                       *)

(* A history that was disturbed stays so, and a failed access counts for    *)
(* good.                                                                     *)
LEMMA HistoryStays == [RiskNext]_riskVars => (alone' => alone) /\ missed \subseteq missed'
<1> SUFFICES ASSUME [RiskNext]_riskVars PROVE (alone' => alone) /\ missed \subseteq missed'
  OBVIOUS
<1>1. ASSUME NEW p \in Process, Arrive(p) PROVE (alone' => alone) /\ missed' = missed
  <2>1. CASE Restart(p)  BY <2>1, Zenon DEF Restart
  <2>2. ASSUME NEW e, NEW list, Begin(p, e, list) PROVE (alone' => alone) /\ missed' = missed
    BY <2>2, Zenon DEF Begin
  <2> QED BY <1>1, <2>1, <2>2, ArriveBegins
<1>2. ASSUME NEW p \in Process, Handle(p) PROVE alone' => alone
  BY <1>2 DEF Handle, AskMode, JudgeRecovery, SwitchMode, Count, Read, Open, Put, Rename,
              WriteFails, GetCurrentProfile
<1>3. ASSUME NEW p \in Process, Handle(p) PROVE missed \subseteq missed'
  <2>1. ASSUME NEW what, Misses(what) PROVE missed \subseteq missed'
    BY <2>1 DEF Misses
  <2>2. ASSUME NEW content, Reads(p, content) PROVE missed \subseteq missed'
    BY <2>1, <2>2 DEF Reads
  <2>3. CASE AskMode(p) \/ JudgeRecovery(p) \/ SwitchMode(p)
    BY <2>2, <2>3 DEF AskMode, JudgeRecovery, SwitchMode
  <2>4. CASE Count(p) \/ Read(p)
    BY <2>2, <2>4 DEF Count, Read
  <2>5. CASE Open(p) \/ Put(p) \/ Rename(p) \/ GetCurrentProfile(p)
    BY <2>5 DEF Open, Put, Rename, GetCurrentProfile
  <2>6. CASE WriteFails(p)
    BY <2>1, <2>6 DEF WriteFails
  <2> QED BY <1>3, <2>3, <2>4, <2>5, <2>6 DEF Handle
<1>4. CASE UNCHANGED riskVars  BY <1>4 DEF riskVars
<1> QED BY <1>1, <1>2, <1>3, <1>4 DEF RiskNext

(* What the process in a call knows: nobody else is in one.                 *)
LEMMA CallAlone ==
  ASSUME RiskTypeOK, CallsFit, OneAtATime, alone, NEW p \in Process, ~Idle(p)
  PROVE  /\ file \in Section /\ View(file) = file
         /\ \A q \in Process : q # p => Idle(q) /\ at[q] = "idle" /\ handle[q] = "closed"
         /\ Head(calls[p]) \in CallType /\ Head(calls[p]).do # "ensure"
         /\ Head(calls[p]).do \in CallsOf[event[p]]
<1>1. file \in Section /\ View(file) = file
  BY ViewType DEF OneAtATime, RiskTypeOK
<1>2. \A q \in Process : q # p => Idle(q) /\ at[q] = "idle" /\ handle[q] = "closed"
  BY DEF OneAtATime, RiskTypeOK
<1>3. Head(calls[p]) \in CallType /\ Head(calls[p]).do \in CallsOf[event[p]]
  BY HeadFits
<1>4. event[p] \in Event /\ event[p] # "start"
  BY DEF OneAtATime, RiskTypeOK
<1> QED BY <1>1, <1>2, <1>3, <1>4, CallTellsEvent

(* What replaces the file: a document with the fields of the call set, in   *)
(* the file as it is, unless the update could not read it; and counted from *)
(* the numbers in the file, unless those could not be read.                 *)
LEMMA RenameAlone ==
  ASSUME RiskTypeOK, CallsFit, OneAtATime, CallInOrder, NEW p \in Process, Rename(p), alone'
  PROVE  /\ alone /\ ~Idle(p)
         /\ Head(calls[p]).do # "bus"
         /\ file' = Merged(Head(calls[p]), seen[p], View(base[p]))
         /\ base[p] = file \/ (base[p] = NoFile /\ "updates" \in missed)
         /\ Head(calls[p]).do \in {"loss", "pnl"} => seen[p] = file \/ "counts" \in missed
         /\ missed' = missed
<1>1. alone /\ ~Idle(p) /\ at[p] = "rename" /\ file' = temp /\ Head(calls[p]).do # "bus"
      /\ missed' = missed
  BY AtMeansBusy DEF Rename
<1>2. temp = Content(p) /\ (base[p] = file \/ (base[p] = NoFile /\ "updates" \in missed))
      /\ (Head(calls[p]).do \in {"loss", "pnl"} => seen[p] = file \/ "counts" \in missed)
  BY <1>1 DEF CallInOrder
<1>3. file # Foreign /\ NoFile # Foreign
  BY <1>1, CallAlone DEF Section, Foreign, NoFile, Default
<1>4. file' = Merged(Head(calls[p]), seen[p], View(base[p]))
  BY <1>1, <1>2, <1>3 DEF Content
<1> QED BY <1>1, <1>2, <1>4

(* A second event in the meantime, a cut or a StateBus write disturbs.      *)
LEMMA OneAtATimeStep ==
  RiskTypeOK /\ CallsFit /\ OneAtATime /\ CallInOrder /\ [RiskNext]_riskVars => OneAtATime'
<1> SUFFICES ASSUME RiskTypeOK, CallsFit, OneAtATime, CallInOrder, [RiskNext]_riskVars, alone'
             PROVE  OneAtATime'
  BY DEF OneAtATime
<1>0. /\ alone /\ file \in Section
      /\ \A p, q \in Process : ~Idle(p) /\ ~Idle(q) => p = q
      /\ \A p \in Process : event[p] # "start" /\ handle[p] \in {"closed", "temp"}
      /\ event \in [Process -> Event] /\ handle \in [Process -> {"closed", "temp", "file", "gone"}]
  BY HistoryStays DEF OneAtATime, RiskTypeOK
<1>1. CASE UNCHANGED <<file, event, handle>>
  BY <1>0, <1>1 DEF OneAtATime, Idle
<1>2. ASSUME NEW p \in Process, NEW e, NEW list, Opening(e, list), Begin(p, e, list)
      PROVE  OneAtATime'
  BY <1>0, <1>2 DEF Opening, Begin, OneAtATime, Idle, Others
<1>3. ASSUME NEW p \in Process, Restart(p) PROVE OneAtATime'
  BY <1>3 DEF Restart
<1>4. ASSUME NEW p \in Process, ~Idle(p), file' \in Section,
             UNCHANGED <<calls, event>> \/ \E list : Remaining(p, list),
             \A q \in Process : handle'[q] \in {"closed", "temp"}
      PROVE  OneAtATime'
  <2>1. CASE UNCHANGED <<calls, event>>
    BY <1>0, <1>4, <2>1 DEF OneAtATime, Idle
  <2>2. ASSUME NEW list, Remaining(p, list) PROVE OneAtATime'
    <3>1. \A q \in Process : event'[q] \in {event[q], "none"}
      BY <1>0, <2>2 DEF Remaining
    <3> QED BY <1>0, <1>4, <3>1 DEF OneAtATime, Idle
  <2> QED BY <1>4, <2>1, <2>2
<1>5. ASSUME NEW p \in Process, Handle(p), ~GetCurrentProfile(p) PROVE OneAtATime'
  <2>1. /\ ~Idle(p)
        /\ UNCHANGED <<calls, event>> \/ \E list : Remaining(p, list)
    BY <1>5, HandleMoves DEF Return
  <2>2. file' \in Section
    <3>1. CASE Rename(p)
      <4>1. /\ file' = Merged(Head(calls[p]), seen[p], View(base[p]))
            /\ Head(calls[p]) \in CallType
        BY <2>1, <3>1, RenameAlone, HeadFits
      <4>2. seen[p] \in Section /\ View(base[p]) \in Section
        BY ViewType DEF RiskTypeOK
      <4> QED BY <4>1, <4>2, MergedType
    <3>2. CASE Put(p) \/ WriteFails(p)
      <4>1. file' = file
        BY <1>0, <3>2 DEF Put, WriteFails
      <4> QED BY <1>0, <4>1
    <3>3. CASE AskMode(p) \/ JudgeRecovery(p) \/ SwitchMode(p) \/ Count(p) \/ Read(p) \/ Open(p)
      <4>1. file' = file
        BY <3>3 DEF AskMode, JudgeRecovery, SwitchMode, Count, Read, Open
      <4> QED BY <1>0, <4>1
    <3> QED BY <1>5, <3>1, <3>2, <3>3 DEF Handle
  <2>3. \A q \in Process : handle'[q] \in {"closed", "temp"}
    <3>1. CASE Rename(p)
      <4>1. \A q \in Process : handle[q] # "temp"
        <5>1. \A q \in Process : q # p => handle[q] = "closed"
          BY <1>0, <2>1, CallAlone
        <5>2. handle[p] # "temp"
          BY <3>1 DEF Rename, RiskTypeOK
        <5> QED BY <5>1, <5>2
      <4> QED BY <1>0, <3>1, <4>1 DEF Rename
    <3>2. CASE Open(p) \/ Put(p) \/ WriteFails(p)
      <4>1. handle' = [handle EXCEPT ![p] = "temp"] \/ handle' = [handle EXCEPT ![p] = "closed"]
        BY <3>2 DEF Open, Put, WriteFails
      <4> QED BY <1>0, <4>1
    <3>3. CASE AskMode(p) \/ JudgeRecovery(p) \/ SwitchMode(p) \/ Count(p) \/ Read(p)
      <4>1. handle' = handle
        BY <3>3 DEF AskMode, JudgeRecovery, SwitchMode, Count, Read
      <4> QED BY <1>0, <4>1
    <3> QED BY <1>5, <3>1, <3>2, <3>3 DEF Handle
  <2> QED BY <1>4, <2>1, <2>2, <2>3
<1>6. CASE UNCHANGED riskVars  BY <1>1, <1>6 DEF riskVars
<1>7. ASSUME NEW p \in Process, GetCurrentProfile(p) PROVE OneAtATime'
  BY <1>1, <1>7 DEF GetCurrentProfile
<1> QED BY <1>2, <1>3, <1>5, <1>6, <1>7, ArriveBegins DEF RiskNext

(* What CallInOrder says of the one process that is in a call.              *)
InOrder(p) ==
  LET do == Head(calls[p]).do IN
  /\ at[p] \in {"asks", "switches"} => do \in ToSafe \cup ToAggressive
  /\ at[p] \in {"judges", "resumes"} => do = "recover"
  /\ at[p] \in {"updates", "open", "put", "rename"} /\ do \in {"loss", "pnl"}
       => seen[p] = file \/ "counts" \in missed
  /\ at[p] \in {"open", "put", "rename"} /\ do # "bus"
       => base[p] = file \/ (base[p] = NoFile /\ "updates" \in missed)
  /\ at[p] = "put" => handle[p] = "temp" /\ temp = Torn
  /\ at[p] = "rename" => temp = Content(p)

(* A call that begins is in order.                                          *)
LEMMA BeginsInOrder ==
  ASSUME RiskTypeOK, CallsFit, NEW p \in Process, ~Idle(p), NEW list \in Seq(CallType),
         Remaining(p, list)
  PROVE  InOrder(p)'
<1>1. /\ calls'[p] = list /\ at'[p] \in {"idle", "open", "updates", "counts", "asks"}
      /\ at'[p] # "idle" => at'[p] = First(Head(list)) /\ Head(list) \in CallType
  BY RemainingTypes
<1>2. CASE at'[p] = "idle"
  BY <1>2 DEF InOrder
<1>3. CASE at'[p] # "idle"
  <2>1. /\ at'[p] = "open" => Head(list).do = "bus"
        /\ at'[p] = "updates" => Head(list).do \in {"win", "ensure"}
        /\ at'[p] = "asks" => Head(list).do \in ToSafe \cup ToAggressive
    BY <1>1, <1>3, FirstFacts
  <2> QED BY <1>1, <2>1 DEF InOrder
<1> QED BY <1>2, <1>3

(* A lone call finds at each access what it left at the last, or failed to  *)
(* find it.                                                                  *)
LEMMA CallInOrderStep ==
  RiskTypeOK /\ CallsFit /\ OneAtATime /\ CallInOrder /\ [RiskNext]_riskVars => CallInOrder'
<1> SUFFICES ASSUME RiskTypeOK, CallsFit, OneAtATime, CallInOrder, [RiskNext]_riskVars, alone'
             PROVE  CallInOrder'
  BY DEF CallInOrder
<1>0. alone /\ missed \subseteq missed' /\ \A p \in Process : InOrder(p)
  BY HistoryStays DEF CallInOrder, InOrder
<1>1. CASE UNCHANGED <<file, temp, calls, at, seen, base, handle, missed>>
  BY <1>0, <1>1 DEF CallInOrder, InOrder, Content
<1>2. ASSUME NEW p \in Process, NEW e, NEW list, Opening(e, list), Begin(p, e, list)
      PROVE CallInOrder'
  <2>1. \A q \in Process : Idle(q) /\ at[q] = "idle"
    BY <1>2 DEF Begin, Others, RiskTypeOK
  <2>2. /\ calls' = [calls EXCEPT ![p] = list] /\ at' = [at EXCEPT ![p] = First(Head(list))]
        /\ calls \in [Process -> Seq(CallType)] /\ DOMAIN at = Process
        /\ list \in Seq(CallType) /\ list # <<>>
    BY <1>2 DEF Begin, Opening, RiskTypeOK
  <2>3. /\ \A q \in Process : q # p => at'[q] = "idle"
        /\ at'[p] = First(Head(list)) /\ calls'[p] = list /\ Head(list) \in CallType
    BY <2>1, <2>2
  <2>4. /\ at'[p] \in {"open", "updates", "counts", "asks"}
        /\ at'[p] = "open" => Head(list).do = "bus"
        /\ at'[p] = "updates" => Head(list).do \in {"win", "ensure"}
        /\ at'[p] = "asks" => Head(list).do \in ToSafe \cup ToAggressive
    BY <2>3, FirstFacts
  <2> QED BY <2>3, <2>4 DEF CallInOrder
<1>3. ASSUME NEW p \in Process, Restart(p) PROVE CallInOrder'
  BY <1>3 DEF Restart
<1>4. ASSUME NEW p \in Process, ~Idle(p), InOrder(p)', \A q \in Process : q # p => at'[q] = at[q]
      PROVE  CallInOrder'
  <2>1. \A q \in Process : q # p => at'[q] = "idle"
    BY <1>0, <1>4, CallAlone
  <2> QED BY <1>4, <2>1 DEF CallInOrder, InOrder
<1>5. ASSUME NEW p \in Process, ~Idle(p), NEW list \in Seq(CallType), Remaining(p, list)
      PROVE  CallInOrder'
  <2>1. \A q \in Process : q # p => at'[q] = at[q]
    BY <1>5, RemainingTypes DEF Progress
  <2> QED BY <1>4, <1>5, <2>1, BeginsInOrder
<1>6. ASSUME NEW p \in Process, Return(p, TRUE) \/ Return(p, FALSE), ~Idle(p)
      PROVE  CallInOrder'
  <2> DEFINE list == Followup(Head(calls[p]), seen[p]) \o Tail(calls[p])
  <2>1. Remaining(p, list)
    BY <1>6 DEF Return
  <2>2. list \in Seq(CallType)
    <3>1. calls[p] # <<>> /\ calls[p] \in Seq(CallType) /\ Head(calls[p]) \in CallType
          /\ seen[p] \in Section
      BY <1>6, TailType DEF RiskTypeOK
    <3> QED BY <3>1, FollowupFacts, HeadReplaced DEF Spliced
  <2> HIDE DEF list
  <2> QED BY <1>5, <1>6, <2>1, <2>2
<1>7. ASSUME NEW p \in Process, Handle(p), ~Idle(p) PROVE CallInOrder'
  <2>0. /\ file \in Section /\ View(file) = file
        /\ Head(calls[p]) \in CallType /\ Head(calls[p]).do # "ensure"
        /\ Tail(calls[p]) \in Seq(CallType)
    BY <1>0, <1>7, CallAlone, TailType
  <2>a. DOMAIN at = Process /\ DOMAIN seen = Process /\ DOMAIN base = Process
        /\ DOMAIN handle = Process
    BY DEF RiskTypeOK
  <2>1. CASE Remaining(p, Tail(calls[p]))
    BY <1>5, <1>7, <2>0, <2>1
  <2>2. CASE Return(p, TRUE) \/ Return(p, FALSE)
    BY <1>6, <1>7, <2>2
  <2>3. ASSUME AskMode(p), NEW a \in {"judges", "switches"}, GoesOn(p, a),
               a = "judges" => at[p] = "asks" /\ Head(calls[p]).do = "recover"
        PROVE  CallInOrder'
    <3>1. at' = [at EXCEPT ![p] = a] /\ calls' = calls /\ at[p] \in {"asks", "resumes"}
      BY <2>3 DEF GoesOn, AskMode
    <3>2. Head(calls[p]).do \in ToSafe \cup ToAggressive
      BY <1>0, <3>1 DEF InOrder, ToAggressive
    <3>3. InOrder(p)' /\ \A q \in Process : q # p => at'[q] = at[q]
      BY <2>3, <2>a, <3>1, <3>2 DEF InOrder
    <3> QED BY <1>4, <1>7, <3>3
  <2>4. CASE AskMode(p)
    <3>1. \/ Remaining(p, Tail(calls[p]))
          \/ GoesOn(p, IF at[p] = "asks" /\ Head(calls[p]).do = "recover" THEN "judges"
                       ELSE "switches")
      BY <2>4 DEF AskMode
    <3> QED BY <2>1, <2>3, <2>4, <3>1
  <2>5. ASSUME JudgeRecovery(p), GoesOn(p, "resumes") PROVE CallInOrder'
    <3>1. at' = [at EXCEPT ![p] = "resumes"] /\ calls' = calls /\ at[p] = "judges"
      BY <2>5 DEF GoesOn, JudgeRecovery
    <3>2. Head(calls[p]).do = "recover"
      BY <1>0, <3>1 DEF InOrder
    <3>3. InOrder(p)' /\ \A q \in Process : q # p => at'[q] = at[q]
      BY <2>a, <3>1, <3>2 DEF InOrder
    <3> QED BY <1>4, <1>7, <3>3
  <2>6. ASSUME SwitchMode(p), GoesOn(p, "updates") PROVE CallInOrder'
    <3>1. at' = [at EXCEPT ![p] = "updates"] /\ calls' = calls /\ at[p] = "switches"
      BY <2>6 DEF GoesOn, SwitchMode
    <3>2. Head(calls[p]).do \in ToSafe \cup ToAggressive
      BY <1>0, <3>1 DEF InOrder
    <3>3. Head(calls[p]).do \notin {"loss", "pnl"}
      BY <3>2 DEF ToSafe, ToAggressive
    <3>4. InOrder(p)' /\ \A q \in Process : q # p => at'[q] = at[q]
      BY <2>a, <3>1, <3>3 DEF InOrder
    <3> QED BY <1>4, <1>7, <3>4
  <2>7. ASSUME Count(p), GoesOn(p, "updates") PROVE CallInOrder'
    <3>1. at' = [at EXCEPT ![p] = "updates"] /\ calls' = calls /\ at[p] = "counts" /\ file' = file
      BY <2>7 DEF GoesOn, Count
    <3>2. CASE Head(calls[p]).do \in {"loss", "pnl"}
      <4>1. PICK content \in {file, NoFile} :
              Reads(p, content) /\ seen' = [seen EXCEPT ![p] = View(content)]
        BY <2>7, <3>2 DEF Count
      <4>2. seen'[p] = file' \/ "counts" \in missed'
        BY <2>0, <2>a, <3>1, <4>1 DEF Reads, Misses
      <4> QED BY <1>4, <1>7, <2>a, <3>1, <4>2 DEF InOrder
    <3>3. CASE Head(calls[p]).do \notin {"loss", "pnl"}
      <4>1. InOrder(p)' /\ \A q \in Process : q # p => at'[q] = at[q]
        BY <2>a, <3>1, <3>3 DEF InOrder
      <4> QED BY <1>4, <1>7, <4>1
    <3> QED BY <3>2, <3>3
  <2>8. ASSUME Read(p), GoesOn(p, "open") PROVE CallInOrder'
    <3>1. /\ at' = [at EXCEPT ![p] = "open"] /\ calls' = calls /\ at[p] = "updates"
          /\ file' = file /\ seen' = seen
      BY <2>8 DEF GoesOn, Read
    <3>2. PICK content \in {file, NoFile} :
            Reads(p, content) /\ base' = [base EXCEPT ![p] = content]
      BY <2>0, <2>8 DEF Read
    <3>3. base'[p] = file' \/ (base'[p] = NoFile /\ "updates" \in missed')
      BY <2>a, <3>1, <3>2 DEF Reads, Misses
    <3>4. Head(calls[p]).do \in {"loss", "pnl"} => seen'[p] = file' \/ "counts" \in missed'
      BY <1>0, <3>1 DEF InOrder
    <3> QED BY <1>4, <1>7, <2>a, <3>1, <3>3, <3>4 DEF InOrder
  <2>9. CASE Open(p) \/ Put(p)
    <3>1. /\ UNCHANGED <<calls, seen, base, missed>> /\ at[p] \in {"open", "put"}
          /\ at' = [at EXCEPT ![p] = "put"] \/ at' = [at EXCEPT ![p] = "rename"]
      BY <2>9 DEF Open, Put
    <3>2. file' = file
      BY <1>0, <2>9 DEF Open, Put, InOrder
    <3>3. at'[p] = "put" => handle'[p] = "temp" /\ temp' = Torn
      BY <2>9, <2>a DEF Open, Put
    <3>4. at'[p] = "rename" => temp' = Content(p)'
      <4>1. CASE Open(p)
        BY <4>1, <2>a DEF Open
      <4>2. CASE Put(p)
        <5>1. handle[p] = "temp" /\ temp = Torn
          BY <1>0, <4>2 DEF Put, InOrder
        <5>2. temp' = Content(p)
          BY <4>2, <5>1 DEF Put
        <5>3. Content(p)' = Content(p)
          BY <3>1 DEF Content
        <5> QED BY <5>2, <5>3
      <4> QED BY <2>9, <4>1, <4>2
    <3>5. /\ Head(calls[p]).do \in {"loss", "pnl"} => seen[p] = file \/ "counts" \in missed
          /\ Head(calls[p]).do # "bus" => base[p] = file \/ (base[p] = NoFile /\ "updates" \in missed)
      BY <1>0, <3>1 DEF InOrder
    <3>6. at'[p] \in {"put", "rename"} /\ \A q \in Process : q # p => at'[q] = at[q]
      BY <2>a, <3>1
    <3>7. InOrder(p)'
      BY <3>1, <3>2, <3>3, <3>4, <3>5, <3>6 DEF InOrder
    <3> QED BY <1>4, <1>7, <3>6, <3>7
  <2>10. CASE Rename(p) \/ WriteFails(p)
    BY <2>2, <2>10 DEF Rename, WriteFails
  <2>11. CASE GetCurrentProfile(p)
    BY <1>1, <2>11 DEF GetCurrentProfile
  <2>12. CASE JudgeRecovery(p)
    BY <2>1, <2>5, <2>12 DEF JudgeRecovery
  <2>13. CASE SwitchMode(p)
    BY <2>2, <2>6, <2>13 DEF SwitchMode
  <2>14. CASE Count(p) \/ Read(p)
    BY <2>1, <2>7, <2>8, <2>14 DEF Count, Read
  <2> QED BY <1>7, <2>4, <2>9, <2>10, <2>11, <2>12, <2>13, <2>14 DEF Handle
<1>8. ASSUME NEW p \in Process, Handle(p), Idle(p) PROVE CallInOrder'
  BY <1>1, <1>8, IdleLoads DEF GetCurrentProfile
<1>9. CASE UNCHANGED riskVars  BY <1>1, <1>9 DEF riskVars
<1> QED BY <1>2, <1>3, <1>7, <1>8, <1>9, ArriveBegins DEF RiskNext

(* While events do not overlap only a rename that works changes the file, and *)
(* only the end of an update counts a fill.                                  *)
LEMMA OnlyRenameMoves ==
  ASSUME RiskTypeOK, CallInOrder, OneAtATime, [RiskNext]_riskVars, alone'
  PROVE  \/ UNCHANGED <<file, streak>>
         \/ \E p \in Process : Rename(p)
         \/ \E p \in Process : WriteFails(p) /\ file' = file /\ "write" \in missed'
<1>1. alone
  BY HistoryStays
<1>2. ASSUME NEW p \in Process, Handle(p), ~Rename(p), ~WriteFails(p)
      PROVE  UNCHANGED <<file, streak>>
  <2>1. CASE Put(p)
    <3>1. handle[p] = "temp"
      BY <1>1, <2>1 DEF Put, CallInOrder
    <3> QED BY <2>1, <3>1 DEF Put
  <2>2. CASE AskMode(p) \/ JudgeRecovery(p) \/ Count(p) \/ Read(p) \/ Open(p) \/ GetCurrentProfile(p)
    BY <2>2 DEF AskMode, JudgeRecovery, Count, Read, Open, GetCurrentProfile
  <2>3. CASE SwitchMode(p)
    <3>1. Head(calls[p]).do \in ToSafe \cup ToAggressive
      BY <1>1, <2>3 DEF SwitchMode, CallInOrder
    <3>2. Head(calls[p]).do \notin {"win", "loss"}
      BY <3>1 DEF ToSafe, ToAggressive
    <3> QED BY <2>3, <3>2 DEF SwitchMode, Return
  <2> QED BY <1>2, <2>1, <2>2, <2>3 DEF Handle
<1>3. ASSUME NEW p \in Process, WriteFails(p) PROVE file' = file /\ "write" \in missed'
  BY <1>1, <1>3 DEF WriteFails, Misses, OneAtATime
<1>4. ASSUME NEW p \in Process, Arrive(p) PROVE UNCHANGED <<file, streak>>
  BY <1>4, ArriveBegins DEF Restart, Begin
<1>5. CASE UNCHANGED riskVars  BY <1>5 DEF riskVars
<1> QED BY <1>2, <1>3, <1>4, <1>5 DEF RiskNext

(* Only the end of a win or a loss moves the streak or its count.           *)
LEMMA StreakExactStep ==
  RiskTypeOK /\ CallsFit /\ OneAtATime /\ CallInOrder /\ StreakExact /\ [RiskNext]_riskVars
    => StreakExact'
<1> SUFFICES ASSUME RiskTypeOK, CallsFit, OneAtATime, CallInOrder, StreakExact,
                    [RiskNext]_riskVars, alone', Numbers \cap missed' = {}
             PROVE  View(file').losses = streak'
  BY DEF StreakExact
<1>a. alone /\ Numbers \cap missed = {} /\ "write" \notin missed'
      /\ "counts" \notin missed /\ "updates" \notin missed
  BY HistoryStays DEF Numbers
<1>0. file \in Section /\ View(file) = file /\ file.losses = streak
  BY <1>a, ViewType DEF StreakExact, OneAtATime, RiskTypeOK
<1>1. CASE UNCHANGED <<file, streak>>  BY <1>0, <1>1
<1>2. ASSUME NEW p \in Process, Rename(p) PROVE View(file').losses = streak'
  <2> DEFINE c == Head(calls[p])
  <2>1. /\ file' = Merged(c, seen[p], file) /\ c \in CallType
        /\ c.do = "loss" => seen[p] = file
    <3>1. /\ ~Idle(p) /\ base[p] = file /\ file' = Merged(c, seen[p], View(base[p]))
          /\ c.do = "loss" => seen[p] = file
      BY <1>2, <1>a, RenameAlone
    <3> QED BY <1>0, <3>1, HeadFits
  <2>2. streak' = IF c.do = "win" THEN 0 ELSE IF c.do = "loss" THEN streak + 1 ELSE streak
    BY <1>2 DEF Rename, Return
  <2>a. seen[p] \in Section
    BY DEF RiskTypeOK
  <2> HIDE DEF c
  <2>3. file' \in Section /\ file'.losses = LossesAfter(c, seen[p], file.losses)
    BY <1>0, <2>1, <2>a, MergedType
  <2>4. file'.losses = streak' /\ View(file') = file'
    BY <1>0, <2>1, <2>2, <2>3 DEF LossesAfter, View, Section
  <2> QED BY <2>4
<1> QED BY <1>1, <1>2, <1>a, OnlyRenameMoves

(* A lone rename that makes the file SAFE applies the profile; and whoever   *)
(* finds it SAFE already does so, too.                                       *)
LEMMA ProfileFollowsStep ==
  RiskTypeOK /\ CallsFit /\ OneAtATime /\ CallInOrder /\ ProfileFollows /\ [RiskNext]_riskVars
    => ProfileFollows'
<1> SUFFICES ASSUME RiskTypeOK, CallsFit, OneAtATime, CallInOrder, ProfileFollows,
                    [RiskNext]_riskVars, alone', "switches" \notin missed', Safe(file)'
             PROVE  \E q \in Process : profile'[q] = "SAFE"
  BY DEF ProfileFollows
<1>0. /\ alone /\ "switches" \notin missed /\ file \in Section /\ View(file) = file
      /\ profile \in [Process -> {"none", "SAFE", "AGGRESSIVE"}]
  BY HistoryStays, ViewType DEF OneAtATime, RiskTypeOK
<1>1. ASSUME NEW p \in Process, Rename(p) PROVE \E q \in Process : profile'[q] = "SAFE"
  <2> DEFINE c == Head(calls[p])
  <2>1. /\ file' = Merged(c, seen[p], View(base[p])) /\ c \in CallType
        /\ base[p] \in {file, NoFile}
    BY <1>1, RenameAlone, HeadFits
  <2>2. profile' = [profile EXCEPT ![p] = ModeAfter(c, @)]
    BY <1>1 DEF Rename, Return
  <2>a. seen[p] \in Section /\ View(base[p]) \in Section
    BY ViewType DEF RiskTypeOK
  <2> HIDE DEF c
  <2>3. file' \in Section /\ file'.mode = ModeAfter(c, View(base[p]).mode)
    BY <2>1, <2>a, MergedType
  <2>4. ModeAfter(c, View(base[p]).mode) = "SAFE"
    BY <2>3 DEF Safe, View, Section
  <2>5. CASE c.do \in ToSafe
    BY <1>0, <2>2, <2>5 DEF ModeAfter
  <2>6. CASE c.do \notin ToSafe
    <3>1. View(base[p]).mode = "SAFE" /\ ModeAfter(c, profile[p]) = profile[p]
      BY <2>4, <2>6 DEF ModeAfter
    <3>2. View(NoFile).mode = "AGGRESSIVE"
      BY DEF View, NoFile, Default
    <3>3. Safe(file)
      BY <2>1, <3>1, <3>2 DEF Safe
    <3>4. profile' = profile
      BY <1>0, <2>2, <3>1
    <3> QED BY <1>0, <3>3, <3>4 DEF ProfileFollows
  <2> QED BY <2>5, <2>6
<1>2. CASE file' = file
  <2>0. file.mode = "SAFE" /\ Safe(file)
    BY <1>0, <1>2 DEF Safe
  <2>1. PICK r \in Process : profile[r] = "SAFE"
    BY <1>0, <2>0 DEF ProfileFollows
  <2>2. ASSUME NEW p \in Process, Handle(p), ~Rename(p) PROVE profile'[r] = "SAFE"
    <3>1. CASE GetCurrentProfile(p)
      BY <1>0, <2>1, <3>1 DEF GetCurrentProfile
    <3>2. CASE AskMode(p) \/ JudgeRecovery(p) \/ Count(p) \/ Read(p) \/ Open(p) \/ Put(p)
      BY <2>1, <3>2 DEF AskMode, JudgeRecovery, Count, Read, Open, Put
    <3>3. CASE WriteFails(p)
      BY <1>0, <2>1, <3>3 DEF WriteFails, Return
    <3>4. CASE SwitchMode(p)
      <4>1. CASE UNCHANGED profile
        BY <2>1, <4>1
      <4>2. CASE Return(p, TRUE)
        <5>1. PICK content \in {file, NoFile} :
                /\ Reads(p, content)
                /\ \/ View(content).mode = Target(Head(calls[p]))
                   \/ UNCHANGED profile
          BY <3>4 DEF SwitchMode
        <5>2. content = file
          BY <1>0, <3>4, <5>1 DEF Reads, Misses, SwitchMode
        <5>3. CASE file.mode = Target(Head(calls[p]))
          <6>1. Head(calls[p]).do \in ToSafe
            BY <2>0, <5>3 DEF Target
          <6>2. profile' = [profile EXCEPT ![p] = "SAFE"]
            BY <4>2, <6>1 DEF Return, ModeAfter
          <6> QED BY <1>0, <2>1, <6>2
        <5> QED BY <1>0, <4>1, <5>1, <5>2, <5>3
      <4> QED BY <3>4, <4>1, <4>2 DEF SwitchMode
    <3> QED BY <2>2, <3>1, <3>2, <3>3, <3>4 DEF Handle
  <2>3. ASSUME NEW p \in Process, Arrive(p) PROVE profile'[r] = "SAFE"
    BY <2>1, <2>3, ArriveBegins DEF Restart, Begin
  <2>4. CASE UNCHANGED riskVars  BY <2>1, <2>4 DEF riskVars
  <2> QED BY <1>1, <2>1, <2>2, <2>3, <2>4 DEF RiskNext
<1> QED BY <1>1, <1>2, OnlyRenameMoves

(* What a fill leaves to do after a rename that did not end in SAFE mode.  *)
LEMMA FillRenames ==
  ASSUME RiskTypeOK, CallsFit, OneAtATime, CallInOrder, StreakExact, FillInOrder, alone',
         ~Safe(file)', NEW p \in Process, event[p] = "fill", Rename(p)
  PROVE  /\ Numbers \cap missed = {} /\ streak' >= LossTrigger
              => Pending(p, {"win", "loss", "trigger"})'
         /\ "write" \notin missed /\ file'.pnl <= -Drawdown => Pending(p, {"pnl", "trigger"})'
<1> DEFINE c == Head(calls[p])
           v == seen[p]
           b == View(base[p])
           t == Followup(c, v)
           r == t \o Tail(calls[p])
<1>1. /\ alone /\ ~Idle(p) /\ file' = Merged(c, v, b) /\ base[p] \in {file, NoFile}
      /\ file \in Section /\ View(file) = file
      /\ Numbers \cap missed = {} => file.losses = streak /\ base[p] = file
      /\ Numbers \cap missed = {} /\ c.do = "loss" => v = file
  <2>1. /\ alone /\ ~Idle(p) /\ file' = Merged(c, v, b)
        /\ base[p] = file \/ (base[p] = NoFile /\ "updates" \in missed)
        /\ c.do \in {"loss", "pnl"} => v = file \/ "counts" \in missed
    BY RenameAlone
  <2>2. file \in Section /\ View(file) = file
    BY <2>1, CallAlone
  <2>3. Numbers \cap missed = {} => file.losses = streak
    BY <2>1, <2>2 DEF StreakExact
  <2>4. Numbers \cap missed = {} => "updates" \notin missed /\ "counts" \notin missed
    BY DEF Numbers
  <2> QED BY <2>1, <2>2, <2>3, <2>4
<1>2. /\ calls[p] # <<>> /\ calls[p] \in Seq(CallType) /\ c \in CallType
      /\ c = calls[p][1] /\ c.do \in {"win", "loss", "pnl", "trigger"}
      /\ v \in Section /\ b \in Section
  <2>1. /\ calls[p] # <<>> /\ calls[p] \in Seq(CallType) /\ c \in CallType
        /\ c = calls[p][1] /\ c.do \in CallsOf["fill"]
    BY <1>1, HeadFits
  <2>2. c.do \in {"win", "loss", "pnl", "trigger"}
    BY <2>1 DEF CallsOf
  <2>3. v \in Section /\ b \in Section
    BY ViewType DEF RiskTypeOK
  <2> QED BY <2>1, <2>2, <2>3
<1>3. /\ file' \in Section /\ file'.mode = ModeAfter(c, b.mode)
      /\ file'.pnl = PnlAfter(c, v, b.pnl)
  BY <1>1, <1>2, MergedType
<1>4. calls'[p] = r /\ streak' = IF c.do = "win" THEN 0 ELSE IF c.do = "loss" THEN streak + 1 ELSE streak
  BY <1>1 DEF Rename, Return, Remaining, RiskTypeOK
<1>5. /\ t \in Seq(CallType)
      /\ \A i \in DOMAIN t : t[i].do = "trigger"
      /\ c.do = "loss" /\ v.losses + 1 >= LossTrigger => 1 \in DOMAIN t
      /\ c.do = "pnl" /\ PnlOfDay(c, v) <= -Drawdown => 1 \in DOMAIN t
  BY <1>2, FollowupFacts
<1>b. base[p] = file => b = file
  BY <1>1
<1>n. base[p] = NoFile => b.pnl = 0
  BY DEF View, NoFile, Default
<1> HIDE DEF c, t, v, b
<1>6. Spliced(r, t, calls[p], CallType)
  BY <1>2, <1>5, HeadReplaced
<1> HIDE DEF r
<1>7. file'.mode # "SAFE"
  BY <1>3 DEF Safe, View, Section
<1>8. c.do \in {"win", "loss", "pnl"} /\ b.mode # "SAFE"
  BY <1>2, <1>3, <1>7 DEF ModeAfter, ToSafe, ToAggressive
<1>9. ASSUME base[p] = file
      PROVE
      /\ Numbers \cap missed = {} /\ streak >= LossTrigger
           => \E i \in DOMAIN calls[p] : calls[p][i].do \in {"win", "loss", "trigger"}
      /\ "write" \notin missed /\ file.pnl <= -Drawdown
           => \E i \in DOMAIN calls[p] : calls[p][i].do \in {"pnl", "trigger"}
  BY <1>1, <1>8, <1>9, <1>b DEF FillInOrder, Safe, Pending
<1>10. \A i \in DOMAIN calls[p] : i = 1 \/ i >= 2
  BY <1>2
<1>11. 1 \in DOMAIN t => \E k \in DOMAIN r : r[k].do = "trigger"
  BY <1>5, <1>6 DEF Spliced
<1>12. \A i \in DOMAIN calls[p] : i = 1 \/ \E k \in DOMAIN r : r[k] = calls[p][i]
  BY <1>6, <1>10 DEF Spliced
<1>13. ASSUME Numbers \cap missed = {}, streak' >= LossTrigger
       PROVE  \E k \in DOMAIN r : r[k].do \in {"win", "loss", "trigger"}
  <2>1. CASE c.do = "win"
    BY <1>4, <1>13, <2>1, RiskAssumption
  <2>2. CASE c.do = "loss"
    <3>a. v = file /\ file.losses = streak
      BY <1>1, <1>13, <2>2
    <3>b. streak' = streak + 1
      BY <1>4, <2>2
    <3>c. v.losses = streak
      BY <3>a
    <3>1. v.losses + 1 >= LossTrigger
      BY <1>13, <3>b, <3>c
    <3>2. 1 \in DOMAIN t
      BY <1>5, <2>2, <3>1
    <3> QED BY <1>11, <3>2
  <2>3. CASE c.do = "pnl"
    <3>1. PICK i \in DOMAIN calls[p] : calls[p][i].do \in {"win", "loss", "trigger"}
      BY <1>1, <1>4, <1>9, <1>13, <2>3
    <3>2. i # 1
      BY <1>2, <2>3, <3>1
    <3> QED BY <1>12, <3>1, <3>2
  <2> QED BY <1>8, <2>1, <2>2, <2>3
<1>14. ASSUME "write" \notin missed, file'.pnl <= -Drawdown
       PROVE  \E k \in DOMAIN r : r[k].do \in {"pnl", "trigger"}
  <2>1. CASE c.do = "pnl"
    BY <1>3, <1>5, <1>11, <1>14, <2>1 DEF PnlAfter
  <2>2. CASE c.do # "pnl"
    <3>1. file'.pnl = b.pnl
      BY <1>3, <1>8, <2>2 DEF PnlAfter
    <3>2. base[p] = file
      <4>1. ~(0 <= -Drawdown)
        BY RiskAssumption
      <4>2. file'.pnl # 0
        BY <1>14, <4>1
      <4>3. base[p] # NoFile
        BY <1>n, <3>1, <4>2
      <4> QED BY <1>1, <4>3
    <3>a. file.pnl = file'.pnl
      BY <1>b, <3>1, <3>2
    <3>b. file.pnl <= -Drawdown
      BY <1>14, <3>a
    <3>c. \E i \in DOMAIN calls[p] : calls[p][i].do \in {"pnl", "trigger"}
      <4>1. "write" \notin missed
        BY <1>14
      <4> QED BY <1>9, <3>2, <3>b, <4>1, Zenon
    <3>3. PICK i \in DOMAIN calls[p] : calls[p][i].do \in {"pnl", "trigger"}
      BY <3>c
    <3>4. i # 1
      BY <1>2, <1>8, <2>2, <3>3
    <3> QED BY <1>12, <3>3, <3>4
  <2> QED BY <2>1, <2>2
<1> QED BY <1>4, <1>13, <1>14 DEF Pending

(* A lone fill gives no call up before it has written, whatever it reads,    *)
(* while the file is not SAFE.                                               *)
LEMMA FillKeepsCalls ==
  ASSUME RiskTypeOK, CallsFit, OneAtATime, CallInOrder, alone, ~Safe(file),
         NEW p \in Process, event[p] = "fill", Handle(p), ~Rename(p), ~WriteFails(p)
  PROVE  calls' = calls
<1>1. /\ ~Idle(p) /\ View(file) = file
      /\ Head(calls[p]).do \in {"win", "loss", "pnl", "trigger"}
  <2>1. ~Idle(p)
    BY DEF Idle
  <2>2. Head(calls[p]).do \in CallsOf["fill"] /\ View(file) = file
    BY <2>1, CallAlone
  <2> QED BY <2>1, <2>2 DEF CallsOf
<1>2. \A content \in {file, NoFile} : View(content).mode # "SAFE"
  BY DEF Safe, View, NoFile, Default
<1>3. at[p] \in {"asks", "resumes", "switches"} => Target(Head(calls[p])) = "SAFE"
  <2>1. at[p] \in {"asks", "switches"} => Head(calls[p]).do \in ToSafe \cup ToAggressive
    BY DEF CallInOrder
  <2>2. at[p] = "resumes" => Head(calls[p]).do = "recover"
    BY DEF CallInOrder
  <2> QED BY <1>1, <2>1, <2>2 DEF Target, ToSafe, ToAggressive
<1>4. CASE AskMode(p)
  BY <1>2, <1>3, <1>4 DEF AskMode, GoesOn
<1>5. CASE JudgeRecovery(p)
  BY <1>1, <1>5 DEF JudgeRecovery, CallInOrder
<1>6. CASE SwitchMode(p)
  BY <1>2, <1>3, <1>6 DEF SwitchMode, GoesOn
<1>7. CASE Count(p) \/ Read(p)
  BY <1>1, <1>7 DEF Count, Read, GoesOn
<1>8. CASE Open(p) \/ Put(p) \/ GetCurrentProfile(p)
  BY <1>8 DEF Open, Put, GetCurrentProfile
<1> QED BY <1>4, <1>5, <1>6, <1>7, <1>8 DEF Handle

(* A step of the system while a fill is handled and nothing overlaps: what  *)
(* asks for SAFE mode is still to be done, or SAFE mode is there.          *)
LEMMA FillGoesOn ==
  ASSUME RiskTypeOK, CallsFit, OneAtATime, CallInOrder, StreakExact, FillInOrder,
         [RiskNext]_riskVars, alone', ~Safe(file)', NEW p \in Process, event[p] = "fill"
  PROVE  /\ Numbers \cap missed' = {} /\ streak' >= LossTrigger
              => Pending(p, {"win", "loss", "trigger"})'
         /\ "write" \notin missed' /\ file'.pnl <= -Drawdown => Pending(p, {"pnl", "trigger"})'
<1>0. /\ alone /\ ~Idle(p)
      /\ Numbers \cap missed' = {} => Numbers \cap missed = {}
      /\ "write" \notin missed' => "write" \notin missed
      /\ Numbers \cap missed' = {} => "write" \notin missed'
  BY HistoryStays DEF Idle, Numbers
<1>1. CASE UNCHANGED <<file, streak, calls>>
  BY <1>0, <1>1 DEF FillInOrder, Pending, Safe
<1>2. ASSUME NEW q \in Process, Arrive(q) PROVE FALSE
  <2>1. ~Restart(q)  BY Zenon DEF Restart
  <2>2. ASSUME NEW e, NEW list, Begin(q, e, list) PROVE FALSE
    BY <1>0, <2>2 DEF Begin, Others
  <2> QED BY <1>2, <2>1, <2>2, ArriveBegins
<1>3. ASSUME NEW q \in Process, Handle(q), q # p PROVE UNCHANGED <<file, streak, calls>>
  <2>1. Idle(q)
    BY <1>0, <1>3, CallAlone
  <2> QED BY <1>3, <2>1, IdleLoads DEF GetCurrentProfile
<1>4. ASSUME Handle(p), ~Rename(p), ~WriteFails(p) PROVE UNCHANGED <<file, streak, calls>>
  <2>1. UNCHANGED <<file, streak>>
    <3>1. ASSUME NEW q \in Process, Rename(q) \/ WriteFails(q) PROVE q = p
      BY <1>0, <3>1, AtMeansBusy DEF Rename, WriteFails, OneAtATime
    <3> QED BY <1>4, <3>1, OnlyRenameMoves
  <2>2. ~Safe(file)
    BY <2>1 DEF Safe
  <2> QED BY <1>0, <1>4, <2>1, <2>2, FillKeepsCalls
<1>5. CASE UNCHANGED riskVars  BY <1>1, <1>5 DEF riskVars
<1>6. CASE WriteFails(p)
  BY <1>0, <1>6 DEF WriteFails, Misses
<1>7. CASE Rename(p)
  BY <1>0, <1>7, FillRenames DEF Rename
<1> QED BY <1>1, <1>2, <1>3, <1>4, <1>5, <1>6, <1>7 DEF RiskNext

(* A fill keeps a trigger ahead of it while its losses ask for one.         *)
LEMMA FillInOrderStep ==
  RiskTypeOK /\ CallsFit /\ OneAtATime /\ CallInOrder /\ StreakExact /\ FillInOrder
    /\ [RiskNext]_riskVars => FillInOrder'
<1> SUFFICES ASSUME RiskTypeOK, CallsFit, OneAtATime, CallInOrder, StreakExact, FillInOrder,
                    [RiskNext]_riskVars, alone', ~Safe(file)',
                    NEW p \in Process, event'[p] = "fill"
             PROVE  /\ Numbers \cap missed' = {} /\ streak' >= LossTrigger
                         => Pending(p, {"win", "loss", "trigger"})'
                    /\ "write" \notin missed' /\ file'.pnl <= -Drawdown
                         => Pending(p, {"pnl", "trigger"})'
  BY DEF FillInOrder
<1>1. CASE event[p] = "fill"
  BY <1>1, FillGoesOn
<1>2. CASE event[p] # "fill"
  <2>1. ASSUME NEW q \in Process, Handle(q) PROVE FALSE
    <3>1. event' = event \/ \E list : Remaining(q, list)
      BY <2>1, HandleMoves DEF Return, GetCurrentProfile
    <3> QED BY <1>2, <3>1 DEF Remaining, RiskTypeOK
  <2>2. ASSUME NEW q \in Process, NEW e, NEW list, Opening(e, list), Begin(q, e, list)
        PROVE  Pending(p, {"win", "loss", "trigger"})' /\ Pending(p, {"pnl", "trigger"})'
    <3>1. q = p /\ e = "fill" /\ calls'[p] = list
      BY <1>2, <2>2 DEF Begin, RiskTypeOK
    <3> QED BY <2>2, <3>1 DEF Opening, Pending
  <2>3. ASSUME NEW q \in Process, Restart(q) PROVE FALSE
    BY <2>3 DEF Restart
  <2>4. CASE UNCHANGED riskVars  BY <1>2, <2>4 DEF riskVars
  <2> QED BY <2>1, <2>2, <2>3, <2>4, ArriveBegins DEF RiskNext
<1> QED BY <1>1, <1>2

-----------------------------------------------------------------------------
(* RiskMode: the theorems.                                                 *)

(* The whole invariant holds at first.                                      *)
LEMMA RiskInvInit == RiskInit => RiskInv
<1> SUFFICES ASSUME RiskInit PROVE RiskInv
  OBVIOUS
<1>1. RiskTypeOK
  BY RiskTypeInit
<1>2. /\ file = Default /\ Default \in Section /\ View(file) = Default /\ streak = 0
      /\ ~Safe(file)
  BY DEF RiskInit, Default, Section, View, Safe
<1>3. \A p \in Process : event[p] = "none" /\ calls[p] = <<>> /\ at[p] = "idle"
                         /\ handle[p] = "closed"
  BY DEF RiskInit
<1>4. CallsFit
  BY <1>3 DEF CallsFit
<1>5. OneAtATime /\ CallInOrder /\ FillInOrder
  BY <1>2, <1>3 DEF OneAtATime, CallInOrder, FillInOrder, Idle
<1>6. StreakExact /\ ProfileFollows
  BY <1>2 DEF StreakExact, ProfileFollows, Default
<1> QED BY <1>1, <1>4, <1>5, <1>6 DEF RiskInv

(* Every step keeps the whole invariant.                                    *)
LEMMA RiskInvStep == RiskInv /\ [RiskNext]_riskVars => RiskInv'
BY RiskTypeStep, CallsFitStep, OneAtATimeStep, CallInOrderStep, StreakExactStep,
   ProfileFollowsStep, FillInOrderStep DEF RiskInv

(* So it holds in every reachable state.                                    *)
LEMMA RiskInvHolds == RiskSpec => []RiskInv
BY RiskInvInit, RiskInvStep, PTL DEF RiskSpec

(* The streak in the file counts the losing fills since the last winning    *)
(* one, however many processes share the file, while events do not overlap *)
(* and the numbers can be read and written, whatever other reads fail.     *)
THEOREM StreakIsExact == RiskSpec => []StreakExact
<1>1. RiskInv => StreakExact
  BY DEF RiskInv
<1> QED BY <1>1, RiskInvHolds, PTL

(* SAFE mode in the file has its profile in some process, while events do   *)
(* not overlap and switch_mode can read the file, whatever else fails.     *)
THEOREM SafeHasItsProfile == RiskSpec => []SomeProfileFollows
<1>1. RiskInv => SomeProfileFollows
  BY DEF RiskInv, ProfileFollows, SomeProfileFollows
<1> QED BY <1>1, RiskInvHolds, PTL

(* The step that takes SAFE mode out of the file: a write through the name   *)
(* the file had before, or a rename with a reason.                          *)
SafeLeft(p) ==
  /\ at'[p] # at[p]
  /\ \/ /\ at[p] = "rename"
        /\ Asked(p) \/ Unread(p) \/ Overtaken(p) \/ Displaced(p)
     \/ at[p] = "put" /\ handle[p] = "file"

(* SAFE mode is lost only to such a step.                                   *)
LEMMA SafeLeftStep ==
  ASSUME RiskTypeOK, CallsFit, [RiskNext]_riskVars, Safe(file), ~Safe(file)'
  PROVE  \E p \in Process : SafeLeft(p)
<1>1. file' # file
  BY DEF Safe
<1>2. CASE UNCHANGED riskVars  BY <1>1, <1>2 DEF riskVars
<1>3. ASSUME NEW p \in Process, Arrive(p) PROVE FALSE
  BY <1>1, <1>3, ArriveBegins DEF Restart, Begin
<1>4. ASSUME NEW p \in Process, Put(p) PROVE SafeLeft(p)
  <2>1. at[p] = "put" /\ at'[p] = "rename" /\ handle[p] = "file"
    BY <1>1, <1>4 DEF Put, RiskTypeOK
  <2> QED BY <2>1 DEF SafeLeft
<1>5. ASSUME NEW p \in Process, WriteFails(p) PROVE SafeLeft(p)
  <2>1. handle[p] = "file"
    BY <1>1, <1>5 DEF WriteFails
  <2>2. at[p] = "put" /\ ~Idle(p) /\ Return(p, FALSE)
    BY <1>5, <2>1, AtMeansBusy DEF WriteFails, RiskTypeOK
  <2>3. at'[p] # "put"
    BY <2>2, ReturnTypes
  <2> QED BY <2>1, <2>2, <2>3 DEF SafeLeft
<1>6. ASSUME NEW p \in Process, Rename(p) PROVE SafeLeft(p)
  <2> DEFINE c == Head(calls[p])
  <2>1. /\ file' = temp /\ at[p] = "rename" /\ ~Idle(p) /\ Return(p, TRUE)
        /\ seen[p] \in Section /\ View(file) \in Section
    BY <1>6, ViewType, AtMeansBusy DEF Rename, RiskTypeOK
  <2>2. at'[p] # "rename"
    BY <2>1, ReturnTypes
  <2>3. ASSUME ~Asked(p), ~Unread(p), ~Overtaken(p), ~Displaced(p) PROVE FALSE
    <3>1. c.do \notin ToAggressive /\ c.do # "bus" /\ base[p] = file /\ temp = Content(p)
      BY <2>3 DEF Asked, Unread, Overtaken, Displaced
    <3>2. file # Foreign
      BY DEF Safe, View, Foreign, Default
    <3>3. file' = Merged(c, seen[p], View(file)) /\ c \in CallType
      BY <2>1, <3>1, <3>2, HeadFits DEF Content
    <3> HIDE DEF c
    <3>4. file' \in Section /\ file'.mode = ModeAfter(c, View(file).mode)
      BY <2>1, <3>3, MergedType
    <3>5. ModeAfter(c, "SAFE") # "SAFE"
      BY <3>4 DEF Safe, View, Section
    <3> QED BY <3>1, <3>5 DEF ModeAfter
  <2> QED BY <2>1, <2>2, <2>3 DEF SafeLeft
<1>7. ASSUME NEW p \in Process, Handle(p), ~Put(p), ~Rename(p), ~WriteFails(p) PROVE FALSE
  BY <1>1, <1>7 DEF Handle, AskMode, JudgeRecovery, SwitchMode, Count, Read, Open,
                    GetCurrentProfile
<1> QED BY <1>2, <1>3, <1>4, <1>5, <1>6, <1>7 DEF RiskNext

(* SAFE mode leaves the file on purpose, by overlap, by StateBus or because *)
(* the update could not read it, and by nothing else, in a disturbed        *)
(* history, too.                                                            *)
THEOREM SafeModeIsKept == RiskSpec => SafeLeavesForAReason
<1>1. RiskInv /\ [RiskNext]_riskVars =>
        [Safe(file) /\ ~Safe(file') =>
           \E p \in Process :
             /\ at'[p] # at[p]
             /\ \/ /\ at[p] = "rename"
                   /\ Asked(p) \/ Unread(p) \/ Overtaken(p) \/ Displaced(p)
                \/ at[p] = "put" /\ handle[p] = "file"]_riskVars
  BY SafeLeftStep DEF RiskInv, Safe, SafeLeft
<1> QED BY <1>1, RiskInvHolds, PTL DEF RiskSpec, SafeLeavesForAReason

(* A fill whose losses reach the streak or the drawdown leaves SAFE mode in *)
(* the file, when no other event came between: the drawdown whatever reads  *)
(* failed, the streak unless its numbers could not be read.                *)
THEOREM HandledLossesEndInSafe == RiskSpec => HandledLossesMeanSafe
<1>1. ASSUME RiskInv, [RiskNext]_riskVars, NEW p \in Process,
             event[p] = "fill", event'[p] = "none", alone'
      PROVE  /\ "write" \notin missed' /\ View(file').pnl <= -Drawdown => Safe(file')
             /\ Numbers \cap missed' = {} /\ streak' >= LossTrigger => Safe(file')
  <2>1. RiskInv' /\ RiskTypeOK' /\ OneAtATime'
    BY <1>1, RiskInvStep DEF RiskInv
  <2>2. calls'[p] = <<>>
    BY <1>1, <2>1 DEF RiskTypeOK, Idle
  <2>3. file' \in Section /\ View(file') = file'
    BY <1>1, <2>1, ViewType DEF OneAtATime, RiskTypeOK
  <2>4. ~Pending(p, {"win", "loss", "trigger"})' /\ ~Pending(p, {"pnl", "trigger"})'
    BY <2>2 DEF Pending
  <2>5. CASE Safe(file)'  BY <2>5 DEF Safe
  <2>6. CASE ~Safe(file)'
    BY <1>1, <2>3, <2>4, <2>6, FillGoesOn DEF RiskInv
  <2> QED BY <2>5, <2>6
<1>2. RiskInv /\ [RiskNext]_riskVars =>
        [\A p \in Process :
           event[p] = "fill" /\ event'[p] = "none" /\ alone' =>
             /\ "write" \notin missed' /\ View(file').pnl <= -Drawdown => Safe(file')
             /\ Numbers \cap missed' = {} /\ streak' >= LossTrigger => Safe(file')]_riskVars
  BY <1>1
<1> QED BY <1>2, RiskInvHolds, PTL DEF RiskSpec, HandledLossesMeanSafe

-----------------------------------------------------------------------------
(* AutoHeal.                                                               *)

(* What a cycle decides: one thing for a service, restarts only below the   *)
(* limit.                                                                  *)
LEMMA DecisionsAllowed ==
  /\ Decisions \subseteq Decision
  /\ \A d, e \in Decisions : d.service = e.service => d = e
  /\ \A d \in Decisions : d.action = "restart" => MayRestart(d.service)
<1> DEFINE break == {[service |-> "system", action |-> "global_break"]}
           each == {[service |-> s, action |-> IF MayRestart(s) THEN "restart" ELSE "quarantine"]
                     : s \in {r \in Service : HasFailed(r)}}
<1>1. Decisions \in {break, {}, each}
  BY DEF Decisions
<1>2. break \subseteq Decision /\ (\A d, e \in break : d = e)
      /\ \A d \in break : d.action # "restart"
  BY DEF Decision
<1>3. \A d \in each : \E s \in Service :
        d = [service |-> s, action |-> IF MayRestart(s) THEN "restart" ELSE "quarantine"]
  OBVIOUS
<1>4. each \subseteq Decision
  BY <1>3 DEF Decision
<1>5. \A d, e \in each : d.service = e.service => d = e
  BY <1>3
<1>6. \A d \in each : d.action = "restart" => MayRestart(d.service)
  BY <1>3
<1> HIDE DEF break, each
<1> QED BY <1>1, <1>2, <1>4, <1>5, <1>6

(* The healer starts with nothing decided.                                  *)
LEMMA HealInvInit == HealInit => HealInv
<1> SUFFICES ASSUME HealInit PROVE HealInv
  OBVIOUS
<1>1. MaxRestartAttempts \in Nat /\ QuarantineTicks \in Nat
  BY HealAssumption
<1>2. /\ age \in [Service -> Age] /\ trouble \in BOOLEAN /\ sound \in BOOLEAN /\ stopFile \in BOOLEAN
      /\ life = "runs" /\ pc = "assess" /\ todo = {}
  BY Zenon DEF HealInit
<1>3. /\ state \in [Service -> State] /\ failures \in [Service -> 0 .. MaxRestartAttempts]
      /\ left \in [Service -> 0 .. QuarantineTicks]
  BY <1>1 DEF HealInit, State
<1> QED BY <1>2, <1>3 DEF HealInv, HealTypeOK, OneDecisionEach, RestartsAllowed, Life

(* A decision that is carried out: a restart counts one more failed attempt *)
(* or forgives them all, for a service that had attempts left.             *)
LEMMA ExecuteKeeps ==
  ASSUME HealInv, NEW d \in todo, ExecuteHealAction(d)
  PROVE  HealInv' /\ \A s \in Service :
           failures[s] = MaxRestartAttempts =>
             /\ failures'[s] = MaxRestartAttempts
             /\ state[s] # "recovering" => state'[s] # "recovering"
<1>0. /\ HealTypeOK /\ OneDecisionEach /\ RestartsAllowed /\ d \in Decision
      /\ MaxRestartAttempts \in Nat \ {0} /\ QuarantineTicks \in Nat \ {0}
  BY HealAssumption DEF HealInv, HealTypeOK
<1>1. /\ todo' = todo \ {d} /\ UNCHANGED <<age, sound, trouble, life, pc>>
      /\ todo' \subseteq todo
  BY DEF ExecuteHealAction, files
<1>2. OneDecisionEach'
  BY <1>0, <1>1 DEF OneDecisionEach
<1>3. ASSUME UNCHANGED failures, state' \in [Service -> State],
             left' \in [Service -> 0 .. QuarantineTicks], stopFile' \in BOOLEAN
      PROVE  HealInv'
  <2>1. RestartsAllowed'
    BY <1>0, <1>1, <1>3 DEF RestartsAllowed, MayRestart
  <2> QED BY <1>0, <1>1, <1>2, <1>3, <2>1 DEF HealInv, HealTypeOK
<1>4. CASE d.action = "restart" /\ RestartService(d.service) /\ UNCHANGED stopFile
  <2> DEFINE r == d.service
  <2>1. r \in Service /\ failures[r] < MaxRestartAttempts
    BY <1>0, <1>4 DEF Decision, RestartsAllowed, MayRestart
  <2>2. \A e \in todo' : e.service # r
    BY <1>0, <1>1 DEF OneDecisionEach
  <2> HIDE DEF r
  <2>3. PICK n \in 0 .. MaxRestartAttempts : failures' = [failures EXCEPT ![r] = n]
    BY <1>0, <1>4, <2>1 DEF RestartService, HealTypeOK, r
  <2>4. \A s \in Service : s # r => failures'[s] = failures[s] /\ state'[s] = state[s]
    BY <1>0, <1>4, <2>1 DEF RestartService, HealTypeOK, r
  <2>5. left' \in [Service -> 0 .. QuarantineTicks] /\ state' \in [Service -> State]
        /\ failures' \in [Service -> 0 .. MaxRestartAttempts]
    <3>1. /\ left \in [Service -> 0 .. QuarantineTicks] /\ state \in [Service -> State]
          /\ failures \in [Service -> 0 .. MaxRestartAttempts]
      BY <1>0 DEF HealTypeOK
    <3>2. \/ left' = [left EXCEPT ![r] = 0] /\ state' = [state EXCEPT ![r] = "recovering"]
          \/ left' = left /\ state' = state
      BY <1>4 DEF RestartService, r
    <3>3. 0 \in 0 .. QuarantineTicks /\ "recovering" \in State
      BY <1>0 DEF State
    <3>4. left' \in [Service -> 0 .. QuarantineTicks]
      BY <3>1, <3>2, <3>3
    <3>5. state' \in [Service -> State]
      BY <3>1, <3>2, <3>3
    <3> QED BY <2>3, <3>1, <3>4, <3>5
  <2>6. RestartsAllowed'
    <3> SUFFICES ASSUME NEW e \in todo', e.action = "restart"
                 PROVE  failures'[e.service] < MaxRestartAttempts
      BY DEF RestartsAllowed, MayRestart
    <3>1. e \in todo /\ e \in Decision /\ e.service # r
      BY <1>0, <1>1, <2>2 DEF HealTypeOK
    <3>2. e.service \in Service
      BY <3>1 DEF Decision
    <3> QED BY <1>0, <2>4, <3>1, <3>2 DEF RestartsAllowed, MayRestart
  <2>7. HealInv'
    BY <1>0, <1>1, <1>2, <1>4, <2>5, <2>6 DEF HealInv, HealTypeOK
  <2> QED BY <1>0, <2>1, <2>4, <2>7
<1>5. CASE d.action = "quarantine" /\ QuarantineService(d.service) /\ UNCHANGED stopFile
  <2>1. d.service \in Service
    BY <1>0, <1>5 DEF Decision
  <2>2. /\ left' \in [Service -> 0 .. QuarantineTicks] /\ state' \in [Service -> State]
        /\ failures' = failures /\ stopFile' \in BOOLEAN
        /\ \A s \in Service : state[s] # "recovering" => state'[s] # "recovering"
    <3>1. /\ left' = [left EXCEPT ![d.service] = QuarantineTicks]
          /\ state' = [state EXCEPT ![d.service] = "quarantined"]
          /\ failures' = failures /\ stopFile' = stopFile
      BY <1>5 DEF QuarantineService
    <3>2. /\ left \in [Service -> 0 .. QuarantineTicks] /\ state \in [Service -> State]
          /\ stopFile \in BOOLEAN
      BY <1>0 DEF HealTypeOK
    <3>3. QuarantineTicks \in 0 .. QuarantineTicks /\ "quarantined" \in State
      BY <1>0 DEF State
    <3>4. left' \in [Service -> 0 .. QuarantineTicks]
      BY <3>1, <3>2, <3>3
    <3>5. state' \in [Service -> State]
      BY <3>1, <3>2, <3>3
    <3>6. \A s \in Service : state[s] # "recovering" => state'[s] # "recovering"
      BY <3>1, <3>2
    <3> QED BY <3>1, <3>2, <3>4, <3>5, <3>6
  <2> QED BY <1>3, <2>2
<1>6. CASE d.action = "global_break" /\ stopFile' = TRUE /\ UNCHANGED fsm
  BY <1>0, <1>3, <1>6 DEF fsm, HealTypeOK
<1> QED BY <1>4, <1>5, <1>6 DEF ExecuteHealAction

(* Every other step of a process that goes on.                             *)
LEMMA HealStep ==
  ASSUME HealInv, [HealNext]_healVars
  PROVE  HealInv' /\ (Alive /\ Alive' => \A s \in Service :
           failures[s] = MaxRestartAttempts =>
             /\ failures'[s] = MaxRestartAttempts
             /\ state[s] # "recovering" => state'[s] # "recovering")
<1>0. /\ HealTypeOK /\ OneDecisionEach /\ RestartsAllowed
      /\ MaxRestartAttempts \in Nat \ {0} /\ QuarantineTicks \in Nat \ {0}
  BY HealAssumption DEF HealInv
<1>1. ASSUME UNCHANGED <<failures, state>>, todo' \subseteq todo,
             age' \in [Service -> Age], sound' \in BOOLEAN, trouble' \in BOOLEAN, life' \in Life,
             pc' \in {"assess", "decide", "execute"}, left' \in [Service -> 0 .. QuarantineTicks],
             stopFile' \in BOOLEAN
      PROVE  HealInv' /\ \A s \in Service :
               /\ failures'[s] = failures[s]
               /\ state[s] # "recovering" => state'[s] # "recovering"
  BY <1>0, <1>1 DEF HealInv, HealTypeOK, OneDecisionEach, RestartsAllowed, MayRestart
<1>2. CASE AssessHealth
  <2>1. \A a \in Age : DetermineServiceState(a) \in State \ {"recovering"}
    <3>1. /\ DetermineServiceState("none") = "failed unread"
          /\ DetermineServiceState("fresh") = "healthy"
          /\ DetermineServiceState("late") = "degraded"
          /\ DetermineServiceState("dead") = "failed"
      BY DEF DetermineServiceState
    <3> QED BY <3>1 DEF State, Age
  <2>2. state' \in [Service -> State]
        /\ \A s \in Service : state[s] # "recovering" => state'[s] # "recovering"
    BY <1>0, <1>2, <2>1 DEF AssessHealth, HealTypeOK
  <2>3. UNCHANGED <<age, sound, trouble, life, failures, left, todo, stopFile>> /\ pc' = "decide"
    BY <1>2 DEF AssessHealth, files
  <2> QED BY <1>0, <2>2, <2>3 DEF HealInv, HealTypeOK, OneDecisionEach, RestartsAllowed, MayRestart
<1>3. CASE MakeHealDecisions
  <2>1. todo' = Decisions /\ pc' = "execute" /\ UNCHANGED <<age, sound, trouble, life, fsm, stopFile>>
    BY <1>3 DEF MakeHealDecisions, files
  <2> QED BY <1>0, <2>1, DecisionsAllowed
          DEF HealInv, HealTypeOK, OneDecisionEach, RestartsAllowed, MayRestart, fsm
<1>4. CASE CycleEnds  BY <1>0, <1>1, <1>4 DEF CycleEnds, fsm, files, HealTypeOK
<1>5. ASSUME NEW d \in todo, TriggerGlobalBreakFails(d)
      PROVE  HealInv' /\ UNCHANGED <<failures, state>>
  BY <1>0, <1>1, <1>5 DEF TriggerGlobalBreakFails, fsm, files, HealTypeOK
<1>6. CASE Stop  BY <1>0, <1>1, <1>6 DEF Stop, Memory, files, HealTypeOK, Life
<1>7. CASE Start
  <2>1. ~Alive /\ life' \in Life /\ UNCHANGED <<age, sound, trouble, pc, state, failures, left, todo, stopFile>>
    BY <1>7 DEF Start, Memory, files, Life
  <2> QED BY <1>0, <1>1, <2>1 DEF HealTypeOK
<1>8. ASSUME Forget, life' \in Life, ~Alive', UNCHANGED <<files, stopFile>>
       PROVE  HealInv' /\ ~Alive'
  <2>1. /\ state' \in [Service -> State] /\ failures' \in [Service -> 0 .. MaxRestartAttempts]
        /\ left' \in [Service -> 0 .. QuarantineTicks]
    BY <1>0, <1>8 DEF Forget, State
  <2>2. pc' = "assess" /\ todo' = {} /\ UNCHANGED <<age, sound, trouble, stopFile>>
    BY <1>8 DEF Forget, files
  <2>3. HealTypeOK'
    BY <1>0, <1>8, <2>1, <2>2 DEF HealTypeOK
  <2> QED BY <1>8, <2>2, <2>3 DEF HealInv, OneDecisionEach, RestartsAllowed
<1>9. CASE Cleanup \/ Crash \/ \E d \in todo : StopsItself(d)
  <2>1. Forget /\ life' \in Life /\ ~Alive' /\ UNCHANGED <<files, stopFile>>
    BY <1>9 DEF Cleanup, Crash, StopsItself, Life, Alive
  <2> QED BY <1>8, <2>1
<1>10. CASE Tick
  <2>1. left' \in [Service -> 0 .. QuarantineTicks]
    BY <1>0, <1>10 DEF Tick, Quarantined, HealTypeOK
  <2> QED BY <1>0, <1>1, <1>10, <2>1 DEF Tick, files, HealTypeOK
<1>11. ASSUME NEW s \in Service, Reports(s) PROVE HealInv' /\ UNCHANGED <<failures, state>>
  BY <1>0, <1>1, <1>11 DEF Reports, Memory, HealTypeOK
<1>12. CASE SocketChanges
  <2>1. trouble' \in BOOLEAN
    BY <1>12 DEF SocketChanges
  <2> QED BY <1>0, <1>1, <1>12, <2>1 DEF SocketChanges, Memory, HealTypeOK
<1>13. CASE FilesBreak
  <2>1. sound' \in BOOLEAN
    BY <1>13 DEF FilesBreak
  <2> QED BY <1>0, <1>1, <1>13, <2>1 DEF FilesBreak, Memory, HealTypeOK
<1>14. CASE AnotherHealer
  BY <1>0, <1>1, <1>14 DEF AnotherHealer, files, Memory, HealTypeOK
<1>15. CASE UNCHANGED healVars
  BY <1>0, <1>1, <1>15 DEF healVars, HealTypeOK
<1> QED BY <1>2, <1>3, <1>4, <1>5, <1>6, <1>7, <1>10, <1>11, <1>12, <1>15, <1>9, <1>13, <1>14,
        ExecuteKeeps DEF HealNext, Loop, Environment

(* The invariant of the healer holds in every reachable state.              *)
LEMMA HealInvHolds == HealSpec => []HealInv
<1>1. HealInv /\ [HealNext]_healVars => HealInv'
  BY HealStep
<1> QED BY <1>1, HealInvInit, PTL DEF HealSpec

(* Types: in particular no service ever has more failed attempts than the   *)
(* limit, whatever the order of decisions, failures and restarts.          *)
THEOREM HealTypesHold == HealSpec => []HealTypeOK
<1>1. HealInv => HealTypeOK
  BY DEF HealInv
<1> QED BY <1>1, HealInvHolds, PTL

(* A service that used up its attempts is never restarted by name again by  *)
(* this process, whatever it is told to do and whatever it reads.          *)
THEOREM GivenUpStays == HealSpec => GivenUpForGood
<1>1. HealInv /\ [HealNext]_healVars =>
        [Alive /\ Alive' => \A s \in Service :
           failures[s] = MaxRestartAttempts =>
             /\ failures'[s] = MaxRestartAttempts
             /\ state[s] # "recovering" => state'[s] # "recovering"]_healVars
  BY HealStep
<1> QED BY <1>1, HealInvHolds, PTL DEF HealSpec, GivenUpForGood
=============================================================================
