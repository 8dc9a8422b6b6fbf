----------------------------- MODULE EventChain -----------------------------
(***************************************************************************)
(* memory/event_chain.py: the services append events to one events.jsonl,  *)
(* one line each, and get_events() reads it line by line and skips what it *)
(* cannot parse.                                                           *)
(*                                                                         *)
(* append_event writes its line through a buffered file: what flush() could*)
(* not write stays in the buffer, and leaving the `with` block closes the  *)
(* file, which tries once more.  The system may take a line in two pieces. *)
(***************************************************************************)
EXTENDS Integers, Sequences, FiniteSets

CONSTANTS Writer, MaxEvents   \* bound: calls of append_event

ASSUME EventsAssumption == MaxEvents \in Nat

Event == 1 .. MaxEvents

(* A line in one piece; the start of the JSON text and the rest of the line;*)
(* the JSON text and its newline.                                           *)
Rest == [head |-> "tail", body |-> "newline"]
Parts == {"whole", "head", "tail", "body", "newline"}
EndsLine(part) == part \in {"whole", "tail", "newline"}

VARIABLES lines,    \* the file: lines of pieces, the last one still open
          pc,
          item,     \* the event of each writer's call
          pending,  \* what its buffer still holds of the line
          calls,
          acked,    \* events whose append_event answered True
          torn      \* history: pieces after which a line was not at its end

eventsVars == <<lines, pc, item, pending, calls, acked, torn>>

EventsInit ==
  /\ lines = << <<>> >>
  /\ pc = [w \in Writer |-> "idle"]
  /\ item = [w \in Writer |-> 0]
  /\ pending = [w \in Writer |-> "whole"]
  /\ calls = 0
  /\ acked = {}
  /\ torn = 0

(* Mutated: the newline after an event is forgotten.                        *)
Written_NoNewline(e, part) ==
  [lines EXCEPT ![Len(lines)] = Append(@, <<e, part>>)]

(* A piece goes to the end of the file (mode "a").                          *)
Written(e, part) ==
  LET longer == [lines EXCEPT ![Len(lines)] = Append(@, <<e, part>>)]
  IN  IF EndsLine(part) THEN Append(longer, <<>>) ELSE longer

(* get_events: the lines that parse (without its newline one does, too).    *)
Parses(line, e) ==
  line \in {<< <<e, "whole">> >>, << <<e, "head">>, <<e, "tail">> >>,
            << <<e, "body">>, <<e, "newline">> >>, << <<e, "body">> >>}

Readable == {e \in Event : \E i \in DOMAIN lines : Parses(lines[i], e)}

-----------------------------------------------------------------------------
AppendEvent(w) ==
  /\ pc[w] = "idle" /\ calls < MaxEvents
  /\ calls' = calls + 1
  /\ item' = [item EXCEPT ![w] = calls + 1]
  /\ pending' = [pending EXCEPT ![w] = "whole"]
  /\ pc' = [pc EXCEPT ![w] = "flush"]
  /\ UNCHANGED <<lines, acked, torn>>

(* Mutated: the answer is given before the line is written.                 *)
Flush_Later(w) ==
  /\ pc[w] = "flush"
  /\ acked' = acked \cup {item[w]}
  /\ pc' = [pc EXCEPT ![w] = "close"]
  /\ UNCHANGED <<lines, item, pending, calls, torn>>

Flush(w) ==
  /\ pc[w] = "flush"
  /\ lines' = Written(item[w], pending[w])
  /\ acked' = acked \cup {item[w]}
  /\ pc' = [pc EXCEPT ![w] = "idle"]
  /\ UNCHANGED <<item, pending, calls, torn>>

(* The system takes a first piece of the line; flush() goes on with the     *)
(* rest.                                                                    *)
ShortWrite(w) ==
  /\ pc[w] = "flush" /\ pending[w] = "whole"
  /\ \E first \in DOMAIN Rest :
       /\ lines' = Written(item[w], first)
       /\ pending' = [pending EXCEPT ![w] = Rest[first]]
  /\ torn' = torn + 1
  /\ UNCHANGED <<pc, item, calls, acked>>

FlushFails(w) ==
  /\ pc[w] = "flush"
  /\ pc' = [pc EXCEPT ![w] = "close"]
  /\ UNCHANGED <<lines, item, pending, calls, acked, torn>>

(* close() writes what the buffer holds, or fails; the answer is False.     *)
Close(w) ==
  /\ pc[w] = "close"
  /\ lines' \in {Written(item[w], pending[w]), lines}
  /\ pc' = [pc EXCEPT ![w] = "idle"]
  /\ UNCHANGED <<item, pending, calls, acked, torn>>

Crash(w) ==
  /\ pc[w] # "idle"
  /\ pc' = [pc EXCEPT ![w] = "idle"]
  /\ UNCHANGED <<lines, item, pending, calls, acked, torn>>

EventsNext == \E w \in Writer :
  AppendEvent(w) \/ Flush(w) \/ ShortWrite(w) \/ FlushFails(w) \/ Close(w) \/ Crash(w)

EventsSpec == EventsInit /\ [][EventsNext]_eventsVars

-----------------------------------------------------------------------------
EventsTypeOK ==
  /\ lines \in Seq(Seq(Event \X Parts)) /\ lines # <<>>
  /\ pc \in [Writer -> {"idle", "flush", "close"}]
  /\ item \in [Writer -> Event \cup {0}]
  /\ pending \in [Writer -> {"whole", "tail", "newline"}]
  /\ calls \in 0 .. MaxEvents
  /\ acked \subseteq Event
  /\ torn \in Nat

(* Whatever writers interleave, fail or die: as long as the system took     *)
(* every line at once, all events that were acknowledged can be read.       *)
UntornLogReadable == torn = 0 => acked \subseteq Readable

(* A line taken in two pieces can hide its own event and the one that got   *)
(* between the pieces, or was appended to what a failed or crashed call     *)
(* left behind; it never hides more.                                        *)
DamageBounded == Cardinality(acked \ Readable) <= 2 * torn

(* The inductive invariant of the first: until a line is torn, the last line *)
(* is empty and no buffer holds part of one.                                *)
CleanUntilTorn ==
  torn = 0 => /\ lines[Len(lines)] = <<>>
              /\ \A w \in Writer : pending[w] = "whole"

ItemsNumbered == \A w \in Writer : pc[w] # "idle" => item[w] \in Event

EventsInv == EventsTypeOK /\ ItemsNumbered /\ CleanUntilTorn /\ UntornLogReadable

(* What damage is made of: events whose line was taken in two pieces, whole  *)
(* lines that came after something else on their line, and no other event    *)
(* that was acknowledged; each is paid for by a torn line.                   *)
SplitEvents ==
  {e \in Event : \E i \in DOMAIN lines : \E j \in DOMAIN lines[i] :
     lines[i][j] \in {<<e, "head">>, <<e, "body">>}}

Followers ==
  {e \in Event : \E i \in DOMAIN lines : \E j \in DOMAIN lines[i] :
     j >= 2 /\ lines[i][j] = <<e, "whole">>}

AloneOnLine == {e \in Event : \E i \in 1 .. Len(lines) - 1 : lines[i] = << <<e, "whole">> >>}

BuffersSplit ==
  \A w \in Writer : pc[w] # "idle" /\ pending[w] # "whole" => item[w] \in SplitEvents
SplitCounted == Cardinality(SplitEvents) <= torn
FollowersCounted ==
  Cardinality(Followers) + (IF lines[Len(lines)] = <<>> THEN 0 ELSE 1) <= torn
AckedAccounted == acked \subseteq SplitEvents \cup Followers \cup AloneOnLine

DamageInv ==
  /\ EventsTypeOK /\ ItemsNumbered
  /\ BuffersSplit /\ SplitCounted /\ FollowersCounted /\ AckedAccounted

(* "True if appended successfully, False otherwise": an event is in the log *)
(* when its call has answered True, and not when it answered False.         *)
AnswerTells ==
  (\A w \in Writer : pc[w] = "idle") => acked = Readable
=============================================================================
