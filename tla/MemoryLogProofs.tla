--------------------------- MODULE MemoryLogProofs ---------------------------
(***************************************************************************)
(* The two logs of the memory layer, for any callers and any number of     *)
(* calls. HashChain: the chain file always verifies, and calls that do not *)
(* overlap lose no acknowledged block, on both branches of the writer.     *)
(* EventChain: as long as the system takes every line at once every        *)
(* acknowledged event can be read, and a torn line hides two at most.      *)
(***************************************************************************)
EXTENDS HashChain, EventChain, SequenceTheorems, FiniteSetTheorems, TLAPS

-----------------------------------------------------------------------------
(* HashChain.                                                              *)

(* One more block on a well-formed chain.                                   *)
LEMMA ExtendedType ==
  ASSUME NEW chain \in ChainType, NEW d \in Data
  PROVE  /\ Extended(chain, d) \in ChainType
         /\ Extended(chain, d).exists
  <1> DEFINE h == Append(chain.lastHash, d)
             b == [data |-> d, prev |-> chain.lastHash, hash |-> h]
  <1>1. chain.lastHash \in Seq(Data) /\ h \in Seq(Data)
    BY DEF ChainType, Hash
  <1>2. b \in Block
    BY <1>1 DEF Block, Hash
  <1>3. Append(chain.blocks, b) \in Seq(Block)
    BY <1>2 DEF ChainType
  <1> QED
    BY <1>1, <1>3 DEF Extended, ChainType, Hash

(* A block on top of a valid chain makes a valid chain.                     *)
LEMMA ExtendedValid ==
  ASSUME NEW chain \in ChainType, NEW d \in Data, Valid(chain), HeadOK(chain)
  PROVE  Valid(Extended(chain, d)) /\ HeadOK(Extended(chain, d))
  <1> DEFINE h == Append(chain.lastHash, d)
             b == [data |-> d, prev |-> chain.lastHash, hash |-> h]
             new == Append(chain.blocks, b)
             n == Len(chain.blocks)
  <1>1. chain.blocks \in Seq(Block) /\ n \in Nat
    BY DEF ChainType
  <1>2. /\ DOMAIN new = 1 .. (n + 1)
        /\ DOMAIN chain.blocks = 1 .. n
        /\ Len(new) = n + 1
        /\ new[n + 1] = b
        /\ \A i \in 1 .. n : new[i] = chain.blocks[i]
    <2>1. b \in Block
      BY DEF Block, Hash, ChainType
    <2> QED BY <1>1, <2>1
  <1>3. Extended(chain, d).blocks = new /\ Extended(chain, d).lastHash = h
    BY DEF Extended
  <1>4. b.prev = IF n + 1 = 1 THEN <<>> ELSE new[n].hash
    <2>1. CASE n = 0
      BY <1>1, <2>1 DEF HeadOK
    <2>2. CASE n # 0
      BY <1>1, <1>2, <2>2 DEF HeadOK
    <2> QED BY <2>1, <2>2
  <1>5. b.hash = Append(b.prev, b.data)
    OBVIOUS
  <1> HIDE DEF b, new, n
  <1>6. Valid(Extended(chain, d))
    <2> SUFFICES ASSUME NEW i \in 1 .. (n + 1)
                 PROVE  /\ new[i].hash = Append(new[i].prev, new[i].data)
                        /\ new[i].prev = IF i = 1 THEN <<>> ELSE new[i - 1].hash
      BY <1>2, <1>3 DEF Valid
    <2>1. CASE i = n + 1
      BY <1>1, <1>2, <1>4, <1>5, <2>1
    <2>2. CASE i \in 1 .. n
      <3>1. i # 1 => i - 1 \in 1 .. n
        BY <1>1, <2>2
      <3> QED BY <1>1, <1>2, <2>2, <3>1 DEF Valid
    <2> QED BY <1>1, <2>1, <2>2
  <1>7. HeadOK(Extended(chain, d))
    <2>1. new # <<>>
      BY <1>1, <1>2
    <2> QED BY <1>2, <1>3, <2>1 DEF HeadOK, b
  <1> QED BY <1>6, <1>7

(* It adds its own data, and nothing is lost.                               *)
LEMMA ExtendedItems ==
  ASSUME NEW chain \in ChainType, NEW d \in Data
  PROVE  Items(chain) \cup {d} \subseteq Items(Extended(chain, d))
  <1> DEFINE b == [data |-> d, prev |-> chain.lastHash, hash |-> Append(chain.lastHash, d)]
             new == Append(chain.blocks, b)
             n == Len(chain.blocks)
  <1>1. chain.blocks \in Seq(Block) /\ b \in Block
    BY DEF ChainType, Block, Hash
  <1>2. /\ DOMAIN new = 1 .. (n + 1)
        /\ DOMAIN chain.blocks = 1 .. n
        /\ n \in Nat
        /\ new[n + 1] = b
        /\ \A i \in 1 .. n : new[i] = chain.blocks[i]
    BY <1>1
  <1>3. Extended(chain, d).blocks = new /\ b.data = d
    BY DEF Extended
  <1> HIDE DEF b, new, n
  <1>4. d \in Items(Extended(chain, d))
    BY <1>2, <1>3 DEF Items
  <1>5. ASSUME NEW i \in 1 .. n
        PROVE  chain.blocks[i].data \in Items(Extended(chain, d))
    BY <1>2, <1>3 DEF Items
  <1> QED BY <1>2, <1>4, <1>5 DEF Items

(* The chain of a file that is missing or cannot be read.                   *)
LEMMA EmptyChain ==
  /\ Empty \in ChainType /\ ~Empty.exists
  /\ Valid(Empty) /\ HeadOK(Empty) /\ Items(Empty) = {}
  <1>1. DOMAIN Empty.blocks = {}
    BY DEF Empty
  <1>2. Empty \in ChainType /\ ~Empty.exists /\ HeadOK(Empty)
    BY DEF Empty, ChainType, Hash, HeadOK
  <1> QED BY <1>1, <1>2 DEF Valid, Items

(* A step that is no save of a block keeps the file or empties it, and a    *)
(* call that starts loads the file: ChainInv is kept.                       *)
LEMMA ChainInvStep == ChainInv /\ [ChainNext]_chainVars => ChainInv'
  <1> SUFFICES ASSUME ChainInv, [ChainNext]_chainVars
               PROVE  ChainInv'
    OBVIOUS
  <1> USE ChainAssumption
  <1>0. /\ ChainTypeOK /\ BlocksNumbered /\ HeadsOK /\ MissingIsEmpty
        /\ AloneInv /\ SerialCallsKeepBlocks
    BY DEF ChainInv
  <1>1. ASSUME NEW c \in Client, Load(c)
        PROVE  ChainInv'
    <2>0. adds + 1 \in Data /\ adds + 1 \in 0 .. MaxBlocks
      BY <1>0, <1>1 DEF Load, ChainTypeOK, Data
    <2>1. ChainTypeOK'
      BY <1>0, <1>1, <2>0, EmptyChain DEF Load, ChainTypeOK
    <2>2. BlocksNumbered'
      BY <1>0, <1>1, <2>0 DEF Load, BlocksNumbered, ChainTypeOK
    <2>3. HeadsOK' /\ MissingIsEmpty'
      <3>1. {file'} \cup {loaded'[d] : d \in Client} \subseteq
              {file, Empty} \cup {loaded[d] : d \in Client}
        BY <1>0, <1>1 DEF Load, ChainTypeOK
      <3> QED BY <1>0, <3>1, EmptyChain DEF HeadsOK, MissingIsEmpty
    <2>4. AloneInv'
      <3> SUFFICES ASSUME Calm', NEW e \in Client, at'[e] # "idle"
                   PROVE  /\ \A d \in Client \ {e} : at'[d] = "idle"
                          /\ added' \subseteq Items(loaded'[e])
                          /\ file'.exists => file' = loaded'[e]
        BY DEF AloneInv
      <3>1. Calm /\ \A d \in Client : at[d] = "idle"
        BY <1>1 DEF Load, Calm
      <3>2. e = c /\ \A d \in Client \ {e} : at'[d] = "idle"
        BY <1>0, <1>1, <3>1 DEF Load, ChainTypeOK
      <3>3. loaded'[e] = file /\ file' = file /\ added' = added
        <4>1. loaded'[e] = file \/ (loaded'[e] = Empty /\ ~file.exists)
          BY <1>0, <1>1, <3>2 DEF Load, ChainTypeOK, Calm
        <4>2. ~file.exists => file = Empty
          BY <1>0 DEF MissingIsEmpty
        <4> QED BY <1>1, <4>1, <4>2 DEF Load
      <3> QED BY <1>0, <3>1, <3>2, <3>3 DEF SerialCallsKeepBlocks
    <2>5. SerialCallsKeepBlocks'
      <3>1. at'[c] # "idle"
        BY <1>0, <1>1 DEF Load, ChainTypeOK
      <3> QED BY <3>1 DEF SerialCallsKeepBlocks
    <2> QED BY <2>1, <2>2, <2>3, <2>4, <2>5 DEF ChainInv
  <1>2. ASSUME NEW c \in Client, at[c] # "idle", Saved(c)
        PROVE  ChainInv'
    <2>0. /\ entry[c] \in Data /\ loaded[c] \in ChainType
          /\ Valid(loaded[c]) /\ HeadOK(loaded[c])
      BY <1>0, <1>2 DEF BlocksNumbered, ChainTypeOK, HeadsOK
    <2>1. /\ file' \in ChainType /\ file'.exists
          /\ Valid(file') /\ HeadOK(file')
          /\ Items(loaded[c]) \cup {entry[c]} \subseteq Items(file')
      BY <1>2, <2>0, ExtendedType, ExtendedValid, ExtendedItems DEF Saved
    <2>2. ChainTypeOK'
      BY <1>0, <1>2, <2>0, <2>1 DEF Saved, ChainTypeOK
    <2>3. BlocksNumbered'
      BY <1>0, <1>2 DEF Saved, BlocksNumbered, ChainTypeOK
    <2>4. HeadsOK' /\ MissingIsEmpty'
      BY <1>0, <1>2, <2>1 DEF Saved, HeadsOK, MissingIsEmpty
    <2>5. CASE Calm
      <3>1. \A d \in Client : at'[d] = "idle"
        BY <1>0, <1>2, <2>5 DEF Saved, AloneInv, ChainTypeOK
      <3>2. added \subseteq Items(loaded[c])
        BY <1>0, <1>2, <2>5 DEF AloneInv
      <3>3. added' \subseteq Items(file')
        BY <1>2, <2>1, <3>2 DEF Saved
      <3>4. AloneInv'
        BY <3>1 DEF AloneInv
      <3>5. SerialCallsKeepBlocks'
        BY <3>3 DEF SerialCallsKeepBlocks
      <3> QED BY <2>2, <2>3, <2>4, <3>4, <3>5 DEF ChainInv
    <2>6. CASE ~Calm
      <3>1. ~Calm'
        BY <1>2, <2>6 DEF Saved, Calm
      <3> QED BY <2>2, <2>3, <2>4, <3>1 DEF ChainInv, AloneInv, SerialCallsKeepBlocks
    <2> QED BY <2>5, <2>6
  <1>3. ASSUME NEW c \in Client, SaveUnlinks(c)
        PROVE  ChainInv'
    <2>1. ChainTypeOK'
      BY <1>0, <1>3, EmptyChain DEF SaveUnlinks, ChainTypeOK
    <2>2. BlocksNumbered'
      BY <1>0, <1>3 DEF SaveUnlinks, BlocksNumbered, ChainTypeOK
    <2>3. HeadsOK' /\ MissingIsEmpty'
      BY <1>0, <1>3, EmptyChain DEF SaveUnlinks, HeadsOK, MissingIsEmpty
    <2>4. AloneInv'
      BY <1>0, <1>3, EmptyChain DEF SaveUnlinks, AloneInv, Calm, ChainTypeOK
    <2>5. SerialCallsKeepBlocks'
      <3>1. at'[c] # "idle"
        BY <1>0, <1>3 DEF SaveUnlinks, ChainTypeOK
      <3> QED BY <3>1 DEF SerialCallsKeepBlocks
    <2> QED BY <2>1, <2>2, <2>3, <2>4, <2>5 DEF ChainInv
  <1>4. ASSUME NEW c \in Client, SaveRetries(c)
        PROVE  ChainInv'
    <2>1. ChainTypeOK' /\ BlocksNumbered' /\ HeadsOK' /\ MissingIsEmpty'
      BY <1>0, <1>4 DEF SaveRetries, ChainTypeOK, BlocksNumbered, HeadsOK, MissingIsEmpty
    <2>2. AloneInv'
      BY <1>0, <1>4 DEF SaveRetries, AloneInv, Calm, ChainTypeOK
    <2>3. SerialCallsKeepBlocks'
      <3>1. at'[c] # "idle"
        BY <1>0, <1>4 DEF SaveRetries, ChainTypeOK
      <3> QED BY <3>1 DEF SerialCallsKeepBlocks
    <2> QED BY <2>1, <2>2, <2>3 DEF ChainInv
  <1>5. ASSUME NEW c \in Client, SaveEnds(c)
        PROVE  ChainInv'
    <2>1. ChainTypeOK'
      <3>1. damaged' \in BOOLEAN
        BY <1>0, <1>5 DEF SaveEnds, ChainTypeOK, ChainType
      <3> QED BY <1>0, <1>5, <3>1 DEF SaveEnds, ChainTypeOK
    <2>2. BlocksNumbered' /\ HeadsOK' /\ MissingIsEmpty'
      BY <1>0, <1>5 DEF SaveEnds, ChainTypeOK, BlocksNumbered, HeadsOK, MissingIsEmpty
    <2>3. CASE Calm'
      <3>1. Calm /\ ~(loaded[c].exists /\ ~file.exists)
        BY <1>5, <2>3 DEF SaveEnds, Calm
      <3>2. \A d \in Client : at'[d] = "idle"
        BY <1>0, <1>5, <3>1 DEF SaveEnds, AloneInv, ChainTypeOK
      <3>3. added \subseteq Items(loaded[c]) /\ (file.exists => file = loaded[c])
        BY <1>0, <1>5, <3>1 DEF SaveEnds, AloneInv
      <3>4. added \subseteq Items(file)
        <4>1. CASE file.exists
          BY <3>3, <4>1
        <4>2. CASE ~file.exists
          BY <1>0, <3>1, <3>3, <4>2 DEF MissingIsEmpty
        <4> QED BY <4>1, <4>2
      <3>5. AloneInv'
        BY <3>2 DEF AloneInv
      <3>6. SerialCallsKeepBlocks'
        BY <1>5, <3>4 DEF SaveEnds, SerialCallsKeepBlocks
      <3> QED BY <2>1, <2>2, <3>5, <3>6 DEF ChainInv
    <2>4. CASE ~Calm'
      BY <2>1, <2>2, <2>4 DEF ChainInv, AloneInv, SerialCallsKeepBlocks
    <2> QED BY <2>3, <2>4
  <1>6. CASE UNCHANGED chainVars
    <2>1. ChainTypeOK' /\ BlocksNumbered' /\ HeadsOK' /\ MissingIsEmpty'
      BY <1>0, <1>6 DEF chainVars, ChainTypeOK, BlocksNumbered, HeadsOK, MissingIsEmpty
    <2>2. AloneInv' /\ SerialCallsKeepBlocks'
      BY <1>0, <1>6 DEF chainVars, AloneInv, SerialCallsKeepBlocks, Calm
    <2> QED BY <2>1, <2>2 DEF ChainInv
  <1> QED
    BY <1>1, <1>2, <1>3, <1>4, <1>5, <1>6 DEF ChainNext, Save, SaveRenames

(* The inductive invariant holds in every reachable state.                  *)
LEMMA ChainInvAlways == ChainSpec => []ChainInv
  <1>1. ChainInit => ChainInv
    <2> SUFFICES ASSUME ChainInit PROVE ChainInv
      OBVIOUS
    <2>1. ChainTypeOK
      <3>1. 0 \in 0 .. MaxBlocks
        BY ChainAssumption
      <3>2. entry \in [Client -> Data \cup {0}] /\ loaded \in [Client -> ChainType]
        BY EmptyChain DEF ChainInit
      <3> QED BY <3>1, <3>2, EmptyChain DEF ChainInit, ChainTypeOK
    <2>2. HeadsOK /\ MissingIsEmpty
      BY EmptyChain DEF ChainInit, HeadsOK, MissingIsEmpty
    <2> QED BY <2>1, <2>2 DEF ChainInit, ChainInv, BlocksNumbered, AloneInv, SerialCallsKeepBlocks
  <1> QED BY <1>1, ChainInvStep, PTL DEF ChainSpec

(* Whatever calls of add_block overlap, fail or die, verify_chain accepts   *)
(* the chain file.                                                          *)
THEOREM ChainAlwaysVerifies == ChainSpec => []AlwaysVerifies
  <1>1. ChainInv => AlwaysVerifies
    BY DEF ChainInv, HeadsOK, AlwaysVerifies
  <1> QED BY <1>1, ChainInvAlways, PTL

(* Calls of add_block that never overlap, that could all read the file and  *)
(* of which none ended between unlink and rename, keep every block that was *)
(* acknowledged.                                                            *)
THEOREM SerialCallsSafe == ChainSpec => []SerialCallsKeepBlocks
  <1>1. ChainInv => SerialCallsKeepBlocks
    BY DEF ChainInv
  <1> QED BY <1>1, ChainInvAlways, PTL

-----------------------------------------------------------------------------
(* EventChain.                                                             *)

(* Where the pieces of a write end up.                                      *)
LEMMA WrittenFacts ==
  ASSUME EventsTypeOK, NEW e \in Event, NEW part \in Parts
  PROVE  LET n == Len(lines)
             new == Written(e, part)
         IN  /\ new \in Seq(Seq(Event \X Parts)) /\ new # <<>>
             /\ \A i \in 1 .. n - 1 : new[i] = lines[i]
             /\ new[n] = Append(lines[n], <<e, part>>)
             /\ EndsLine(part) => Len(new) = n + 1 /\ new[n + 1] = <<>>
             /\ ~EndsLine(part) => Len(new) = n
             /\ n \in Nat \ {0} /\ DOMAIN lines = 1 .. n
             /\ DOMAIN new = 1 .. Len(new)
<1> DEFINE S == Seq(Event \X Parts)
           n == Len(lines)
           x == Append(lines[n], <<e, part>>)
           longer == [lines EXCEPT ![n] = x]
<1>1. lines \in Seq(S) /\ lines # <<>>
  BY DEF EventsTypeOK
<1>2. x \in S
  <2>1. lines[n] \in S
    BY <1>1
  <2>2. <<e, part>> \in Event \X Parts
    OBVIOUS
  <2> QED
    BY <2>1, <2>2
<1>3. <<>> \in S
  OBVIOUS
<1>4. Written(e, part) = IF EndsLine(part) THEN Append(longer, <<>>) ELSE longer
  BY DEF Written
<1>5. n \in Nat \ {0} /\ n = Len(lines) /\ DOMAIN lines = 1 .. n
  BY <1>1
<1> HIDE DEF S, x, n
<1>6. /\ longer \in Seq(S) /\ Len(longer) = n
      /\ \A i \in 1 .. n : longer[i] = IF i = n THEN x ELSE lines[i]
  <2>1. n \in 1 .. Len(lines)
    BY <1>5
  <2> QED
    BY <1>1, <1>2, <1>5, <2>1, ExceptSeq
<1> HIDE DEF longer
<1> DEFINE new == Written(e, part)
           Facts == /\ new \in Seq(S) /\ new # <<>>
                    /\ \A i \in 1 .. n - 1 : new[i] = lines[i]
                    /\ new[n] = x
                    /\ EndsLine(part) => Len(new) = n + 1 /\ new[n + 1] = <<>>
                    /\ ~EndsLine(part) => Len(new) = n
                    /\ DOMAIN new = 1 .. Len(new)
<1>7. ASSUME EndsLine(part)
      PROVE  Facts
  <2>1. new = Append(longer, <<>>)
    BY <1>4, <1>7
  <2>2. /\ Append(longer, <<>>) \in Seq(S)
        /\ Len(Append(longer, <<>>)) = n + 1
        /\ Append(longer, <<>>)[n + 1] = <<>>
        /\ \A i \in 1 .. n : Append(longer, <<>>)[i] = longer[i]
        /\ DOMAIN Append(longer, <<>>) = 1 .. n + 1
        /\ Append(longer, <<>>) # <<>>
    BY <1>3, <1>5, <1>6
  <2> HIDE DEF new
  <2> QED
    BY <1>5, <1>6, <1>7, <2>1, <2>2
<1>8. ASSUME ~EndsLine(part)
      PROVE  Facts
  <2>1. new = longer
    BY <1>4, <1>8
  <2>2. longer # <<>> /\ DOMAIN longer = 1 .. Len(longer)
    BY <1>5, <1>6
  <2> HIDE DEF new
  <2> QED
    BY <1>5, <1>6, <1>8, <2>1, <2>2
<1>9. Facts
  BY <1>7, <1>8
<1> QED
  BY <1>5, <1>9 DEF n, x, S

(* A whole line at the end of a clean log is read, and so is all before it. *)
LEMMA WholeLine ==
  ASSUME EventsTypeOK, NEW e \in Event, lines[Len(lines)] = <<>>,
         lines' = Written(e, "whole")
  PROVE  /\ Readable \cup {e} \subseteq Readable'
         /\ lines'[Len(lines')] = <<>>
<1> DEFINE n == Len(lines)
<1>1. /\ \A i \in 1 .. n - 1 : lines'[i] = lines[i]
      /\ lines'[n] = Append(lines[n], <<e, "whole">>)
      /\ Len(lines') = n + 1 /\ lines'[n + 1] = <<>>
      /\ n \in Nat \ {0} /\ DOMAIN lines = 1 .. n /\ DOMAIN lines' = 1 .. n + 1
  BY WrittenFacts DEF Parts, EndsLine
<1>2. lines'[n] = << <<e, "whole">> >>
  BY <1>1
<1>3. e \in Readable'
  <2>1. Parses(lines'[n], e)
    BY <1>2 DEF Parses
  <2>2. Parses(lines'[n], e) => \E i \in DOMAIN lines' : Parses(lines'[i], e)
    BY <1>1
  <2> QED
    BY <2>1, <2>2 DEF Readable, Parses
<1>4. ASSUME NEW f \in Readable
      PROVE  f \in Readable'
  <2>1. PICK i \in DOMAIN lines : Parses(lines[i], f)
    BY DEF Readable
  <2>2. ~Parses(<<>>, f)
    BY DEF Parses
  <2>3. i \in 1 .. n - 1
    BY <1>1, <2>1, <2>2
  <2>4. i \in DOMAIN lines' /\ lines'[i] = lines[i]
    BY <1>1, <2>3
  <2> QED
    BY <2>1, <2>4 DEF Readable, Parses
<1> QED
  BY <1>1, <1>3, <1>4

(* The types and the numbers of the calls are kept.                         *)
LEMMA EventsTypeStep ==
  EventsTypeOK /\ ItemsNumbered /\ [EventsNext]_eventsVars => EventsTypeOK' /\ ItemsNumbered'
<1> SUFFICES ASSUME EventsTypeOK, ItemsNumbered, [EventsNext]_eventsVars
             PROVE  EventsTypeOK' /\ ItemsNumbered'
  OBVIOUS
<1> USE EventsAssumption
<1>1. ASSUME NEW w \in Writer, AppendEvent(w)
      PROVE  EventsTypeOK' /\ ItemsNumbered'
  BY <1>1 DEF AppendEvent, EventsTypeOK, ItemsNumbered, Event
<1>2. ASSUME NEW w \in Writer, Flush(w) \/ Close(w)
      PROVE  EventsTypeOK' /\ ItemsNumbered'
  <2>1. item[w] \in Event /\ pending[w] \in Parts
    BY <1>2 DEF ItemsNumbered, EventsTypeOK, Parts, Flush, Close
  <2>2. lines' = Written(item[w], pending[w]) \/ lines' = lines
    BY <1>2 DEF Flush, Close
  <2>3. lines' \in Seq(Seq(Event \X Parts)) /\ lines' # <<>>
    BY <2>1, <2>2, WrittenFacts DEF EventsTypeOK
  <2>4. EventsTypeOK'
    BY <1>2, <2>1, <2>3 DEF EventsTypeOK, Flush, Close
  <2>5. ItemsNumbered'
    BY <1>2 DEF ItemsNumbered, EventsTypeOK, Flush, Close
  <2> QED BY <2>4, <2>5
<1>3. ASSUME NEW w \in Writer, ShortWrite(w)
      PROVE  EventsTypeOK' /\ ItemsNumbered'
  <2>1. PICK first \in DOMAIN Rest :
          /\ lines' = Written(item[w], first)
          /\ pending' = [pending EXCEPT ![w] = Rest[first]]
    BY <1>3 DEF ShortWrite
  <2>2. first \in Parts /\ Rest[first] \in {"tail", "newline"}
    BY DEF Rest, Parts
  <2>3. item[w] \in Event
    BY <1>3 DEF ShortWrite, ItemsNumbered
  <2>4. EventsTypeOK'
    BY <1>3, <2>1, <2>2, <2>3, WrittenFacts DEF ShortWrite, EventsTypeOK
  <2>5. ItemsNumbered'
    BY <1>3 DEF ShortWrite, ItemsNumbered
  <2> QED BY <2>4, <2>5
<1>4. ASSUME NEW w \in Writer, FlushFails(w) \/ Crash(w)
      PROVE  EventsTypeOK' /\ ItemsNumbered'
  BY <1>4 DEF FlushFails, Crash, EventsTypeOK, ItemsNumbered
<1>5. CASE UNCHANGED eventsVars
  BY <1>5 DEF eventsVars, EventsTypeOK, ItemsNumbered
<1> QED
  BY <1>1, <1>2, <1>3, <1>4, <1>5 DEF EventsNext

(* Until a line is torn, the end of the file is clean and all is readable.  *)
LEMMA EventsInvStep == EventsInv /\ [EventsNext]_eventsVars => EventsInv'
<1> SUFFICES ASSUME EventsInv, [EventsNext]_eventsVars
             PROVE  EventsInv'
  OBVIOUS
<1>0. EventsTypeOK /\ ItemsNumbered /\ CleanUntilTorn /\ UntornLogReadable
  BY DEF EventsInv
<1>1. EventsTypeOK' /\ ItemsNumbered'
  BY <1>0, EventsTypeStep
<1> SUFFICES CleanUntilTorn' /\ UntornLogReadable'
  BY <1>1 DEF EventsInv
<1>2. ASSUME NEW w \in Writer, AppendEvent(w)
      PROVE  CleanUntilTorn' /\ UntornLogReadable'
  <2>1. CleanUntilTorn'
    BY <1>0, <1>2 DEF AppendEvent, EventsTypeOK, CleanUntilTorn
  <2>2. UntornLogReadable'
    BY <1>0, <1>2 DEF AppendEvent, UntornLogReadable, Readable
  <2> QED
    BY <2>1, <2>2
<1>3. ASSUME NEW w \in Writer, pc[w] # "idle",
             lines' = Written(item[w], pending[w]),
             acked' \in {acked, acked \cup {item[w]}},
             UNCHANGED <<pending, torn>>
      PROVE  CleanUntilTorn' /\ UntornLogReadable'
  <2>1. CASE torn = 0
    <3>1. item[w] \in Event /\ pending[w] = "whole" /\ lines[Len(lines)] = <<>>
      BY <1>0, <1>3, <2>1 DEF CleanUntilTorn, ItemsNumbered
    <3>2. Readable \cup {item[w]} \subseteq Readable' /\ lines'[Len(lines')] = <<>>
      BY <1>0, <1>3, <3>1, WholeLine
    <3> QED
      BY <1>0, <1>3, <2>1, <3>2 DEF CleanUntilTorn, UntornLogReadable
  <2>2. CASE torn # 0
    BY <1>3, <2>2 DEF CleanUntilTorn, UntornLogReadable
  <2> QED
    BY <2>1, <2>2
<1>4. ASSUME NEW w \in Writer, ShortWrite(w)
      PROVE  CleanUntilTorn' /\ UntornLogReadable'
  <2>1. torn' # 0
    BY <1>0, <1>4 DEF ShortWrite, EventsTypeOK
  <2> QED
    BY <2>1 DEF CleanUntilTorn, UntornLogReadable
<1>5. ASSUME UNCHANGED <<lines, pending, acked, torn>>
      PROVE  CleanUntilTorn' /\ UntornLogReadable'
  BY <1>0, <1>5 DEF CleanUntilTorn, UntornLogReadable, Readable
<1>6. ASSUME NEW w \in Writer, Flush(w)
      PROVE  CleanUntilTorn' /\ UntornLogReadable'
  BY <1>3, <1>6 DEF Flush
<1>7. ASSUME NEW w \in Writer, Close(w)
      PROVE  CleanUntilTorn' /\ UntornLogReadable'
  <2>1. CASE lines' = lines
    BY <1>5, <1>7, <2>1 DEF Close
  <2>2. CASE lines' = Written(item[w], pending[w])
    BY <1>3, <1>7, <2>2 DEF Close
  <2> QED
    BY <1>7, <2>1, <2>2 DEF Close
<1>8. ASSUME NEW w \in Writer, FlushFails(w) \/ Crash(w)
      PROVE  CleanUntilTorn' /\ UntornLogReadable'
  BY <1>5, <1>8 DEF FlushFails, Crash
<1>9. CASE UNCHANGED eventsVars
  BY <1>5, <1>9 DEF eventsVars
<1> QED
  BY <1>2, <1>4, <1>6, <1>7, <1>8, <1>9 DEF EventsNext

(* Whatever writers interleave, fail or die: as long as every line was      *)
(* taken at once, all acknowledged events can be read.                      *)
THEOREM UntornLogSafe == EventsSpec => []UntornLogReadable
<1>1. EventsInit => EventsInv
  <2> SUFFICES ASSUME EventsInit
               PROVE  EventsInv
    OBVIOUS
  <2>1. lines = << <<>> >> /\ lines \in Seq(Seq(Event \X Parts)) /\ lines # <<>>
        /\ lines[Len(lines)] = <<>>
    <3>1. <<>> \in Seq(Event \X Parts)
      OBVIOUS
    <3> QED
      BY <3>1 DEF EventsInit
  <2>2. EventsTypeOK
    BY <2>1, EventsAssumption DEF EventsInit, EventsTypeOK
  <2> QED
    BY <2>1, <2>2 DEF EventsInit, EventsInv, ItemsNumbered, CleanUntilTorn, UntornLogReadable
<1>2. EventsInv => UntornLogReadable
  BY DEF EventsInv
<1> QED
  BY <1>1, <1>2, EventsInvStep, PTL DEF EventsSpec

(* What a piece at the end of the file adds: to the split events its own,   *)
(* when it is a first piece; to the followers its own, when it is a whole   *)
(* line after something else; and no event that was alone is touched.      *)
LEMMA WrittenAdds ==
  ASSUME EventsTypeOK, NEW e \in Event, NEW part \in Parts, lines' = Written(e, part)
  PROVE  LET first == part \in {"head", "body"}
             behind == part = "whole" /\ lines[Len(lines)] # <<>>
         IN  /\ SplitEvents' = SplitEvents \cup (IF first THEN {e} ELSE {})
             /\ Followers' = Followers \cup (IF behind THEN {e} ELSE {})
             /\ AloneOnLine \subseteq AloneOnLine'
             /\ part = "whole" /\ lines[Len(lines)] = <<>> => e \in AloneOnLine'
             /\ EndsLine(part) <=> lines'[Len(lines')] = <<>>
<1> DEFINE n == Len(lines)
           piece == <<e, part>>
           m == Len(lines[n])
<1>1. /\ \A i \in 1 .. n - 1 : lines'[i] = lines[i]
      /\ lines'[n] = Append(lines[n], piece)
      /\ EndsLine(part) => Len(lines') = n + 1 /\ lines'[n + 1] = <<>>
      /\ ~EndsLine(part) => Len(lines') = n
      /\ n \in Nat \ {0} /\ DOMAIN lines = 1 .. n /\ DOMAIN lines' = 1 .. Len(lines')
  BY WrittenFacts
<1> HIDE DEF n
<1>1a. n \in Nat \ {0} /\ DOMAIN lines = 1 .. n /\ DOMAIN lines' = 1 .. Len(lines')
  BY <1>1
<1>1b. Len(lines') \in Nat /\ Len(lines') \in {n, n + 1} /\ n \in DOMAIN lines
  <2>1. n \in Nat /\ n + 1 \in Nat /\ n \in DOMAIN lines
    BY <1>1a
  <2>2. CASE EndsLine(part)  BY <1>1, <2>1, <2>2
  <2>3. CASE ~EndsLine(part)  BY <1>1, <2>1, <2>3
  <2> QED BY <2>1, <2>2, <2>3
<1>2. /\ lines[n] \in Seq(Event \X Parts) /\ piece \in Event \X Parts
  <2> DEFINE S == Seq(Event \X Parts)
  <2>1. lines \in Seq(S)
    BY DEF EventsTypeOK
  <2> HIDE DEF S
  <2>2. lines[n] \in S
    BY <1>1b, <2>1
  <2> QED BY <2>2 DEF S
<1> HIDE DEF piece
<1>3. /\ m \in Nat /\ DOMAIN lines[n] = 1 .. m /\ DOMAIN lines'[n] = 1 .. m + 1
      /\ \A j \in 1 .. m : lines'[n][j] = lines[n][j]
      /\ lines'[n][m + 1] = piece /\ (m = 0 <=> lines[n] = <<>>)
      /\ lines'[n] # <<>>
  <2> DEFINE S == Event \X Parts
             x == lines[n]
  <2>1. x \in Seq(S) /\ piece \in S /\ lines'[n] = Append(x, piece) /\ m = Len(x)
    BY <1>1, <1>2
  <2> HIDE DEF S, x, m
  <2>2. /\ m \in Nat /\ DOMAIN x = 1 .. m /\ (m = 0 <=> x = <<>>)
        /\ Append(x, piece) \in Seq(S) /\ Len(Append(x, piece)) = m + 1
        /\ \A j \in 1 .. m : Append(x, piece)[j] = x[j]
        /\ Append(x, piece)[m + 1] = piece
    BY <2>1
  <2>3. DOMAIN Append(x, piece) = 1 .. m + 1 /\ Append(x, piece) # <<>>
    BY <2>2
  <2> QED BY <2>1, <2>2, <2>3 DEF x
<1> HIDE DEF m
<1>4. ASSUME NEW i \in DOMAIN lines
      PROVE  /\ i \in DOMAIN lines'
             /\ \A j \in DOMAIN lines[i] : j \in DOMAIN lines'[i] /\ lines'[i][j] = lines[i][j]
  <2>1. i \in 1 .. n - 1 \/ i = n
    BY <1>1a
  <2>2. i \in DOMAIN lines'
    <3>1. i \in 1 .. n
      BY <1>1a
    <3>2. CASE Len(lines') = n  BY <1>1a, <3>1, <3>2
    <3>3. CASE Len(lines') = n + 1  BY <1>1a, <3>1, <3>3
    <3> QED BY <1>1b, <3>2, <3>3
  <2>3. CASE i \in 1 .. n - 1
    <3>1. lines'[i] = lines[i]
      BY <1>1, <2>3
    <3> QED BY <2>2, <3>1
  <2>4. CASE i = n
    <3>1. ASSUME NEW j \in DOMAIN lines[n]
          PROVE  j \in DOMAIN lines'[n] /\ lines'[n][j] = lines[n][j]
      <4>1. j \in 1 .. m
        BY <1>3
      <4>2. j \in 1 .. m + 1
        BY <1>3, <4>1
      <4> QED BY <1>3, <4>1, <4>2
    <3> QED BY <2>2, <2>4, <3>1
  <2> QED BY <2>1, <2>3, <2>4
<1>5. ASSUME NEW i \in DOMAIN lines', NEW j \in DOMAIN lines'[i]
      PROVE  \/ i \in DOMAIN lines /\ j \in DOMAIN lines[i] /\ lines'[i][j] = lines[i][j]
             \/ i = n /\ j = m + 1 /\ lines'[i][j] = piece
  <2>1. i \in 1 .. n - 1 \/ i = n \/ (EndsLine(part) /\ i = n + 1)
    <3>1. i \in 1 .. Len(lines') /\ n \in Nat
      BY <1>1a
    <3>2. CASE EndsLine(part)
      <4>1. Len(lines') = n + 1
        BY <1>1, <3>2
      <4> QED BY <3>1, <3>2, <4>1
    <3>3. CASE ~EndsLine(part)
      <4>1. Len(lines') = n
        BY <1>1, <3>3
      <4> QED BY <3>1, <4>1
    <3> QED BY <3>2, <3>3
  <2>2. CASE i \in 1 .. n - 1
    <3>1. lines'[i] = lines[i]
      BY <1>1, <2>2
    <3>2. i \in DOMAIN lines
      BY <1>1a, <2>2
    <3> QED BY <3>1, <3>2
  <2>3. CASE i = n
    <3>1. j \in 1 .. m \/ j = m + 1
      BY <1>3, <2>3
    <3>2. CASE j \in 1 .. m
      <4>1. j \in DOMAIN lines[n] /\ lines'[n][j] = lines[n][j]
        BY <1>3, <3>2
      <4> QED BY <1>1b, <2>3, <4>1
    <3>3. CASE j = m + 1
      BY <1>3, <2>3, <3>3
    <3> QED BY <3>1, <3>2, <3>3
  <2>4. CASE EndsLine(part) /\ i = n + 1
    <3>1. lines'[i] = <<>> /\ DOMAIN <<>> = {}
      BY <1>1, <2>4
    <3> QED BY <3>1
  <2> QED BY <2>1, <2>2, <2>3, <2>4
<1>6. n \in DOMAIN lines' /\ m + 1 \in DOMAIN lines'[n] /\ lines'[n][m + 1] = piece
  <2>1. n \in DOMAIN lines'
    BY <1>1b, <1>4
  <2>2. m + 1 \in 1 .. m + 1
    BY <1>3
  <2>3. m + 1 \in DOMAIN lines'[n] /\ lines'[n][m + 1] = piece
    BY <1>3, <2>2
  <2> QED BY <2>1, <2>3
<1>7. /\ \A f, q : piece = <<f, q>> <=> (f = e /\ q = part)
  BY DEF piece
<1>8. SplitEvents' = SplitEvents \cup (IF part \in {"head", "body"} THEN {e} ELSE {})
  <2>1. ASSUME NEW f \in SplitEvents PROVE f \in SplitEvents'
    <3>0. PICK i \in DOMAIN lines : \E j \in DOMAIN lines[i] : lines[i][j] \in {<<f, "head">>, <<f, "body">>}
      BY DEF SplitEvents
    <3>1. PICK j \in DOMAIN lines[i] : f \in Event /\ lines[i][j] \in {<<f, "head">>, <<f, "body">>}
      BY <3>0 DEF SplitEvents
    <3>2. i \in DOMAIN lines' /\ j \in DOMAIN lines'[i] /\ lines'[i][j] = lines[i][j]
      BY <1>4, <3>1
    <3> QED BY <3>1, <3>2 DEF SplitEvents
  <2>2. ASSUME part \in {"head", "body"} PROVE e \in SplitEvents'
    BY <1>6, <1>7, <2>2 DEF SplitEvents
  <2>3. ASSUME NEW f \in SplitEvents', f \notin SplitEvents
        PROVE  f = e /\ part \in {"head", "body"}
    <3>0. PICK i \in DOMAIN lines' : \E j \in DOMAIN lines'[i] : lines'[i][j] \in {<<f, "head">>, <<f, "body">>}
      BY DEF SplitEvents
    <3>1. PICK j \in DOMAIN lines'[i] : f \in Event /\ lines'[i][j] \in {<<f, "head">>, <<f, "body">>}
      BY <3>0 DEF SplitEvents
    <3>2. lines'[i][j] = piece
      BY <1>5, <2>3, <3>1 DEF SplitEvents
    <3> QED BY <1>7, <3>1, <3>2
  <2> QED BY <2>1, <2>2, <2>3
<1>9. Followers' = Followers \cup (IF part = "whole" /\ lines[n] # <<>> THEN {e} ELSE {})
  <2>1. ASSUME NEW f \in Followers PROVE f \in Followers'
    <3>0. PICK i \in DOMAIN lines : \E j \in DOMAIN lines[i] : j >= 2 /\ lines[i][j] = <<f, "whole">>
      BY DEF Followers
    <3>1. PICK j \in DOMAIN lines[i] : f \in Event /\ j >= 2 /\ lines[i][j] = <<f, "whole">>
      BY <3>0 DEF Followers
    <3>2. i \in DOMAIN lines' /\ j \in DOMAIN lines'[i] /\ lines'[i][j] = lines[i][j]
      BY <1>4, <3>1
    <3> QED BY <3>1, <3>2 DEF Followers
  <2>2. ASSUME part = "whole", lines[n] # <<>> PROVE e \in Followers'
    <3>1. m + 1 >= 2
      BY <1>3, <2>2
    <3> QED BY <1>6, <1>7, <2>2, <3>1 DEF Followers
  <2>3. ASSUME NEW f \in Followers', f \notin Followers
        PROVE  f = e /\ part = "whole" /\ lines[n] # <<>>
    <3>0. PICK i \in DOMAIN lines' : \E j \in DOMAIN lines'[i] : j >= 2 /\ lines'[i][j] = <<f, "whole">>
      BY DEF Followers
    <3>1. PICK j \in DOMAIN lines'[i] : f \in Event /\ j >= 2 /\ lines'[i][j] = <<f, "whole">>
      BY <3>0 DEF Followers
    <3>2. j = m + 1 /\ lines'[i][j] = piece
      BY <1>5, <2>3, <3>1 DEF Followers
    <3> QED BY <1>3, <1>7, <3>1, <3>2
  <2> QED BY <2>1, <2>2, <2>3
<1>10. AloneOnLine \subseteq AloneOnLine'
  <2> SUFFICES ASSUME NEW f \in Event, NEW i \in 1 .. n - 1, lines[i] = << <<f, "whole">> >>
               PROVE  i \in 1 .. Len(lines') - 1 /\ lines'[i] = lines[i]
    BY DEF AloneOnLine, n
  <2>1. lines'[i] = lines[i]
    BY <1>1
  <2>2. n \in Nat /\ Len(lines') \in {n, n + 1}
    BY <1>1a, <1>1b
  <2>3. i \in 1 .. Len(lines') - 1
    <3>1. CASE Len(lines') = n  BY <3>1
    <3>2. CASE Len(lines') = n + 1  BY <2>2, <3>2
    <3> QED BY <2>2, <3>1, <3>2
  <2> QED BY <2>1, <2>3
<1>11. ASSUME part = "whole", lines[n] = <<>> PROVE e \in AloneOnLine'
  <2>1. n \in 1 .. Len(lines') - 1
    <3>1. Len(lines') = n + 1
      BY <1>1, <1>11 DEF EndsLine
    <3> QED BY <1>1a, <3>1
  <2>2. lines'[n] = << <<e, "whole">> >>
    BY <1>1, <1>11 DEF piece
  <2> QED BY <2>1, <2>2 DEF AloneOnLine
<1>12. EndsLine(part) <=> lines'[Len(lines')] = <<>>
  <2>1. ASSUME EndsLine(part) PROVE lines'[Len(lines')] = <<>>
    BY <1>1, <2>1
  <2>2. ASSUME ~EndsLine(part) PROVE lines'[Len(lines')] # <<>>
    <3>1. Len(lines') = n
      BY <1>1, <2>2
    <3> QED BY <1>3, <3>1
  <2> QED BY <2>1, <2>2
<1> QED BY <1>8, <1>9, <1>10, <1>11, <1>12 DEF n

(* Sets of events are finite, and one more event counts one more at most.   *)
LEMMA CountedEvents ==
  ASSUME NEW S \in SUBSET Event, NEW e \in Event
  PROVE  /\ IsFiniteSet(S) /\ Cardinality(S) \in Nat
         /\ Cardinality(S \cup {e}) \in Nat
         /\ Cardinality(S \cup {e}) <= Cardinality(S) + 1
<1>1. IsFiniteSet(Event)
  BY EventsAssumption, FS_Interval DEF Event
<1>2. IsFiniteSet(S)
  BY <1>1, FS_Subset
<1>3. IsFiniteSet(S \cup {e})
  BY <1>2, FS_AddElement
<1> QED BY <1>2, <1>3, FS_AddElement, FS_CardinalityType

(* Each kind of damage is paid for by a torn line.                           *)
LEMMA DamageStep == DamageInv /\ [EventsNext]_eventsVars => DamageInv'
<1> SUFFICES ASSUME DamageInv, [EventsNext]_eventsVars
             PROVE  DamageInv'
  OBVIOUS
<1>0. /\ EventsTypeOK /\ ItemsNumbered /\ BuffersSplit /\ SplitCounted
      /\ FollowersCounted /\ AckedAccounted
  BY DEF DamageInv
<1>1. EventsTypeOK' /\ ItemsNumbered'
  BY <1>0, EventsTypeStep
<1>2. SplitEvents \in SUBSET Event /\ Followers \in SUBSET Event
  BY DEF SplitEvents, Followers
<1>3. ASSUME NEW w \in Writer, AppendEvent(w)
      PROVE  DamageInv'
  <2>1. UNCHANGED <<SplitEvents, Followers, AloneOnLine>>
    BY <1>3 DEF AppendEvent, SplitEvents, Followers, AloneOnLine
  <2>2. BuffersSplit'
    BY <1>0, <1>3, <2>1 DEF AppendEvent, BuffersSplit, EventsTypeOK
  <2>3. (SplitCounted /\ FollowersCounted /\ AckedAccounted)'
    BY <1>0, <1>3, <2>1 DEF AppendEvent, SplitCounted, FollowersCounted, AckedAccounted
  <2> QED BY <1>1, <2>2, <2>3 DEF DamageInv
<1>4. ASSUME NEW w \in Writer, pc[w] # "idle",
             lines' = Written(item[w], pending[w]),
             acked' \in {acked, acked \cup {item[w]}},
             pc' = [pc EXCEPT ![w] = "idle"],
             UNCHANGED <<item, pending, calls, torn>>
      PROVE  DamageInv'
  <2> DEFINE behind == pending[w] = "whole" /\ lines[Len(lines)] # <<>>
  <2>1. /\ item[w] \in Event /\ pending[w] \in Parts
        /\ EndsLine(pending[w]) /\ pending[w] \notin {"head", "body"}
    BY <1>0, <1>4 DEF ItemsNumbered, EventsTypeOK, Parts, EndsLine
  <2>2. /\ SplitEvents' = SplitEvents
        /\ Followers' = Followers \cup (IF behind THEN {item[w]} ELSE {})
        /\ AloneOnLine \subseteq AloneOnLine'
        /\ pending[w] = "whole" /\ lines[Len(lines)] = <<>> => item[w] \in AloneOnLine'
    BY <1>0, <1>4, <2>1, WrittenAdds
  <2>3. lines'[Len(lines')] = <<>>
    BY <1>0, <1>4, <2>1, WrittenAdds
  <2>4. BuffersSplit'
    BY <1>0, <1>4, <2>2 DEF BuffersSplit, EventsTypeOK
  <2>5. SplitCounted'
    BY <1>0, <1>4, <2>2 DEF SplitCounted
  <2>6. FollowersCounted'
    <3>1. torn \in Nat /\ torn' = torn
      BY <1>0, <1>4 DEF EventsTypeOK
    <3>2. CASE behind
      <4>1. Cardinality(Followers') <= Cardinality(Followers) + 1
            /\ Cardinality(Followers) \in Nat /\ Cardinality(Followers') \in Nat
        BY <1>2, <2>1, <2>2, <3>2, CountedEvents
      <4>2. Cardinality(Followers) + 1 <= torn
        BY <1>0, <3>2 DEF FollowersCounted
      <4> QED BY <2>3, <3>1, <4>1, <4>2 DEF FollowersCounted
    <3>3. CASE ~behind
      <4>1. Followers' = Followers /\ Cardinality(Followers) \in Nat
        BY <1>2, <2>1, <2>2, <3>3, CountedEvents
      <4>2. Cardinality(Followers) <= torn
        BY <1>0, <3>1, <4>1 DEF FollowersCounted
      <4> QED BY <2>3, <3>1, <4>1, <4>2 DEF FollowersCounted
    <3> QED BY <3>2, <3>3
  <2>7. AckedAccounted'
    <3>1. item[w] \in SplitEvents' \cup Followers' \cup AloneOnLine'
      <4>1. CASE pending[w] # "whole"
        BY <1>0, <1>4, <2>2, <4>1 DEF BuffersSplit
      <4>2. CASE pending[w] = "whole"
        BY <2>2, <4>2
      <4> QED BY <4>1, <4>2
    <3> QED BY <1>0, <1>4, <2>2, <3>1 DEF AckedAccounted
  <2> QED BY <1>1, <2>4, <2>5, <2>6, <2>7 DEF DamageInv
<1>5. ASSUME NEW w \in Writer, ShortWrite(w)
      PROVE  DamageInv'
  <2>1. PICK first \in DOMAIN Rest :
          /\ lines' = Written(item[w], first)
          /\ pending' = [pending EXCEPT ![w] = Rest[first]]
    BY <1>5 DEF ShortWrite
  <2>2. /\ first \in {"head", "body"} /\ first \in Parts /\ ~EndsLine(first)
        /\ item[w] \in Event /\ torn \in Nat /\ torn' = torn + 1
        /\ UNCHANGED <<pc, item, calls, acked>>
    BY <1>0, <1>5 DEF ShortWrite, ItemsNumbered, Rest, Parts, EndsLine, EventsTypeOK
  <2>3. /\ SplitEvents' = SplitEvents \cup {item[w]}
        /\ Followers' = Followers
        /\ AloneOnLine \subseteq AloneOnLine'
    BY <1>0, <2>1, <2>2, WrittenAdds
  <2>5. BuffersSplit'
    BY <1>0, <2>1, <2>2, <2>3 DEF BuffersSplit, EventsTypeOK
  <2>6. SplitCounted'
    <3>1. Cardinality(SplitEvents') <= Cardinality(SplitEvents) + 1
          /\ Cardinality(SplitEvents) \in Nat /\ Cardinality(SplitEvents') \in Nat
      BY <1>2, <2>2, <2>3, CountedEvents
    <3> QED BY <1>0, <2>2, <3>1 DEF SplitCounted
  <2>7. FollowersCounted'
    <3>1. Cardinality(Followers) \in Nat
      BY <1>2, <2>2, CountedEvents
    <3>2. Cardinality(Followers) <= torn
      BY <1>0, <2>2, <3>1 DEF FollowersCounted
    <3> QED BY <2>2, <2>3, <3>1, <3>2 DEF FollowersCounted
  <2>8. AckedAccounted'
    BY <1>0, <2>2, <2>3 DEF AckedAccounted
  <2> QED BY <1>1, <2>5, <2>6, <2>7, <2>8 DEF DamageInv
<1>6. ASSUME UNCHANGED <<lines, item, pending, calls, acked, torn>>,
             \A w \in Writer : pc'[w] # "idle" => pc[w] # "idle"
      PROVE  DamageInv'
  <2>1. UNCHANGED <<SplitEvents, Followers, AloneOnLine>>
    BY <1>6 DEF SplitEvents, Followers, AloneOnLine
  <2>2. BuffersSplit'
    BY <1>0, <1>6, <2>1 DEF BuffersSplit
  <2>3. (SplitCounted /\ FollowersCounted /\ AckedAccounted)'
    BY <1>0, <1>6, <2>1 DEF SplitCounted, FollowersCounted, AckedAccounted
  <2> QED BY <1>1, <2>2, <2>3 DEF DamageInv
<1>7. ASSUME NEW w \in Writer, Flush(w)
      PROVE  DamageInv'
  BY <1>4, <1>7 DEF Flush
<1>8. ASSUME NEW w \in Writer, Close(w)
      PROVE  DamageInv'
  <2>1. CASE lines' = lines
    BY <1>0, <1>6, <1>8, <2>1 DEF Close, EventsTypeOK
  <2>2. CASE lines' = Written(item[w], pending[w])
    BY <1>4, <1>8, <2>2 DEF Close
  <2> QED BY <1>8, <2>1, <2>2 DEF Close
<1>9. ASSUME NEW w \in Writer, FlushFails(w) \/ Crash(w)
      PROVE  DamageInv'
  BY <1>0, <1>6, <1>9 DEF FlushFails, Crash, EventsTypeOK
<1>10. CASE UNCHANGED eventsVars
  BY <1>6, <1>10 DEF eventsVars
<1> QED
  BY <1>3, <1>5, <1>7, <1>8, <1>9, <1>10 DEF EventsNext

(* A line taken in two pieces hides its own event and one other at most,    *)
(* whoever fails, dies or gets between the pieces.                          *)
THEOREM DamageIsBounded == EventsSpec => []DamageBounded
<1>1. EventsInit => DamageInv
  <2> SUFFICES ASSUME EventsInit
               PROVE  DamageInv
    OBVIOUS
  <2>1. /\ lines = << <<>> >> /\ lines \in Seq(Seq(Event \X Parts)) /\ lines # <<>>
        /\ lines[Len(lines)] = <<>>
    <3>1. <<>> \in Seq(Event \X Parts)
      OBVIOUS
    <3> QED BY <3>1 DEF EventsInit
  <2>2. EventsTypeOK /\ ItemsNumbered
    BY <2>1, EventsAssumption DEF EventsInit, EventsTypeOK, ItemsNumbered
  <2>3. SplitEvents = {} /\ Followers = {}
    BY <2>1 DEF SplitEvents, Followers
  <2>4. Cardinality({}) = 0
    BY FS_EmptySet
  <2>5. SplitCounted /\ FollowersCounted
    BY <2>1, <2>3, <2>4 DEF EventsInit, SplitCounted, FollowersCounted
  <2>6. BuffersSplit /\ AckedAccounted
    BY DEF EventsInit, BuffersSplit, AckedAccounted
  <2> QED BY <2>2, <2>5, <2>6 DEF DamageInv
<1>2. DamageInv => DamageBounded
  <2> SUFFICES ASSUME DamageInv
               PROVE  DamageBounded
    OBVIOUS
  <2>1. AloneOnLine \subseteq Readable
    <3> SUFFICES ASSUME NEW e \in AloneOnLine
                 PROVE  e \in Readable
      OBVIOUS
    <3>1. PICK i \in 1 .. Len(lines) - 1 : lines[i] = << <<e, "whole">> >>
      BY DEF AloneOnLine
    <3>2. i \in DOMAIN lines
      BY <3>1 DEF DamageInv, EventsTypeOK
    <3>3. Parses(lines[i], e)
      BY <3>1 DEF Parses
    <3> QED BY <3>2, <3>3 DEF Readable, AloneOnLine
  <2> DEFINE hidden == acked \ Readable
             most == SplitEvents \cup Followers
  <2>2. hidden \subseteq most
    BY <2>1 DEF DamageInv, AckedAccounted
  <2>3. IsFiniteSet(SplitEvents) /\ IsFiniteSet(Followers)
    <3>1. IsFiniteSet(Event)
      BY EventsAssumption, FS_Interval DEF Event
    <3> QED BY <3>1, FS_Subset DEF SplitEvents, Followers
  <2>4. /\ IsFiniteSet(most) /\ IsFiniteSet(SplitEvents \cap Followers)
        /\ Cardinality(most) =
             Cardinality(SplitEvents) + Cardinality(Followers)
               - Cardinality(SplitEvents \cap Followers)
    BY <2>3, FS_Union, FS_Subset
  <2>5. IsFiniteSet(hidden) /\ Cardinality(hidden) <= Cardinality(most)
    BY <2>2, <2>4, FS_Subset
  <2>6. /\ Cardinality(hidden) \in Nat /\ Cardinality(most) \in Nat
        /\ Cardinality(SplitEvents) \in Nat /\ Cardinality(Followers) \in Nat
        /\ Cardinality(SplitEvents \cap Followers) \in Nat
    BY <2>3, <2>4, <2>5, FS_CardinalityType
  <2>7. torn \in Nat /\ Cardinality(SplitEvents) <= torn
    BY DEF DamageInv, EventsTypeOK, SplitCounted
  <2>8. Cardinality(Followers) <= torn
    BY <2>6, <2>7 DEF DamageInv, FollowersCounted
  <2> HIDE DEF hidden, most
  <2>9. Cardinality(hidden) <= 2 * torn
    BY <2>4, <2>5, <2>6, <2>7, <2>8
  <2> QED BY <2>9 DEF DamageBounded, hidden
<1> QED
  BY <1>1, <1>2, DamageStep, PTL DEF EventsSpec
=============================================================================
