----------------------------- MODULE HashChain ------------------------------
(***************************************************************************)
(* memory/hash_chain.py: every add_block() loads the whole chain file,     *)
(* appends a block to what it loaded and writes the whole file back.  Each *)
(* process has a HashChain object of its own on the same file.             *)
(*                                                                         *)
(* A hash is taken to be injective, so the hash of a block is represented  *)
(* by what it commits to: the data of the blocks from the first to itself. *)
(***************************************************************************)
EXTENDS Integers, Sequences

CONSTANTS Client,
          MaxBlocks    \* bound: calls of add_block in a behaviour

ASSUME ChainAssumption == MaxBlocks \in Nat

Data == 1 .. MaxBlocks
Hash == Seq(Data)
Block == [data : Data, prev : Hash, hash : Hash]
Empty == [blocks |-> <<>>, lastHash |-> <<>>, exists |-> FALSE]

VARIABLES windows,     \* atomic_write_json unlinks before it renames
          file,        \* hash_chain.json
          at,          \* how far each client's call is
          loaded,      \* chain_data of each client's call
          entry,       \* what each client's call adds
          adds,        \* calls of add_block so far, numbering the items
          added,       \* items whose add_block answered True
          overlapped,  \* history: two calls overlapped
          damaged      \* history: a read failed, or a call ended in the gap of its write

chainVars == <<windows, file, at, loaded, entry, adds, added, overlapped, damaged>>

ChainInit ==
  /\ windows \in BOOLEAN
  /\ file = Empty
  /\ at = [c \in Client |-> "idle"]
  /\ loaded = [c \in Client |-> Empty]
  /\ entry = [c \in Client |-> 0]
  /\ adds = 0
  /\ added = {}
  /\ overlapped = FALSE
  /\ damaged = FALSE

(* Mutated: the new block points at itself.                                 *)
Extended_OwnHash(chain, d) ==
  LET h == Append(chain.lastHash, d)
  IN  [blocks   |-> Append(chain.blocks, [data |-> d, prev |-> h, hash |-> h]),
       lastHash |-> h,
       exists   |-> TRUE]

(* The new block on top of last_hash.                                       *)
Extended(chain, d) ==
  LET h == Append(chain.lastHash, d)
  IN  [blocks   |-> Append(chain.blocks, [data |-> d, prev |-> chain.lastHash, hash |-> h]),
       lastHash |-> h,
       exists   |-> TRUE]

(* verify_chain: recompute every hash, follow every link; an empty chain is *)
(* valid, and last_hash is not looked at.                                   *)
Valid(chain) ==
  \A i \in DOMAIN chain.blocks :
    /\ chain.blocks[i].hash = Append(chain.blocks[i].prev, chain.blocks[i].data)
    /\ chain.blocks[i].prev = IF i = 1 THEN <<>> ELSE chain.blocks[i - 1].hash

-----------------------------------------------------------------------------
(* Mutated: the chain is loaded once and reused by the next call.           *)
Load_Cached(c) ==
  /\ at[c] = "idle" /\ adds < MaxBlocks
  /\ UNCHANGED <<loaded, damaged>>
  /\ adds' = adds + 1
  /\ entry' = [entry EXCEPT ![c] = adds + 1]
  /\ at' = [at EXCEPT ![c] = "save"]
  /\ overlapped' = (overlapped \/ \E d \in Client \ {c} : at[d] # "idle")
  /\ UNCHANGED <<windows, file, added>>

(* add_block up to the save.  safe_read_json answers None for a missing     *)
(* file and for one it could not read, and _load_chain takes both for an    *)
(* empty chain.                                                             *)
Load(c) ==
  /\ at[c] = "idle" /\ adds < MaxBlocks
  /\ \E readable \in BOOLEAN :
       /\ loaded' = [loaded EXCEPT ![c] = IF readable THEN file ELSE Empty]
       /\ damaged' = (damaged \/ (~readable /\ file.exists))
  /\ adds' = adds + 1
  /\ entry' = [entry EXCEPT ![c] = adds + 1]
  /\ at' = [at EXCEPT ![c] = "save"]
  /\ overlapped' = (overlapped \/ \E d \in Client \ {c} : at[d] # "idle")
  /\ UNCHANGED <<windows, file, added>>

Saved(c) ==
  /\ file' = Extended(loaded[c], entry[c])
  /\ added' = added \cup {entry[c]}
  /\ at' = [at EXCEPT ![c] = "idle"]
  /\ UNCHANGED <<windows, loaded, entry, adds, overlapped, damaged>>

Save(c) == ~windows /\ at[c] = "save" /\ Saved(c)

SaveUnlinks(c) ==
  /\ windows /\ at[c] = "save"
  /\ file' = Empty
  /\ at' = [at EXCEPT ![c] = "rename"]
  /\ UNCHANGED <<windows, loaded, entry, adds, added, overlapped, damaged>>

SaveRenames(c) == at[c] = "rename" /\ ~file.exists /\ Saved(c)

(* An attempt that failed is made again from the start of the write.        *)
SaveRetries(c) ==
  /\ at[c] = "rename"
  /\ at' = [at EXCEPT ![c] = "save"]
  /\ UNCHANGED <<windows, file, loaded, entry, adds, added, overlapped, damaged>>

(* The write raised (add_block answers False) or the process died.          *)
SaveEnds(c) ==
  /\ at[c] # "idle"
  /\ at' = [at EXCEPT ![c] = "idle"]
  /\ damaged' = (damaged \/ (loaded[c].exists /\ ~file.exists))
  /\ UNCHANGED <<windows, file, loaded, entry, adds, added, overlapped>>

ChainNext == \E c \in Client :
  Load(c) \/ Save(c) \/ SaveUnlinks(c) \/ SaveRenames(c) \/ SaveRetries(c) \/ SaveEnds(c)

ChainSpec == ChainInit /\ [][ChainNext]_chainVars

-----------------------------------------------------------------------------
ChainType == [blocks : Seq(Block), lastHash : Hash, exists : BOOLEAN]

ChainTypeOK ==
  /\ windows \in BOOLEAN
  /\ file \in ChainType
  /\ at \in [Client -> {"idle", "save", "rename"}]
  /\ loaded \in [Client -> ChainType]
  /\ entry \in [Client -> Data \cup {0}]
  /\ adds \in 0 .. MaxBlocks
  /\ added \subseteq Data
  /\ overlapped \in BOOLEAN
  /\ damaged \in BOOLEAN

Items(chain) == {chain.blocks[i].data : i \in DOMAIN chain.blocks}

(* Whatever calls overlap, fail or die, verify_chain accepts the file: lost *)
(* updates take whole suffixes away and never break a link.                 *)
AlwaysVerifies == Valid(file)

(* Calls that do not overlap keep every block that was acknowledged, unless *)
(* one of them could not read the file or ended in the gap of its write.    *)
Calm == ~overlapped /\ ~damaged

SerialCallsKeepBlocks ==
  (Calm /\ \A c \in Client : at[c] = "idle") => added \subseteq Items(file)

(* "Immutable audit trail and integrity verification": a block add_block    *)
(* answered True for stays in the chain, or verify_chain reports it.        *)
AcknowledgedBlocksStay == added \subseteq Items(file) \/ ~Valid(file)

(* last_hash names the last block, in the file and in what calls have       *)
(* loaded: why the next link will be right.                                 *)
HeadOK(chain) ==
  chain.lastHash = IF chain.blocks = <<>> THEN <<>> ELSE chain.blocks[Len(chain.blocks)].hash

HeadsOK == \A chain \in {file} \cup {loaded[c] : c \in Client} : Valid(chain) /\ HeadOK(chain)

(* A call that runs alone has all acknowledged blocks in what it loaded,    *)
(* which is what the file holds as long as the file is there.               *)
AloneInv ==
  Calm => \A c \in Client : at[c] # "idle" =>
            /\ \A d \in Client \ {c} : at[d] = "idle"
            /\ added \subseteq Items(loaded[c])
            /\ file.exists => file = loaded[c]

(* An absent file is read as an empty chain, and a call adds an item of its *)
(* own.                                                                     *)
MissingIsEmpty ==
  \A chain \in {file} \cup {loaded[c] : c \in Client} : ~chain.exists => chain = Empty

BlocksNumbered == \A c \in Client : at[c] # "idle" => entry[c] \in Data

(* The inductive invariant behind the two properties above.                 *)
ChainInv == ChainTypeOK /\ BlocksNumbered /\ HeadsOK /\ MissingIsEmpty /\ AloneInv /\ SerialCallsKeepBlocks
=============================================================================
