---------------------------- MODULE BlockTracker ----------------------------
(***************************************************************************)
(* internal/monitor/base/events.go: the block tracker of the event         *)
(* subscription.  The read loop of the web socket handles one head after   *)
(* the other; every five seconds another goroutine fetches the last blocks *)
(* again and compares them.  Each takes the locks of the maps for one      *)
(* access at a time.                                                       *)
(*                                                                         *)
(* A block is the index it has in mined.  What the tracker stores of a     *)
(* head is its number alone, so that its hash is nobody's: whole says      *)
(* whether a tracked header came from the node.  The chain, the heads on   *)
(* their way and the answers of the node are the environment's.            *)
(***************************************************************************)
EXTENDS Integers, Sequences, Functions

CONSTANTS
  Depth,      \* reorgDepth, ConfirmationBlocks
  StartHeight,\* the height of the chain when the tracker is initialised
  MaxUint,    \* the largest unsigned number
  MaxMined,   \* bound: blocks ever mined
  MaxReorg    \* bound: blocks one reorganisation replaces

ASSUME TrackerSizes == /\ {Depth, StartHeight, MaxReorg} \subseteq Nat \ {0}
                       /\ {MaxUint, MaxMined} \subseteq Nat
                       /\ MaxReorg < StartHeight

VARIABLES
  mined,      \* every block there has been: its number and its parent
  chain,      \* [numbers -> the node's block of that number]
  heads,      \* the heads on their way to the tracker
  blocks,     \* blockTracker.blocks
  canonical,  \* blockTracker.canonical
  lastBlock,  \* blockTracker.lastBlock
  head,       \* where processNewBlock is, with what it has read
  check,      \* where detectReorgs is, with what it has read
  quiet,      \* history: nothing has moved and no fetch has failed since the check began
  raced       \* history: the numbers last marked in the middle of their replacement

environment == <<mined, chain, heads>>
tracker == <<blocks, canonical, lastBlock>>
trackerVars == <<environment, tracker, head, check, quiet, raced>>

Nobody == [block |-> 0, whole |-> FALSE]
NoHead == [at |-> "idle", block |-> 0, parent |-> Nobody]
NoCheck == [at |-> "idle", number |-> 0, latest |-> 0, header |-> 0]

\* Subtraction of unsigned numbers wraps around.
Minus(a, b) == IF a >= b THEN a - b ELSE MaxUint + 1 - (b - a)

Put(f, n, x) == [m \in DOMAIN f \cup {n} |-> IF m = n THEN x ELSE f[m]]
Marked(n) == n \in DOMAIN canonical /\ canonical[n]

Blocks == [block : Nat, whole : BOOLEAN]

TrackerTypeOK ==
  /\ mined \in Seq([number : Nat, parent : Nat])
  /\ chain \in Seq(Nat) /\ Len(chain) >= StartHeight
  /\ heads \in Seq(1 .. Len(mined))
  /\ blocks \in [DOMAIN blocks -> Blocks] /\ DOMAIN blocks \subseteq Int
  /\ canonical \in [DOMAIN canonical -> BOOLEAN] /\ DOMAIN canonical \subseteq Int
  /\ lastBlock \in Nat
  /\ head \in [at : {"idle", "marking", "storing"}, block : Nat, parent : Blocks]
  /\ head.at # "idle" => head.block \in 1 .. Len(mined)
  /\ check \in [at : {"idle", "fetching", "comparing", "unmarking", "replacing"},
               number : Int, latest : Nat, header : Nat]
  /\ quiet \in BOOLEAN

\* initializeBlockTracker fetches the latest header.
TrackerInit ==
  /\ mined = [n \in 1 .. StartHeight |-> [number |-> n, parent |-> n - 1]]
  /\ chain = [n \in 1 .. StartHeight |-> n]
  /\ heads = <<>>
  /\ blocks = [n \in {StartHeight} |-> [block |-> StartHeight, whole |-> TRUE]]
  /\ canonical = [n \in {} |-> TRUE]
  /\ lastBlock = StartHeight
  /\ head = NoHead /\ check = NoCheck
  /\ quiet = FALSE
  /\ raced = {}

---------------------------------------------------------------------------
(* The chain and the connection *)

\* k blocks are replaced and one more is mined; k = 0 is the ordinary case.
Mine(k) ==
  LET from == Len(chain) - k
      new == [i \in 1 .. k + 1 |->
                [number |-> from + i,
                 parent |-> IF i = 1 THEN chain[from] ELSE Len(mined) + i - 1]]
      ids == [i \in 1 .. k + 1 |-> Len(mined) + i]
  IN  /\ Len(mined) + k + 1 <= MaxMined
      /\ mined' = mined \o new
      /\ chain' = SubSeq(chain, 1, from) \o ids
      /\ heads' = heads \o ids
      /\ quiet' = FALSE
      /\ UNCHANGED <<tracker, head, check, raced>>

\* The connection is lost, and the heads with it.
Lose ==
  /\ heads # <<>>
  /\ heads' = <<>>
  /\ UNCHANGED <<mined, chain, tracker, head, check, quiet, raced>>

---------------------------------------------------------------------------
(* processNewBlock *)

HeadArrives ==
  /\ head.at = "idle" /\ heads # <<>>
  /\ LET b == Head(heads)
         before == mined[b].number - 1
     IN  head' = IF before \in DOMAIN blocks
                 THEN [at |-> "marking", block |-> b, parent |-> blocks[before]]
                 ELSE [at |-> "storing", block |-> b, parent |-> Nobody]
  /\ heads' = Tail(heads)
  /\ quiet' = FALSE
  /\ UNCHANGED <<mined, chain, tracker, check, raced>>

\* The parent's hash against that of the tracked header.
Follows == head.parent.whole /\ mined[head.block].parent = head.parent.block

Mark ==
  LET n == mined[head.block].number IN
  /\ head.at = "marking"
  /\ canonical' = IF Follows THEN Put(canonical, n, TRUE)
                  ELSE Put(Put(canonical, n, FALSE), n - 1, FALSE)
  /\ raced' = IF Follows /\ check.at = "replacing" /\ check.number = n
              THEN raced \cup {n} ELSE raced \ {n}
  /\ head' = [head EXCEPT !.at = "storing"]
  /\ quiet' = FALSE
  /\ UNCHANGED <<environment, blocks, lastBlock, check>>

\* The header stored has the number of the head and nothing else.
Store ==
  LET n == mined[head.block].number IN
  /\ head.at = "storing"
  /\ blocks' = Put(blocks, n, [block |-> head.block, whole |-> FALSE])
  /\ lastBlock' = n
  /\ head' = NoHead
  /\ quiet' = FALSE
  /\ UNCHANGED <<environment, canonical, check, raced>>

\* processLogEvent: the log of a block is passed over.
Skips(n) == ~Marked(n) /\ n < lastBlock

---------------------------------------------------------------------------
(* detectReorgs *)

\* Mutant: the last block is left out.
CheckBegins_Short ==
  /\ check.at = "idle" /\ DOMAIN blocks # {}
  /\ check' = [at |-> "fetching", number |-> Minus(lastBlock, Depth),
               latest |-> lastBlock - 1, header |-> 0]
  /\ quiet' = (head = NoHead)
  /\ UNCHANGED <<environment, tracker, head, raced>>

CheckBegins ==
  /\ check.at = "idle" /\ DOMAIN blocks # {}
  /\ check' = [at |-> "fetching", number |-> Minus(lastBlock, Depth),
               latest |-> lastBlock, header |-> 0]
  /\ quiet' = (head = NoHead)
  /\ UNCHANGED <<environment, tracker, head, raced>>

Advance == [check EXCEPT !.at = "fetching", !.number = @ + 1, !.header = 0]

Fetch ==
  /\ check.at = "fetching" /\ check.number <= check.latest
  /\ check.number \in DOMAIN chain
  /\ check' = [check EXCEPT !.at = "comparing", !.header = chain[check.number]]
  /\ UNCHANGED <<environment, tracker, head, quiet, raced>>

\* The node does not answer in time, or knows no such block.
FetchFails ==
  /\ check.at = "fetching" /\ check.number <= check.latest
  /\ check' = Advance
  /\ quiet' = FALSE
  /\ UNCHANGED <<environment, tracker, head, raced>>

Compare ==
  LET n == check.number IN
  /\ check.at = "comparing"
  /\ check' = IF n \in DOMAIN blocks /\ blocks[n] # [block |-> check.header, whole |-> TRUE]
              THEN [check EXCEPT !.at = "unmarking"] ELSE Advance
  /\ UNCHANGED <<environment, tracker, head, quiet, raced>>

Unmark ==
  /\ check.at = "unmarking"
  /\ canonical' = Put(canonical, check.number, FALSE)
  /\ check' = [check EXCEPT !.at = "replacing"]
  /\ raced' = raced \ {check.number}
  /\ UNCHANGED <<environment, blocks, lastBlock, head, quiet>>

\* Mutant: the tracked header is kept.
Replace_Forgets ==
  /\ check.at = "replacing"
  /\ check' = Advance
  /\ UNCHANGED <<environment, tracker, head, quiet, raced>>

Replace ==
  /\ check.at = "replacing"
  /\ blocks' = Put(blocks, check.number, [block |-> check.header, whole |-> TRUE])
  /\ check' = Advance
  /\ UNCHANGED <<environment, canonical, lastBlock, head, quiet, raced>>

\* The marks go with the blocks, though their own lock is not taken.
cleanupOldBlocks ==
  LET cutoff == Minus(lastBlock, 2 * Depth)
      kept == {n \in DOMAIN blocks : n >= cutoff}
  IN  /\ check.at = "fetching" /\ check.number > check.latest
      /\ blocks' = Restrict(blocks, kept)
      /\ canonical' = Restrict(canonical, DOMAIN canonical \ (DOMAIN blocks \ kept))
      /\ check' = NoCheck
      /\ UNCHANGED <<environment, lastBlock, head, quiet, raced>>

TrackerNext ==
  \/ \E k \in 0 .. MaxReorg : Mine(k)
  \/ Lose
  \/ HeadArrives \/ Mark \/ Store
  \/ CheckBegins \/ Fetch \/ FetchFails \/ Compare \/ Unmark \/ Replace \/ cleanupOldBlocks

=============================================================================
