---------------------------- MODULE BlockSearch ----------------------------
(***************************************************************************)
(* BlocksHelper.get_latest_existing_block_at() (core/utils.py): the block  *)
(* from which Bankster looks for the payments made after a closure time.   *)
(*                                                                         *)
(* A binary search in which every look at a block is a call to the         *)
(* Ethereum node, and the blockchain grows between the calls.  Blocks are  *)
(* reduced to their timestamps, which grow with the number; the node is    *)
(* external.                                                               *)
(***************************************************************************)
EXTENDS Integers, Sequences

CONSTANTS
  MaxBlocks,   \* bound: the length of the chain
  MaxTime      \* bound: the timestamps

ASSUME SearchAssumption == MaxBlocks \in Nat \ {0} /\ MaxTime \in Nat

VARIABLES
  chain,   \* the timestamps of the confirmed blocks, the genesis block's first
  search   \* the local variables of the search

searchVars == <<chain, search>>

-----------------------------------------------------------------------------
\* get_block_by_number(number).timestamp; the genesis block has number 0.
Timestamp(number) == chain[number + 1]

LatestNumber == Len(chain) - 1

Idle == [op |-> "idle"]

SearchInit ==
  /\ chain \in {<<t>> : t \in 0..MaxTime}
  /\ search = Idle

Call(timestamp) ==
  /\ search = Idle
  /\ search' = [op |-> "search", timestamp |-> timestamp, lowest |-> -1,
                highest |-> LatestNumber, latest |-> LatestNumber]
  /\ UNCHANGED chain

\* Mutant: >= for >.
NotEarlier(number, timestamp) == Timestamp(number) >= timestamp

Later(number, timestamp) == Timestamp(number) > timestamp

\* Mutant: a third of the range is cut off, rounded the wrong way.
TwoThirds(lowest, highest) == highest - (highest - lowest) \div 3

Medium(lowest, highest) == (lowest + highest) \div 2

\* An iteration of the loop.
Probe ==
  LET medium == Medium(search.lowest, search.highest) IN
  /\ search.op = "search"
  /\ search.lowest + 1 < search.highest
  /\ search' = IF Later(medium, search.timestamp)
                 THEN [search EXCEPT !.highest = medium]
                 ELSE [search EXCEPT !.lowest = medium]
  /\ UNCHANGED chain

Return ==
  /\ search.op = "search"
  /\ search.lowest + 1 >= search.highest
  /\ search' = [op |-> "found", timestamp |-> search.timestamp,
                number |-> search.highest, latest |-> search.latest]
  /\ UNCHANGED chain

\* The caller has used the block.
Reset ==
  /\ search.op = "found"
  /\ search' = Idle
  /\ UNCHANGED chain

MineBlock(timestamp) ==
  /\ Len(chain) < MaxBlocks
  /\ timestamp > chain[Len(chain)]
  /\ chain' = Append(chain, timestamp)
  /\ UNCHANGED search

SearchNext ==
  \/ \E t \in 0..MaxTime : Call(t) \/ MineBlock(t)
  \/ Probe
  \/ Return
  \/ Reset

SearchSpec == SearchInit /\ [][SearchNext]_searchVars

\* The loop goes on as long as the process runs.
FairSearchSpec == SearchSpec /\ WF_searchVars(Probe) /\ WF_searchVars(Return)

-----------------------------------------------------------------------------
(* Properties. *)

\* The types of the variables; the numbers are those of existing blocks.
SearchTypeOK ==
  /\ chain \in Seq(Nat) /\ chain # <<>>
  /\ \/ search = Idle
     \/ /\ search \in [op : {"search"}, timestamp : Nat, lowest : Int, highest : Nat, latest : Nat]
        /\ search.lowest \in -1..search.highest
        /\ search.highest <= search.latest
        /\ search.latest < Len(chain)
     \/ /\ search \in [op : {"found"}, timestamp : Nat, number : Nat, latest : Nat]
        /\ search.number <= search.latest
        /\ search.latest < Len(chain)

\* "Returns block with smallest number for which `block.timestamp > timestamp` is satisfied or
\* if such block doesn't exist returns latest block" (core/utils.py), where the latest block
\* is the one that was the latest when the search began.
FirstLaterBlockIsFound ==
  search.op = "found" =>
    /\ \A n \in 0..(search.number - 1) : Timestamp(n) <= search.timestamp
    /\ Timestamp(search.number) > search.timestamp \/ search.number = search.latest

\* The search ends, whatever the blockchain does meanwhile.
SearchEnds == search.op = "search" ~> search.op = "found"
=============================================================================
